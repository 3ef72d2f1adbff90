-------------------------- MODULE MultithreadedList --------------------------
(***************************************************************************)
(* generic_multithreaded_list.c with its pointers: nodes on the heap,      *)
(* linked in a ring both ways, and a mutex when the list was created       *)
(* multithreaded.  The client shares such a list between its main thread,  *)
(* which changes it, and its workers, which search it; the server has one  *)
(* without the mutex.                                                      *)
(*                                                                         *)
(* Each function body runs inside the mutex, so it is one step; taking the *)
(* mutex is another.  The comparer compares elements, so data[n] stands    *)
(* for the key of what node n points to.                                   *)
(***************************************************************************)
EXTENDS Naturals, FiniteSets, Sequences, FiniteSetsExt

CONSTANTS
    Threads,        \* the threads that call the list
    Mutators,       \* those that call list_rpush and list_remove
    Elements,       \* keys of the elements
    Nodes,          \* the addresses malloc can return; bounds the list
    FreedNext,      \* what a read of freed->next gives: see Freed
    NULL,           \* the null pointer
    Wild,           \* a pointer to no node
    NoThread,       \* the mutex is free
    NoResult        \* no search has returned yet

ASSUME ListAssumption ==
    /\ \E main \in Threads : Mutators = {main}
    /\ FreedNext \subseteq {"old", "null", "wild"}
    /\ IsFiniteSet(Nodes)
    /\ {NULL, Wild} \cap Nodes = {} /\ NULL \notin Elements
    /\ NULL # Wild
    /\ NoThread \notin Threads
    /\ NoResult \notin BOOLEAN

VARIABLES
    multithreaded,  \* the argument of list_create
    head, size,     \* list->head and list->size
    next, previous, \* the links of the nodes; free nodes link to themselves
    data,           \* what the nodes point to; free nodes point to NULL
    mutex,          \* the thread that holds list->mutex, or NoThread
    pc,             \* pc[t]: the call thread t is in, or "run"
    result          \* result[t]: what t's last search returned

ring == <<head, size, next, previous, data>>
vars == <<multithreaded, ring, mutex, pc, result>>

Calls == [op : {"rpush", "remove", "exists", "find"},
          at : {"lock", "body"}, element : Elements]

\* The process has died of a null or wild pointer.
Segv == [op |-> "segv"]
Run  == [op |-> "run"]

Allocated == {n \in Nodes : data[n] # NULL}

Init ==
    /\ multithreaded \in BOOLEAN
    /\ head = NULL
    /\ size = 0
    /\ next = [n \in Nodes |-> n]
    /\ previous = [n \in Nodes |-> n]
    /\ data = [n \in Nodes |-> NULL]
    /\ mutex = NoThread
    /\ pc = [t \in Threads |-> Run]
    /\ result = [t \in Threads |-> NoResult]

Alive == \A t \in Threads : pc[t] # Segv

\* The nodes the do-while loops visit, in order, from the head back to the head.
Visited ==
    LET walk[k \in Nat] == IF k = 0 THEN head ELSE next[walk[k - 1]]
        length == Min({k \in 1 .. Cardinality(Nodes) : walk[k] = head})
    IN  IF head \notin Nodes THEN <<>> ELSE [i \in 1 .. length |-> walk[i - 1]]

\* The node the loop stops at, which is the head again when nothing is equal.
Stop(x) ==
    LET hits == {i \in 1 .. Len(Visited) : data[Visited[i]] = x}
    IN  IF hits = {} THEN head ELSE Visited[Min(hits)]

Found(x) == \E i \in 1 .. Len(Visited) : data[Visited[i]] = x
-----------------------------------------------------------------------------
\* The server's list is not multithreaded: main alone calls it, and removes
\* whatever a LOG_OFF names.  A client removes what it has found.
Call(t, op, x) ==
    /\ Alive
    /\ pc[t] = Run
    /\ t \notin Mutators => multithreaded /\ op \in {"exists", "find"}
    /\ op = "rpush" => Allocated # Nodes
    /\ op = "remove" => ~multithreaded \/ Found(x)
    /\ pc' = [pc EXCEPT ![t] = [op |-> op, at |-> "lock", element |-> x]]
    /\ UNCHANGED <<multithreaded, ring, mutex, result>>

Lock(t) ==
    /\ Alive
    /\ pc[t] \in Calls
    /\ pc[t].at = "lock"
    /\ IF multithreaded
       THEN mutex = NoThread /\ mutex' = t
       ELSE UNCHANGED mutex
    /\ pc' = [pc EXCEPT ![t].at = "body"]
    /\ UNCHANGED <<multithreaded, ring, result>>

In(t, op) == Alive /\ pc[t] \in Calls /\ pc[t].op = op /\ pc[t].at = "body"

Unlock(t) ==
    /\ mutex' = IF multithreaded THEN NoThread ELSE mutex
    /\ pc' = [pc EXCEPT ![t] = Run]
    /\ UNCHANGED multithreaded

Crash(t) ==
    /\ pc' = [pc EXCEPT ![t] = Segv]
    /\ UNCHANGED <<multithreaded, ring, mutex, result>>

\* Mutant: the new node becomes the head.
list_rpush_at_head(t) ==
    /\ In(t, "rpush")
    /\ head \in Nodes \/ size = 0
    /\ \E node \in Nodes \ Allocated :
          /\ data' = [data EXCEPT ![node] = pc[t].element]
          /\ IF size # 0
             THEN LET left_side == previous[head] IN
                  /\ next' = [next EXCEPT ![left_side] = node, ![node] = head]
                  /\ previous' = [previous EXCEPT ![head] = node, ![node] = left_side]
                  /\ head' = node
             ELSE /\ head' = node
                  /\ UNCHANGED <<next, previous>>
    /\ size' = size + 1
    /\ Unlock(t)
    /\ UNCHANGED result

\* __create_list_node and list_rpush: before the head is at the end of the ring.
list_rpush(t) ==
    /\ In(t, "rpush")
    /\ head \in Nodes \/ size = 0
    /\ \E node \in Nodes \ Allocated :
          /\ data' = [data EXCEPT ![node] = pc[t].element]
          /\ IF size # 0
             THEN LET left_side == previous[head] IN
                  /\ next' = [next EXCEPT ![left_side] = node, ![node] = head]
                  /\ previous' = [previous EXCEPT ![head] = node, ![node] = left_side]
                  /\ UNCHANGED head
             ELSE /\ head' = node
                  /\ UNCHANGED <<next, previous>>
    /\ size' = size + 1
    /\ Unlock(t)
    /\ UNCHANGED result

(***************************************************************************)
(* After __list_remove has freed the head, list_remove reads its next      *)
(* pointer all the same.  The allocator may have left it alone ("old"), or *)
(* written a null or an encoded link of its free list over it.             *)
(***************************************************************************)
Freed(n) == {CASE o = "old"  -> next[n]
               [] o = "null" -> NULL
               [] o = "wild" -> Wild : o \in FreedNext}

\* Mutant: __list_remove leaves right_side->previous as it is.
list_remove_one_way(t) ==
    /\ In(t, "remove")
    /\ head \in Nodes
    /\ LET curr == Stop(pc[t].element)
           found == Found(pc[t].element)
           left_side == previous[curr]
           right_side == next[curr]
       IN  /\ IF found
              THEN /\ next' = [next EXCEPT ![left_side] = right_side, ![curr] = curr]
                   /\ UNCHANGED previous
                   /\ data' = [data EXCEPT ![curr] = NULL]
              ELSE UNCHANGED <<next, previous, data>>
           /\ size' = size - 1
           /\ \/ size' = 0 /\ head' = NULL
              \/ size' # 0 /\ head # curr /\ UNCHANGED head
              \/ size' # 0 /\ head = curr /\ ~found /\ head' = next[head]
              \/ size' # 0 /\ head = curr /\ found /\ head' \in Freed(head)
    /\ Unlock(t)
    /\ UNCHANGED result

\* list_remove, with __list_remove and free when an equal element was found.
list_remove(t) ==
    /\ In(t, "remove")
    /\ head \in Nodes
    /\ LET curr == Stop(pc[t].element)
           found == Found(pc[t].element)
           left_side == previous[curr]
           right_side == next[curr]
       IN  /\ IF found
              THEN /\ next' = [next EXCEPT ![left_side] = right_side, ![curr] = curr]
                   /\ previous' = [previous EXCEPT ![right_side] = left_side, ![curr] = curr]
                   /\ data' = [data EXCEPT ![curr] = NULL]
              ELSE UNCHANGED <<next, previous, data>>
           /\ size' = size - 1
           /\ \/ size' = 0 /\ head' = NULL
              \/ size' # 0 /\ head # curr /\ UNCHANGED head
              \/ size' # 0 /\ head = curr /\ ~found /\ head' = next[head]
              \/ size' # 0 /\ head = curr /\ found /\ head' \in Freed(head)
    /\ Unlock(t)
    /\ UNCHANGED result

\* Mutant: an empty list is not searched, but loses an element all the same.
list_remove_null_counts(t) ==
    /\ In(t, "remove")
    /\ head = NULL
    /\ size' = size - 1
    /\ Unlock(t)
    /\ UNCHANGED <<head, next, previous, data, result>>

list_remove_null(t) ==
    /\ In(t, "remove")
    /\ head = NULL
    /\ Crash(t)

list_element_exists(t) ==
    /\ In(t, "exists")
    /\ head # Wild
    /\ result' = [result EXCEPT ![t] = Found(pc[t].element)]
    /\ Unlock(t)
    /\ UNCHANGED ring

\* Mutant: the mutex is kept when the element was found, too.
list_find_element_keeps_mutex(t) ==
    /\ In(t, "find")
    /\ head \in Nodes
    /\ result' = [result EXCEPT ![t] = Found(pc[t].element)]
    /\ pc' = [pc EXCEPT ![t] = Run]
    /\ UNCHANGED <<multithreaded, ring, mutex>>

\* Mutant: the loop does not stop at the head.
list_find_element_endless(t) ==
    /\ In(t, "find")
    /\ head \in Nodes
    /\ Found(pc[t].element)
    /\ result' = [result EXCEPT ![t] = TRUE]
    /\ Unlock(t)
    /\ UNCHANGED ring

list_find_element(t) ==
    /\ In(t, "find")
    /\ head \in Nodes
    /\ result' = [result EXCEPT ![t] = Found(pc[t].element)]
    /\ Unlock(t)
    /\ UNCHANGED ring

\* The early return for an empty list, which keeps the mutex.
list_find_element_empty(t) ==
    /\ In(t, "find")
    /\ head = NULL
    /\ result' = [result EXCEPT ![t] = FALSE]
    /\ pc' = [pc EXCEPT ![t] = Run]
    /\ UNCHANGED <<multithreaded, ring, mutex>>

\* Following a wild head, or list->head->previous when the head is null.
Dereference(t) ==
    /\ \/ head = Wild /\ \E op \in {"rpush", "remove", "exists", "find"} : In(t, op)
       \/ head = NULL /\ size # 0 /\ In(t, "rpush")
    /\ Crash(t)

Body(t) ==
    \/ list_rpush(t)          \/ list_remove(t)
    \/ list_remove_null(t)    \/ list_element_exists(t)
    \/ list_find_element(t)   \/ list_find_element_empty(t)
    \/ Dereference(t)

Next == \E t \in Threads :
    \/ \E op \in {"rpush", "remove", "exists", "find"}, x \in Elements : Call(t, op, x)
    \/ Lock(t)
    \/ Body(t)

Spec == Init /\ [][Next]_vars

\* A thread that has the mutex leaves it, and one that wants it gets it at last.
FairSpec == Spec /\ \A t \in Threads : SF_vars(Lock(t)) /\ WF_vars(Body(t))
-----------------------------------------------------------------------------
TypeOK ==
    /\ multithreaded \in BOOLEAN
    /\ head \in Nodes \cup {NULL, Wild}
    /\ size \in 0 .. Cardinality(Nodes)
    /\ next \in [Nodes -> Nodes]
    /\ previous \in [Nodes -> Nodes]
    /\ data \in [Nodes -> Elements \cup {NULL}]
    /\ mutex \in Threads \cup {NoThread}
    /\ pc \in [Threads -> Calls \cup {Run, Segv}]
    /\ result \in [Threads -> BOOLEAN \cup {NoResult}]

(***************************************************************************)
(* As long as list->head points to a node, the loop from it closes, every  *)
(* node on it is allocated and linked to its neighbours both ways, and     *)
(* list->size does not count more nodes than there are (it counts fewer    *)
(* once list_remove was called for an element that was not there).         *)
(***************************************************************************)
RingOK ==
    /\ size = 0 => head = NULL
    /\ head \in Nodes =>
        LET visited == {Visited[i] : i \in 1 .. Len(Visited)} IN
        /\ Cardinality(visited) = Len(Visited)
        /\ size \in 1 .. Len(Visited)
        /\ \A n \in visited :
              n \in Allocated /\ previous[next[n]] = n /\ next[previous[n]] = n

\* list_find_element kept the mutex: its holder is outside the list's functions.
Leaked == \E t \in Threads : mutex = t /\ \/ pc[t] = Run
                                          \/ pc[t] \in Calls /\ pc[t].at = "lock"

\* A leaked mutex finds the list empty, and it stays empty: nobody can enter.
LeakedMeansEmpty == Leaked => head = NULL

\* The elements in the order of the ring.
RingElements == [i \in 1 .. Len(Visited) |-> data[Visited[i]]]

(***************************************************************************)
(* The operators of ListOps, with which other modules model lists, are     *)
(* what the pointer manipulations do, also for a list that lost count or   *)
(* its head.                                                               *)
(***************************************************************************)
LO == INSTANCE ListOps

AbstractList == [ring |-> RingElements, size |-> size]

BodiesAreListOps ==
    [][\A t \in Threads :
        /\ In(t, "rpush") /\ ring' # ring =>
              /\ ~LO!RpushCrashes(AbstractList)
              /\ AbstractList' = LO!list_rpush(AbstractList, pc[t].element)
        /\ In(t, "remove") /\ ring' # ring =>
              /\ ~LO!RemoveCrashes(AbstractList)
              /\ \/ AbstractList' \in
                       LO!list_remove(AbstractList, pc[t].element, FreedNext)
                 \/ /\ head' = Wild
                    /\ LO!RemoveGoesWild(AbstractList, pc[t].element, FreedNext)
      ]_vars

(***************************************************************************)
(* Every step from a list whose size is its number of elements to another  *)
(* such list is a step of a sequence that threads use one at a time.  (The *)
(* size goes wrong when an absent element is removed, the head is lost     *)
(* when the freed one was overwritten before it is read: list_remove.)     *)
(***************************************************************************)
SL == INSTANCE SequenceList WITH
          elements <- RingElements

Exact == size = Len(RingElements)

ListIsSequence == SL!Init /\ [][Exact /\ Exact' => SL!Next]_SL!vars

(***************************************************************************)
(* A call returns, unless the mutex was leaked or the process died.        *)
(***************************************************************************)
CallsReturn ==
    \A t \in Threads : pc[t] # Run ~> pc[t] = Run \/ Leaked \/ ~Alive
=============================================================================
