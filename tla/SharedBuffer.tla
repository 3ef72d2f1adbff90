---------------------------- MODULE SharedBuffer ----------------------------
(***************************************************************************)
(* shared_client_buffer.c, at the grain of its critical sections.  The     *)
(* ring info_table[0 .. table_size - 1] is shared by the main thread of a  *)
(* client, which only pushes, and by its workers, which pop and may push.  *)
(*                                                                         *)
(* pop returns a POINTER into the ring after it has released the slot.  So *)
(* element[w] is an index, and what a worker sees through it is whatever   *)
(* info_table holds there when it looks.                                   *)
(***************************************************************************)
EXTENDS Naturals, FiniteSets

CONSTANTS
    main,       \* the main thread
    Workers,    \* the worker threads (option -w)
    Pushers,    \* the threads that call shared_buffer_push
    Files,      \* what tells records apart: (client, pathname) pairs
    Versions,   \* file versions; 0 is "I have no copy"
    table_size, \* option -b
    NoThread,   \* the mutex is free
    NoSlot,     \* a null client_file_info pointer
    NoInfo      \* bytes malloc returned and nobody wrote

Threads == Workers \cup {main}

client_file_info == [file : Files, version : Versions]

\* The code accepts table_size = 0 too and then divides by zero in the first
\* call: the README lists that under what is not modelled.
ASSUME BufferAssumption ==
    /\ main \notin Workers
    /\ IsFiniteSet(Workers)
    /\ Pushers \subseteq Threads
    /\ Versions \subseteq Nat
    /\ 0 \in Versions
    /\ table_size \in Nat \ {0}
    /\ NoThread \notin Threads
    /\ NoSlot \notin 0 .. table_size - 1
    /\ NoInfo \notin client_file_info

VARIABLES
    info_table, \* the ring
    left,       \* index of the oldest record
    right,      \* index of the next free slot
    mutex,      \* the thread that holds buffer->mutex, or NoThread
    pc,         \* where each thread is in push or pop
    info,       \* info[t]: the record thread t pushes
    element     \* element[w]: the slot worker w's last pop returned

vars == <<info_table, left, right, mutex, pc, info, element>>

(***************************************************************************)
(* A thread is in "run" outside this file.  It waits for the mutex in      *)
(* *_lock (a first lock, or the one pthread_cond_wait ends with), holds it *)
(* in *_test and *_finish, and sleeps on condition_full in push_wait and   *)
(* on condition_empty in pop_wait.                                         *)
(***************************************************************************)
PushPCs == {"push_lock", "push_test", "push_finish", "push_wait"}
PopPCs  == {"pop_lock", "pop_test", "pop_finish", "pop_wait"}
Critical == {"push_test", "push_finish", "pop_test", "pop_finish"}

\* Mutant: the index is not wrapped around.
next_index_unwrapped(i) == i + 1

next_index(i) == (i + 1) % table_size

shared_buffer_full  == next_index(right) = left
shared_buffer_empty == left = right

Init ==
    /\ info_table = [i \in 0 .. table_size - 1 |-> NoInfo]
    /\ left = 0
    /\ right = 0
    /\ mutex = NoThread
    /\ pc = [t \in Threads |-> "run"]
    /\ info = [t \in Threads |-> NoInfo]
    /\ element = [w \in Workers |-> NoSlot]

(***************************************************************************)
(* pthread_cond_signal by thread t, which then is at "run": one of the     *)
(* threads that sleep at `wait', if there is one, has to take the mutex    *)
(* again.                                                                  *)
(***************************************************************************)
Signal(t, wait, lock) ==
    LET sleepers == {s \in Threads : pc[s] = wait}
    IN  \/ /\ sleepers = {}
           /\ pc' = [pc EXCEPT ![t] = "run"]
        \/ \E s \in sleepers :
              pc' = [pc EXCEPT ![t] = "run", ![s] = lock]

\* pthread_cond_wait by thread t: it sleeps and the mutex is free, in one step.
Wait(t, wait) ==
    /\ pc' = [pc EXCEPT ![t] = wait]
    /\ mutex' = NoThread
    /\ UNCHANGED <<info_table, left, right, info, element>>

Acquire(t) ==
    /\ mutex = NoThread
    /\ \/ /\ pc[t] = "push_lock"
          /\ pc' = [pc EXCEPT ![t] = "push_test"]
       \/ /\ pc[t] = "pop_lock"
          /\ pc' = [pc EXCEPT ![t] = "pop_test"]
    /\ mutex' = t
    /\ UNCHANGED <<info_table, left, right, info, element>>

\* POSIX lets a sleeper wake up although nobody signalled.
SpuriousWakeup(t) ==
    /\ \/ /\ pc[t] = "push_wait"
          /\ pc' = [pc EXCEPT ![t] = "push_lock"]
       \/ /\ pc[t] = "pop_wait"
          /\ pc' = [pc EXCEPT ![t] = "pop_lock"]
    /\ UNCHANGED <<info_table, left, right, mutex, info, element>>

-----------------------------------------------------------------------------
(* shared_buffer_push *)

PushCall(t) ==
    /\ t \in Pushers
    /\ pc[t] = "run"
    /\ pc' = [pc EXCEPT ![t] = "push_lock"]
    /\ \E i \in client_file_info : info' = [info EXCEPT ![t] = i]
    /\ UNCHANGED <<info_table, left, right, mutex, element>>

PushWait(t) ==
    /\ pc[t] = "push_test"
    /\ shared_buffer_full
    /\ Wait(t, "push_wait")

\* Mutant: `if' instead of `while', the ring may be full again after the wait.
PushStore_without_test(t) ==
    /\ pc[t] = "push_test"
    /\ info_table' = [info_table EXCEPT ![right] = info[t]]
    /\ pc' = [pc EXCEPT ![t] = "push_finish"]
    /\ UNCHANGED <<left, right, mutex, info, element>>

PushStore(t) ==
    /\ pc[t] = "push_test"
    /\ ~shared_buffer_full
    /\ info_table' = [info_table EXCEPT ![right] = info[t]]
    /\ pc' = [pc EXCEPT ![t] = "push_finish"]
    /\ UNCHANGED <<left, right, mutex, info, element>>

\* Mutant: push signals the condition variable of the pushers.
PushFinish_signals_full(t) ==
    /\ pc[t] = "push_finish"
    /\ right' = next_index(right)
    /\ Signal(t, "push_wait", "push_lock")
    /\ mutex' = NoThread
    /\ UNCHANGED <<info_table, left, info, element>>

PushFinish(t) ==
    /\ pc[t] = "push_finish"
    /\ right' = next_index(right)
    /\ Signal(t, "pop_wait", "pop_lock")
    /\ mutex' = NoThread
    /\ UNCHANGED <<info_table, left, info, element>>

-----------------------------------------------------------------------------
(* shared_buffer_pop *)

\* The pointer a worker got from its last pop goes out of scope here.
PopCall(w) ==
    /\ pc[w] = "run"
    /\ pc' = [pc EXCEPT ![w] = "pop_lock"]
    /\ element' = [element EXCEPT ![w] = NoSlot]
    /\ UNCHANGED <<info_table, left, right, mutex, info>>

PopWait(w) ==
    /\ pc[w] = "pop_test"
    /\ shared_buffer_empty
    /\ Wait(w, "pop_wait")

PopTake(w) ==
    /\ pc[w] = "pop_test"
    /\ ~shared_buffer_empty
    /\ element' = [element EXCEPT ![w] = left]
    /\ pc' = [pc EXCEPT ![w] = "pop_finish"]
    /\ UNCHANGED <<info_table, left, right, mutex, info>>

\* Mutant: pop signals nobody.
PopFinish_without_signal(w) ==
    /\ pc[w] = "pop_finish"
    /\ left' = next_index(left)
    /\ pc' = [pc EXCEPT ![w] = "run"]
    /\ mutex' = NoThread
    /\ UNCHANGED <<info_table, right, info, element>>

PopFinish(w) ==
    /\ pc[w] = "pop_finish"
    /\ left' = next_index(left)
    /\ Signal(w, "push_wait", "push_lock")
    /\ mutex' = NoThread
    /\ UNCHANGED <<info_table, right, info, element>>

(***************************************************************************)
(* request_file_from_client, with the pointer pop returned: when there is  *)
(* no local copy the worker writes version 0 through it, without the mutex.*)
(***************************************************************************)
ResetVersion(w) ==
    /\ pc[w] = "run"
    /\ element[w] # NoSlot
    /\ info_table' = [info_table EXCEPT ![element[w]] = [file |-> @.file, version |-> 0]]
    /\ UNCHANGED <<left, right, mutex, pc, info, element>>

-----------------------------------------------------------------------------
Push(t) == PushWait(t) \/ PushStore(t) \/ PushFinish(t)
Pop(w)  == PopWait(w) \/ PopTake(w) \/ PopFinish(w)

Next ==
    \/ \E t \in Threads : \/ Acquire(t)
                          \/ SpuriousWakeup(t)
                          \/ PushCall(t)
                          \/ Push(t)
    \/ \E w \in Workers : PopCall(w) \/ Pop(w) \/ ResetVersion(w)

Spec == Init /\ [][Next]_vars

(***************************************************************************)
(* A scheduled thread leaves its critical section, a thread that wants the *)
(* mutex gets it at last although others come and go, and a worker returns *)
(* to shared_buffer_pop (worker_function is an endless loop).  No thread   *)
(* has to push, and nothing has to wake up spuriously.                     *)
(***************************************************************************)
Fairness ==
    /\ \A t \in Threads : SF_vars(Acquire(t)) /\ WF_vars(Push(t))
    /\ \A w \in Workers : WF_vars(Pop(w)) /\ WF_vars(PopCall(w))

FairSpec == Spec /\ Fairness
-----------------------------------------------------------------------------
TypeOK ==
    /\ info_table \in [0 .. table_size - 1 -> client_file_info \cup {NoInfo}]
    /\ left \in 0 .. table_size - 1
    /\ right \in 0 .. table_size - 1
    /\ mutex \in Threads \cup {NoThread}
    /\ pc \in [Threads -> {"run"} \cup PushPCs \cup PopPCs]
    /\ info \in [Threads -> client_file_info \cup {NoInfo}]
    /\ element \in [Workers -> (0 .. table_size - 1) \cup {NoSlot}]

\* How many records are queued, and how many more fit: one slot stays free.
Count == IF left <= right THEN right - left ELSE right + table_size - left
Room  == table_size - 1 - Count

(***************************************************************************)
(* No lost wakeup: whenever a worker sleeps on condition_empty, there are  *)
(* as many workers on their way to the queue as there are records in it;   *)
(* whenever a thread sleeps on condition_full, as many pushers are on      *)
(* their way as there are free places.  About the two pthread_cond_signal  *)
(* calls, one per operation, against several sleepers.                     *)
(***************************************************************************)
Popping == {t \in Threads : pc[t] \in {"pop_lock", "pop_test", "pop_finish"}}
Pushing == {t \in Threads : pc[t] \in {"push_lock", "push_test", "push_finish"}}

NoLostWakeup ==
    /\ (\E t \in Threads : pc[t] = "pop_wait")  => Count <= Cardinality(Popping)
    /\ (\E t \in Threads : pc[t] = "push_wait") => Room  <= Cardinality(Pushing)

(***************************************************************************)
(* When every thread sleeps, all of them sleep for the same reason: all    *)
(* are pushing into a full ring or all are popping from an empty one.      *)
(* (With table_size = 1 the ring is full and empty at once.)               *)
(***************************************************************************)
SameReasonToSleep ==
    (\A t \in Threads : pc[t] \in {"push_wait", "pop_wait"}) =>
        \/ shared_buffer_full /\ \A t \in Threads : pc[t] = "push_wait"
        \/ shared_buffer_empty /\ \A t \in Threads : pc[t] = "pop_wait"
        \/ table_size = 1

(***************************************************************************)
(* The abstract queue this ring implements when there is one worker: the   *)
(* k-th queued record, and what each worker sees through its pointer.      *)
(***************************************************************************)
Slot(k) == IF left + k < table_size THEN left + k ELSE left + k - table_size

Queue == [k \in 1 .. Count |-> info_table[Slot(k - 1)]]

Held == [w \in Workers |->
           IF element[w] = NoSlot \/ pc[w] = "pop_finish"
           THEN NoInfo
           ELSE info_table[element[w]]]

BQ == INSTANCE BoundedQueue WITH
          Infos <- client_file_info, Capacity <- table_size - 1,
          queue <- Queue, held <- Held

\* pop by pointer does what a pop by value would do: a record that was popped
\* does not change under the worker that reads it, and no write of that worker
\* reaches a record that is queued.
PopByPointerIsPopByValue == BQ!Spec

(***************************************************************************)
(* The only deadlock: every worker pushes into a full ring, which nobody   *)
(* but the workers empties.                                                *)
(***************************************************************************)
WorkersAllPush ==
    shared_buffer_full /\ \A w \in Workers : pc[w] \in {"push_lock", "push_test", "push_wait"}

\* Somebody who wants to push gets to do so, unless all workers are pushing.  (With
\* one pushing thread its pushes return; several may overtake each other for ever.)
PushesGoOn ==
    (\E t \in Pushers : pc[t] = "push_lock")
        ~> WorkersAllPush \/ \E t \in Pushers : pc[t] = "push_finish"

\* A worker is never left asleep next to a record: it gets one, or another does,
\* unless all workers are pushing.
RecordsAreTaken ==
    Count > 0 ~> WorkersAllPush \/ \E w \in Workers : pc[w] = "pop_finish"
=============================================================================
