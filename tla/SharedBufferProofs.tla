------------------------- MODULE SharedBufferProofs -------------------------
(***************************************************************************)
(* What TLAPS proves of SharedBuffer, for every number of workers, ring    *)
(* size and set of records.                                                *)
(***************************************************************************)
EXTENDS SharedBuffer, SequenceTheorems, FiniteSetTheorems, TLAPS

(***************************************************************************)
(* The index arithmetic of the ring, once: the rest of the proofs uses the *)
(* remainder only through this lemma.                                      *)
(***************************************************************************)
LEMMA NextIndexValue ==
    ASSUME NEW i \in 0 .. table_size - 1
    PROVE  /\ next_index(i) \in 0 .. table_size - 1
           /\ next_index(i) = IF i + 1 = table_size THEN 0 ELSE i + 1
<1>0. table_size \in Nat /\ table_size > 0 /\ i \in Nat /\ i + 1 <= table_size
  BY BufferAssumption
<1>1. CASE i + 1 = table_size
  <2>1. table_size % table_size = 0
    BY <1>0
  <2>. QED BY <1>0, <1>1, <2>1 DEF next_index
<1>2. CASE i + 1 < table_size
  <2>1. (i + 1) % table_size = i + 1
    BY <1>0, <1>2
  <2>. QED BY <1>0, <1>2, <2>1 DEF next_index
<1>. QED BY <1>0, <1>1, <1>2

\* The program counters after a signal: t is at "run", and at most sleepers moved.
LEMMA SignalPC ==
    ASSUME TypeOK, NEW t \in Threads,
           NEW wait \in PushPCs \cup PopPCs, NEW lock \in PushPCs \cup PopPCs,
           Signal(t, wait, lock), pc[t] # wait
    PROVE  /\ pc' \in [Threads -> {"run"} \cup PushPCs \cup PopPCs]
           /\ pc'[t] = "run"
           /\ \A s \in Threads \ {t} :
                 pc'[s] = pc[s] \/ (pc[s] = wait /\ pc'[s] = lock)
<1>1. CASE pc' = [pc EXCEPT ![t] = "run"]
  BY <1>1 DEF TypeOK
<1>2. CASE \E s \in {u \in Threads : pc[u] = wait} :
              pc' = [pc EXCEPT ![t] = "run", ![s] = lock]
  BY <1>2 DEF TypeOK
<1>. QED BY <1>1, <1>2 DEF Signal

(***************************************************************************)
(* Mutual exclusion, with what a thread knows while it is inside: only the *)
(* holder of the mutex is between the lock and the unlock, a pusher that   *)
(* has stored its record still has room for it, and the slot a popper has  *)
(* chosen still is the oldest one.                                         *)
(***************************************************************************)
Locking ==
    /\ \A t \in Threads : pc[t] \in Critical <=> mutex = t
    /\ \A t \in Threads : pc[t] \in PushPCs => info[t] \in client_file_info
    /\ \A t \in Threads : pc[t] = "push_finish" => ~shared_buffer_full
    /\ \A t \in Threads : pc[t] \in PopPCs => t \in Workers
    /\ \A w \in Workers : pc[w] = "pop_finish" =>
          /\ ~shared_buffer_empty
          /\ element[w] = left

\* The slots that are queued, about to be queued, or popped hold records.
Written ==
    /\ \A k \in 0 .. table_size - 1 : k < Count => info_table[Slot(k)] \in client_file_info
    /\ \A t \in Threads : pc[t] = "push_finish" => info_table[right] \in client_file_info
    /\ \A w \in Workers : element[w] # NoSlot =>
          info_table[element[w]] \in client_file_info

Inductive == TypeOK /\ Locking /\ Written

LEMMA InitInductive == Init => Inductive
<1> SUFFICES ASSUME Init PROVE Inductive
  OBVIOUS
<1> USE BufferAssumption DEF Init
<1>1. TypeOK
  BY DEF TypeOK, PushPCs, PopPCs
<1>2. Locking
  BY DEF Locking, Critical, PushPCs, PopPCs, Threads
<1>3. Written
  BY DEF Written, Count
<1>. QED BY <1>1, <1>2, <1>3 DEF Inductive

LEMMA TypeStep == TypeOK /\ Locking /\ Written /\ [Next]_vars => TypeOK'
<1> SUFFICES ASSUME TypeOK, Locking, Written, [Next]_vars PROVE TypeOK'
  OBVIOUS
<1> USE BufferAssumption DEF TypeOK, PushPCs, PopPCs, Threads
<1>1. ASSUME NEW t \in Threads, Acquire(t) PROVE TypeOK'
  BY <1>1 DEF Acquire
<1>2. ASSUME NEW t \in Threads, SpuriousWakeup(t) PROVE TypeOK'
  BY <1>2 DEF SpuriousWakeup
<1>3. ASSUME NEW t \in Threads, PushCall(t) PROVE TypeOK'
  BY <1>3 DEF PushCall
<1>4. ASSUME NEW t \in Threads, PushWait(t) PROVE TypeOK'
  BY <1>4 DEF PushWait, Wait
<1>5. ASSUME NEW t \in Threads, PushStore(t) PROVE TypeOK'
  BY <1>5 DEF PushStore, Locking
<1>6. ASSUME NEW t \in Threads, PushFinish(t) PROVE TypeOK'
  <2>1. pc' \in [Threads -> {"run"} \cup PushPCs \cup PopPCs]
    BY <1>6, SignalPC DEF PushFinish
  <2>. QED BY <1>6, <2>1, NextIndexValue DEF PushFinish
<1>7. ASSUME NEW w \in Workers, PopCall(w) PROVE TypeOK'
  BY <1>7 DEF PopCall
<1>8. ASSUME NEW w \in Workers, PopWait(w) PROVE TypeOK'
  BY <1>8 DEF PopWait, Wait
<1>9. ASSUME NEW w \in Workers, PopTake(w) PROVE TypeOK'
  BY <1>9 DEF PopTake
<1>10. ASSUME NEW w \in Workers, PopFinish(w) PROVE TypeOK'
  <2>1. pc' \in [Threads -> {"run"} \cup PushPCs \cup PopPCs]
    BY <1>10, SignalPC DEF PopFinish
  <2>. QED BY <1>10, <2>1, NextIndexValue DEF PopFinish
<1>11. ASSUME NEW w \in Workers, ResetVersion(w) PROVE TypeOK'
  <2>1. [file |-> info_table[element[w]].file, version |-> 0] \in client_file_info
    BY <1>11 DEF ResetVersion, Written, client_file_info
  <2>. QED BY <1>11, <2>1 DEF ResetVersion
<1>12. CASE UNCHANGED vars
  BY <1>12 DEF vars
<1>. QED
  BY <1>1, <1>2, <1>3, <1>4, <1>5, <1>6, <1>7, <1>8, <1>9, <1>10, <1>11, <1>12
     DEF Next, Push, Pop

LEMMA LockingStep == TypeOK /\ Locking /\ Written /\ [Next]_vars => Locking'
<1> SUFFICES ASSUME TypeOK, Locking, Written, [Next]_vars PROVE Locking'
  OBVIOUS
<1> USE BufferAssumption DEF TypeOK, PushPCs, PopPCs, Critical, Locking, Threads
<1>1. ASSUME NEW t \in Threads, Acquire(t) PROVE Locking'
  BY <1>1 DEF Acquire, shared_buffer_full, shared_buffer_empty
<1>2. ASSUME NEW t \in Threads, SpuriousWakeup(t) PROVE Locking'
  BY <1>2 DEF SpuriousWakeup, shared_buffer_full, shared_buffer_empty
<1>3. ASSUME NEW t \in Threads, PushCall(t) PROVE Locking'
  BY <1>3 DEF PushCall, shared_buffer_full, shared_buffer_empty
<1>4. ASSUME NEW t \in Threads, PushWait(t) PROVE Locking'
  BY <1>4 DEF PushWait, Wait
<1>5. ASSUME NEW t \in Threads, PushStore(t) PROVE Locking'
  BY <1>5 DEF PushStore, shared_buffer_full, shared_buffer_empty
<1>6. ASSUME NEW t \in Threads, PushFinish(t) PROVE Locking'
  BY <1>6, SignalPC DEF PushFinish
<1>7. ASSUME NEW w \in Workers, PopCall(w) PROVE Locking'
  BY <1>7 DEF PopCall, shared_buffer_full, shared_buffer_empty
<1>8. ASSUME NEW w \in Workers, PopWait(w) PROVE Locking'
  BY <1>8 DEF PopWait, Wait
<1>9. ASSUME NEW w \in Workers, PopTake(w) PROVE Locking'
  BY <1>9 DEF PopTake, shared_buffer_full, shared_buffer_empty
<1>10. ASSUME NEW w \in Workers, PopFinish(w) PROVE Locking'
  BY <1>10, SignalPC DEF PopFinish
<1>11. ASSUME NEW w \in Workers, ResetVersion(w) PROVE Locking'
  BY <1>11 DEF ResetVersion, shared_buffer_full, shared_buffer_empty
<1>12. CASE UNCHANGED vars
  BY <1>12 DEF vars, shared_buffer_full, shared_buffer_empty
<1>. QED
  BY <1>1, <1>2, <1>3, <1>4, <1>5, <1>6, <1>7, <1>8, <1>9, <1>10, <1>11, <1>12
     DEF Next, Push, Pop

\* What the two index updates do to the queue.
LEMMA PushCount ==
    ASSUME TypeOK, ~shared_buffer_full, right' = next_index(right), left' = left
    PROVE  /\ Count' = Count + 1
           /\ Slot(Count) = right
           /\ \A k \in Nat : Slot(k)' = Slot(k)
<1>1. /\ left \in 0 .. table_size - 1
      /\ right \in 0 .. table_size - 1
      /\ table_size \in Nat \ {0}
      /\ right' = IF right + 1 = table_size THEN 0 ELSE right + 1
      /\ right' # left
  BY NextIndexValue, BufferAssumption DEF TypeOK, shared_buffer_full
<1>2. Count' = Count + 1
  BY <1>1 DEF Count
<1>3. Slot(Count) = right
  BY <1>1 DEF Count, Slot
<1>4. \A k \in Nat : Slot(k)' = Slot(k)
  BY DEF Slot
<1>. QED BY <1>2, <1>3, <1>4

LEMMA PopCount ==
    ASSUME TypeOK, ~shared_buffer_empty, left' = next_index(left), right' = right
    PROVE  /\ Count' = Count - 1
           /\ Slot(0) = left
           /\ \A k \in 0 .. table_size - 1 : k < Count' => Slot(k)' = Slot(k + 1)
<1>1. /\ left \in 0 .. table_size - 1
      /\ right \in 0 .. table_size - 1
      /\ table_size \in Nat \ {0}
      /\ left' = IF left + 1 = table_size THEN 0 ELSE left + 1
      /\ left # right
  BY NextIndexValue, BufferAssumption DEF TypeOK, shared_buffer_empty
<1>2. Count' = Count - 1
  BY <1>1 DEF Count
<1>3. Slot(0) = left
  BY <1>1 DEF Slot
<1>4. ASSUME NEW k \in 0 .. table_size - 1, k < Count'
      PROVE  Slot(k)' = Slot(k + 1)
  BY <1>1, <1>4 DEF Slot, Count
<1>. QED BY <1>2, <1>3, <1>4

\* The queued slots are distinct slots of the ring, and there are not too many.
LEMMA CountBounds ==
    ASSUME TypeOK
    PROVE  /\ Count \in 0 .. table_size - 1
           /\ Room \in 0 .. table_size - 1
           /\ shared_buffer_empty <=> Count = 0
           /\ shared_buffer_full <=> Room = 0
           /\ \A k \in 0 .. table_size - 1 : Slot(k) \in 0 .. table_size - 1
           /\ \A k \in 0 .. table_size - 1 : Slot(k) = right => k = Count
<1>1. /\ left \in 0 .. table_size - 1
      /\ right \in 0 .. table_size - 1
      /\ table_size \in Nat \ {0}
      /\ next_index(right) = IF right + 1 = table_size THEN 0 ELSE right + 1
  BY NextIndexValue, BufferAssumption DEF TypeOK
<1>2. Count \in 0 .. table_size - 1 /\ Room \in 0 .. table_size - 1
  BY <1>1 DEF Count, Room
<1>3. shared_buffer_empty <=> Count = 0
  BY <1>1 DEF Count, shared_buffer_empty
<1>4. shared_buffer_full <=> Room = 0
  BY <1>1 DEF Count, Room, shared_buffer_full
<1>5. ASSUME NEW k \in 0 .. table_size - 1
      PROVE  /\ Slot(k) \in 0 .. table_size - 1
             /\ Slot(k) = right => k = Count
  BY <1>1 DEF Slot, Count
<1>. QED BY <1>2, <1>3, <1>4, <1>5

LEMMA WrittenStep == TypeOK /\ Locking /\ Written /\ [Next]_vars => Written'
<1> SUFFICES ASSUME TypeOK, Locking, Written, [Next]_vars PROVE Written'
  OBVIOUS
<1> USE BufferAssumption
<1> DEFINE Ring == 0 .. table_size - 1
<1>0. ASSUME UNCHANGED <<info_table, left, right, element>>,
             \A t \in Threads : pc'[t] = "push_finish" => pc[t] = "push_finish"
      PROVE  Written'
  BY <1>0 DEF Written, Count, Slot
<1>1. ASSUME NEW t \in Threads, Acquire(t) PROVE Written'
  BY <1>0, <1>1 DEF Acquire, TypeOK
<1>2. ASSUME NEW t \in Threads, SpuriousWakeup(t) PROVE Written'
  BY <1>0, <1>2 DEF SpuriousWakeup, TypeOK
<1>3. ASSUME NEW t \in Threads, PushCall(t) PROVE Written'
  BY <1>0, <1>3 DEF PushCall, TypeOK
<1>4. ASSUME NEW t \in Threads, PushWait(t) PROVE Written'
  BY <1>0, <1>4 DEF PushWait, Wait, TypeOK
<1>5. ASSUME NEW t \in Threads, PushStore(t) PROVE Written'
  <2>1. /\ info[t] \in client_file_info
        /\ info_table' = [info_table EXCEPT ![right] = info[t]]
        /\ UNCHANGED <<left, right, element>>
    BY <1>5 DEF PushStore, Locking, PushPCs
  <2>2. \A i \in Ring : info_table[i] \in client_file_info => info_table'[i] \in client_file_info
    BY <2>1 DEF TypeOK
  <2>3. info_table'[right] \in client_file_info
    BY <2>1 DEF TypeOK
  <2>4. /\ Count' = Count
        /\ \A k \in Ring : Slot(k)' = Slot(k)
    BY <2>1 DEF Count, Slot
  <2>5. \A k \in Ring : k < Count' => info_table'[Slot(k)'] \in client_file_info
    BY <2>2, <2>4, CountBounds DEF Written
  <2>6. \A w \in Workers : element'[w] # NoSlot => info_table'[element'[w]] \in client_file_info
    BY <2>1, <2>2 DEF Written, TypeOK
  <2>. QED BY <2>1, <2>3, <2>5, <2>6 DEF Written
<1>6. ASSUME NEW t \in Threads, PushFinish(t) PROVE Written'
  <2>1. /\ ~shared_buffer_full
        /\ right' = next_index(right)
        /\ UNCHANGED <<info_table, left, element>>
        /\ info_table[right] \in client_file_info
    BY <1>6 DEF PushFinish, Locking, Written
  <2>2. /\ Count' = Count + 1
        /\ Slot(Count) = right
        /\ \A k \in Nat : Slot(k)' = Slot(k)
    BY <2>1, PushCount
  <2>3. \A k \in Ring : k < Count' => info_table'[Slot(k)'] \in client_file_info
    <3>1. ASSUME NEW k \in Ring, k < Count'
          PROVE  info_table[Slot(k)] \in client_file_info
      BY <2>1, <2>2, <3>1, CountBounds DEF Written
    <3>. QED BY <2>1, <2>2, <3>1
  <2>4. \A s \in Threads : pc'[s] # "push_finish"
    BY <1>6, SignalPC DEF PushFinish, Locking, Critical, TypeOK, PushPCs, PopPCs
  <2>. QED BY <2>1, <2>3, <2>4 DEF Written
<1>7. ASSUME NEW w \in Workers, PopCall(w) PROVE Written'
  BY <1>7 DEF PopCall, Written, Count, Slot, TypeOK, Threads
<1>8. ASSUME NEW w \in Workers, PopWait(w) PROVE Written'
  BY <1>0, <1>8 DEF PopWait, Wait, TypeOK
<1>9. ASSUME NEW w \in Workers, PopTake(w) PROVE Written'
  <2>1. /\ ~shared_buffer_empty
        /\ element' = [element EXCEPT ![w] = left]
        /\ UNCHANGED <<info_table, left, right>>
        /\ \A t \in Threads : pc'[t] = "push_finish" => pc[t] = "push_finish"
    BY <1>9 DEF PopTake, TypeOK
  <2>2. left \in Ring /\ left # NoSlot /\ Slot(0) = left /\ 0 < Count
    BY <2>1, CountBounds DEF TypeOK, Slot
  <2>3. info_table[left] \in client_file_info
    BY <2>2 DEF Written
  <2>. QED BY <2>1, <2>3 DEF Written, Count, Slot, TypeOK
<1>10. ASSUME NEW w \in Workers, PopFinish(w) PROVE Written'
  <2>1. /\ ~shared_buffer_empty
        /\ left' = next_index(left)
        /\ UNCHANGED <<info_table, right, element>>
    BY <1>10 DEF PopFinish, Locking
  <2>2. /\ Count' = Count - 1
        /\ \A k \in Ring : k < Count' => Slot(k)' = Slot(k + 1)
    BY <2>1, PopCount
  <2>3. \A k \in Ring : k < Count' => info_table'[Slot(k)'] \in client_file_info
    <3>1. ASSUME NEW k \in Ring, k < Count'
          PROVE  info_table[Slot(k + 1)] \in client_file_info
      BY <2>2, <3>1, CountBounds DEF Written
    <3>. QED BY <2>1, <2>2, <3>1
  <2>4. \A t \in Threads : pc'[t] = "push_finish" => pc[t] = "push_finish"
    BY <1>10, SignalPC DEF PopFinish, TypeOK, PushPCs, PopPCs, Threads
  <2>. QED BY <2>1, <2>3, <2>4 DEF Written
<1>11. ASSUME NEW w \in Workers, ResetVersion(w) PROVE Written'
  <2>1. [file |-> info_table[element[w]].file, version |-> 0] \in client_file_info
    BY <1>11 DEF ResetVersion, Written, client_file_info
  <2>2. \A i \in Ring : info_table[i] \in client_file_info => info_table'[i] \in client_file_info
    BY <1>11, <2>1 DEF ResetVersion, TypeOK
  <2>3. /\ Count' = Count
        /\ \A k \in Ring : Slot(k)' = Slot(k)
    BY <1>11 DEF ResetVersion, Count, Slot
  <2>4. \A k \in Ring : k < Count' => info_table'[Slot(k)'] \in client_file_info
    BY <2>2, <2>3, CountBounds DEF Written
  <2>5. \A v \in Workers : element'[v] # NoSlot => info_table'[element'[v]] \in client_file_info
    BY <1>11, <2>2 DEF ResetVersion, Written, TypeOK
  <2>6. \A t \in Threads : pc'[t] = "push_finish" => info_table'[right'] \in client_file_info
    BY <1>11, <2>2 DEF ResetVersion, Written, TypeOK
  <2>. QED BY <2>4, <2>5, <2>6 DEF Written
<1>12. CASE UNCHANGED vars
  BY <1>0, <1>12 DEF vars
<1>. QED
  BY <1>1, <1>2, <1>3, <1>4, <1>5, <1>6, <1>7, <1>8, <1>9, <1>10, <1>11, <1>12
     DEF Next, Push, Pop

(***************************************************************************)
(* Every value the buffer ever holds has its type, whatever the number of  *)
(* workers and the size of the ring: both indices stay in the ring.        *)
(***************************************************************************)
THEOREM TypeCorrect == Spec => []TypeOK
<1>1. Inductive /\ [Next]_vars => Inductive'
  BY TypeStep, LockingStep, WrittenStep DEF Inductive
<1>2. Inductive => TypeOK
  BY DEF Inductive
<1>. QED BY InitInductive, <1>1, <1>2, PTL DEF Spec

-----------------------------------------------------------------------------
(***************************************************************************)
(* One worker.  Its pointer names the slot just before left: the one slot  *)
(* that a full ring leaves free, which no push can reach before the worker *)
(* pops again.                                                             *)
(***************************************************************************)
SingleWorker == \A v, w \in Workers : v = w

Pointers ==
    /\ \A w \in Workers : element[w] # NoSlot /\ pc[w] # "pop_finish" =>
          next_index(element[w]) = left
    /\ \A w \in Workers : pc[w] \in {"pop_lock", "pop_test", "pop_wait"} =>
          element[w] = NoSlot

LEMMA PointersStep ==
    ASSUME SingleWorker, Inductive, Pointers, [Next]_vars
    PROVE  Pointers'
<1> USE BufferAssumption DEF Inductive, TypeOK, PushPCs, PopPCs, Threads, Pointers
<1>1. ASSUME NEW t \in Threads, Acquire(t) PROVE Pointers'
  BY <1>1 DEF Acquire
<1>2. ASSUME NEW t \in Threads, SpuriousWakeup(t) PROVE Pointers'
  BY <1>2 DEF SpuriousWakeup
<1>3. ASSUME NEW t \in Threads, PushCall(t) PROVE Pointers'
  BY <1>3 DEF PushCall
<1>4. ASSUME NEW t \in Threads, PushWait(t) PROVE Pointers'
  BY <1>4 DEF PushWait, Wait
<1>5. ASSUME NEW t \in Threads, PushStore(t) PROVE Pointers'
  BY <1>5 DEF PushStore
<1>6. ASSUME NEW t \in Threads, PushFinish(t) PROVE Pointers'
  BY <1>6, SignalPC DEF PushFinish
<1>7. ASSUME NEW w \in Workers, PopCall(w) PROVE Pointers'
  BY <1>7 DEF PopCall
<1>8. ASSUME NEW w \in Workers, PopWait(w) PROVE Pointers'
  BY <1>8 DEF PopWait, Wait
<1>9. ASSUME NEW w \in Workers, PopTake(w) PROVE Pointers'
  BY <1>9 DEF PopTake
<1>10. ASSUME NEW w \in Workers, PopFinish(w) PROVE Pointers'
  <2>1. /\ element[w] = left
        /\ left' = next_index(left)
        /\ element' = element
        /\ pc'[w] = "run"
    BY <1>10, SignalPC DEF PopFinish, Locking
  <2>. QED BY <2>1 DEF SingleWorker
<1>11. ASSUME NEW w \in Workers, ResetVersion(w) PROVE Pointers'
  BY <1>11 DEF ResetVersion
<1>12. CASE UNCHANGED vars
  BY <1>12 DEF vars
<1>. QED
  BY <1>1, <1>2, <1>3, <1>4, <1>5, <1>6, <1>7, <1>8, <1>9, <1>10, <1>11, <1>12
     DEF Next, Push, Pop

\* The pointed-to slot is not queued, and it is not the one a push writes.
LEMMA PointedSlotIsFree ==
    ASSUME Inductive, Pointers, NEW w \in Workers,
           element[w] # NoSlot, pc[w] # "pop_finish"
    PROVE  /\ element[w] \in 0 .. table_size - 1
           /\ \A k \in 0 .. table_size - 1 : k < Count => Slot(k) # element[w]
           /\ ~shared_buffer_full => right # element[w]
<1>1. /\ element[w] \in 0 .. table_size - 1
      /\ left = IF element[w] + 1 = table_size THEN 0 ELSE element[w] + 1
      /\ left \in 0 .. table_size - 1
      /\ right \in 0 .. table_size - 1
      /\ table_size \in Nat \ {0}
  BY NextIndexValue, BufferAssumption DEF Inductive, TypeOK, Pointers
<1>2. ASSUME NEW k \in 0 .. table_size - 1, k < Count
      PROVE  Slot(k) # element[w]
  BY <1>1, <1>2 DEF Slot, Count
<1>3. ~shared_buffer_full => right # element[w]
  BY DEF Pointers, shared_buffer_full
<1>. QED BY <1>1, <1>2, <1>3

\* The refinement mapping as a sequence.
LEMMA QueueSequence ==
    ASSUME Inductive
    PROVE  /\ Queue \in Seq(client_file_info)
           /\ Len(Queue) = Count
           /\ \A k \in 1 .. Count : Queue[k] = info_table[Slot(k - 1)]
<1>1. Count \in Nat /\ Count <= table_size - 1
  BY CountBounds, BufferAssumption DEF Inductive
<1>2. \A k \in 1 .. Count : info_table[Slot(k - 1)] \in client_file_info
  BY <1>1, BufferAssumption DEF Inductive, Written
<1>. QED BY <1>1, <1>2 DEF Queue

LEMMA TailAsFunction ==
    ASSUME NEW S, NEW q \in Seq(S), q # <<>>
    PROVE  Tail(q) = [k \in 1 .. Len(q) - 1 |-> q[k + 1]]
<1>1. /\ Tail(q) \in Seq(S)
      /\ Len(Tail(q)) = Len(q) - 1
      /\ \A k \in 1 .. Len(Tail(q)) : Tail(q)[k] = q[k + 1]
  BY HeadTailProperties
<1>2. Tail(q) \in [1 .. Len(q) - 1 -> S]
  BY <1>1, LenProperties
<1>3. Tail(q) = [k \in 1 .. Len(q) - 1 |-> Tail(q)[k]]
  BY <1>2
<1>. QED BY <1>1, <1>3

\* Steps that change neither the queued records nor what workers see.
LEMMA InvisibleStep ==
    ASSUME Inductive,
           left' = left, right' = right,
           \A k \in 0 .. table_size - 1 : k < Count =>
              info_table'[Slot(k)] = info_table[Slot(k)],
           \A w \in Workers : Held'[w] = Held[w]
    PROVE  Queue' = Queue /\ Held' = Held
<1>1. Count' = Count /\ \A k \in Nat : Slot(k)' = Slot(k)
  BY DEF Count, Slot
<1>2. Count \in 0 .. table_size - 1
  BY CountBounds DEF Inductive
<1>3. \A k \in 1 .. Count : info_table'[Slot(k - 1)] = info_table[Slot(k - 1)]
  BY <1>2, BufferAssumption
<1>4. Queue' = Queue
  BY <1>1, <1>2, <1>3 DEF Queue
<1>5. Held' = Held
  BY DEF Held
<1>. QED BY <1>4, <1>5

\* A step that only moves program counters, not into or out of pop_finish.
LEMMA ControlStep ==
    ASSUME Inductive, UNCHANGED <<info_table, left, right, element>>,
           \A w \in Workers : pc'[w] = "pop_finish" <=> pc[w] = "pop_finish"
    PROVE  Queue' = Queue /\ Held' = Held
<1>1. \A w \in Workers : Held'[w] = Held[w]
  BY DEF Held
<1>. QED BY <1>1, InvisibleStep

LEMMA RefinementStep ==
    ASSUME SingleWorker, Inductive, Inductive', Pointers, [Next]_vars
    PROVE  [BQ!Next]_(BQ!vars)
<1> USE DEF BQ!vars
<1>1. ASSUME NEW t \in Threads, Acquire(t) PROVE Queue' = Queue /\ Held' = Held
  <2>1. \A w \in Workers : pc'[w] = "pop_finish" <=> pc[w] = "pop_finish"
    BY <1>1 DEF Acquire, Inductive, TypeOK, Threads
  <2>. QED BY <1>1, <2>1, ControlStep DEF Acquire
<1>2. ASSUME NEW t \in Threads, SpuriousWakeup(t) PROVE Queue' = Queue /\ Held' = Held
  <2>1. \A w \in Workers : pc'[w] = "pop_finish" <=> pc[w] = "pop_finish"
    BY <1>2 DEF SpuriousWakeup, Inductive, TypeOK, Threads
  <2>. QED BY <1>2, <2>1, ControlStep DEF SpuriousWakeup
<1>3. ASSUME NEW t \in Threads, PushCall(t) PROVE Queue' = Queue /\ Held' = Held
  <2>1. \A w \in Workers : pc'[w] = "pop_finish" <=> pc[w] = "pop_finish"
    BY <1>3 DEF PushCall, Inductive, TypeOK, Threads
  <2>. QED BY <1>3, <2>1, ControlStep DEF PushCall
<1>4. ASSUME NEW t \in Threads, PushWait(t) PROVE Queue' = Queue /\ Held' = Held
  <2>1. \A w \in Workers : pc'[w] = "pop_finish" <=> pc[w] = "pop_finish"
    BY <1>4 DEF PushWait, Wait, Inductive, TypeOK, Threads
  <2>. QED BY <1>4, <2>1, ControlStep DEF PushWait, Wait
<1>5. ASSUME NEW t \in Threads, PushStore(t) PROVE Queue' = Queue /\ Held' = Held
  <2>1. /\ ~shared_buffer_full
        /\ info_table' = [info_table EXCEPT ![right] = info[t]]
        /\ UNCHANGED <<left, right, element>>
    BY <1>5 DEF PushStore
  <2>2. \A k \in 0 .. table_size - 1 : k < Count =>
           info_table'[Slot(k)] = info_table[Slot(k)]
    BY <2>1, CountBounds, BufferAssumption DEF Inductive, TypeOK
  <2>3. ASSUME NEW w \in Workers PROVE Held'[w] = Held[w]
    <3>1. pc'[w] = "pop_finish" <=> pc[w] = "pop_finish"
      BY <1>5 DEF PushStore, Inductive, TypeOK, Threads
    <3>2. element[w] # NoSlot /\ pc[w] # "pop_finish" =>
             info_table'[element[w]] = info_table[element[w]]
      BY <2>1, PointedSlotIsFree DEF Inductive, TypeOK
    <3>. QED BY <2>1, <3>1, <3>2 DEF Held
  <2>. QED BY <2>1, <2>2, <2>3, InvisibleStep
<1>6. ASSUME NEW t \in Threads, PushFinish(t) PROVE BQ!Put
  <2>1. /\ ~shared_buffer_full
        /\ right' = next_index(right)
        /\ UNCHANGED <<info_table, left, element>>
        /\ info_table[right] \in client_file_info
    BY <1>6 DEF PushFinish, Inductive, Locking, Written
  <2>2. /\ Count' = Count + 1
        /\ Slot(Count) = right
        /\ \A k \in Nat : Slot(k)' = Slot(k)
    BY <2>1, PushCount DEF Inductive
  <2>3. /\ Count \in Nat
        /\ Count < table_size - 1
    BY <2>1, CountBounds, BufferAssumption DEF Inductive, Room
  <2>4. Queue' = [k \in 1 .. Count + 1 |-> info_table[Slot(k - 1)]]
    BY <2>1, <2>2, <2>3 DEF Queue
  <2>5. Append(Queue, info_table[right]) = [k \in 1 .. Count + 1 |-> info_table[Slot(k - 1)]]
    BY <2>1, <2>2, <2>3, QueueSequence
  <2>6. Held' = Held
    <3>1. ASSUME NEW w \in Workers PROVE pc'[w] = "pop_finish" <=> pc[w] = "pop_finish"
      BY <1>6, SignalPC DEF PushFinish, Inductive, TypeOK, Threads, PushPCs, PopPCs
    <3>. QED BY <2>1, <3>1 DEF Held
  <2>. QED BY <2>1, <2>3, <2>4, <2>5, <2>6, QueueSequence DEF BQ!Put
<1>7. ASSUME NEW w \in Workers, PopCall(w) PROVE BQ!Drop(w)
  <2>1. Queue' = Queue
    BY <1>7 DEF PopCall, Queue, Count, Slot
  <2>2. Held' = [Held EXCEPT ![w] = NoInfo]
    BY <1>7 DEF PopCall, Held, Inductive, TypeOK, SingleWorker, Threads
  <2>. QED BY <2>1, <2>2 DEF BQ!Drop
<1>8. ASSUME NEW w \in Workers, PopWait(w) PROVE Queue' = Queue /\ Held' = Held
  <2>1. \A v \in Workers : pc'[v] = "pop_finish" <=> pc[v] = "pop_finish"
    BY <1>8 DEF PopWait, Wait, Inductive, TypeOK, Threads
  <2>. QED BY <1>8, <2>1, ControlStep DEF PopWait, Wait
<1>9. ASSUME NEW w \in Workers, PopTake(w) PROVE Queue' = Queue /\ Held' = Held
  <2>1. ASSUME NEW v \in Workers PROVE Held'[v] = Held[v]
    BY <1>9 DEF PopTake, Held, Inductive, TypeOK, Threads, Pointers, SingleWorker
  <2>. QED BY <1>9, <2>1, InvisibleStep DEF PopTake
<1>10. ASSUME NEW w \in Workers, PopFinish(w) PROVE BQ!Take(w)
  <2>1. /\ ~shared_buffer_empty
        /\ left' = next_index(left)
        /\ UNCHANGED <<info_table, right, element>>
        /\ element[w] = left
    BY <1>10 DEF PopFinish, Inductive, Locking
  <2>2. /\ Count' = Count - 1
        /\ Slot(0) = left
        /\ \A k \in 0 .. table_size - 1 : k < Count' => Slot(k)' = Slot(k + 1)
    BY <2>1, PopCount DEF Inductive
  <2>3. Count \in 0 .. table_size - 1 /\ Count > 0
    BY <2>1, CountBounds DEF Inductive
  <2>4. Queue # <<>> /\ Head(Queue) = info_table[left]
    BY <2>2, <2>3, QueueSequence
  <2>5. Queue' = [k \in 1 .. Count - 1 |-> info_table[Slot(k)]]
    <3>1. \A k \in 1 .. Count - 1 : Slot(k - 1)' = Slot(k)
      BY <2>2, <2>3, BufferAssumption
    <3>. QED BY <2>1, <2>2, <3>1 DEF Queue
  <2>6. Tail(Queue) = [k \in 1 .. Count - 1 |-> info_table[Slot(k)]]
    <3>1. Tail(Queue) = [k \in 1 .. Count - 1 |-> Queue[k + 1]]
      BY <2>4, QueueSequence, TailAsFunction
    <3>2. \A k \in 1 .. Count - 1 : Queue[k + 1] = info_table[Slot(k)]
      <4>1. ASSUME NEW k \in 1 .. Count - 1 PROVE k + 1 \in 1 .. Count /\ (k + 1) - 1 = k
        BY <2>3, <4>1, BufferAssumption
      <4>. QED BY <4>1, QueueSequence
    <3>. QED BY <3>1, <3>2
  <2>7. Held' = [Held EXCEPT ![w] = info_table[left]]
    <3>1. pc'[w] = "run"
      BY <1>10, SignalPC DEF PopFinish, Inductive, PushPCs, PopPCs, Threads
    <3>2. element[w] # NoSlot
      BY <2>1, BufferAssumption DEF Inductive, TypeOK
    <3>. QED BY <2>1, <3>1, <3>2 DEF Held, SingleWorker
  <2>. QED BY <2>4, <2>5, <2>6, <2>7 DEF BQ!Take
<1>11. ASSUME NEW w \in Workers, ResetVersion(w) PROVE BQ!ResetVersion(w)
  <2>1. /\ pc[w] = "run"
        /\ element[w] # NoSlot
        /\ info_table' = [info_table EXCEPT ![element[w]] =
                            [file |-> info_table[element[w]].file, version |-> 0]]
        /\ UNCHANGED <<left, right, pc, element>>
    BY <1>11 DEF ResetVersion
  <2>2. /\ element[w] \in 0 .. table_size - 1
        /\ \A k \in 0 .. table_size - 1 : k < Count => Slot(k) # element[w]
    BY <2>1, PointedSlotIsFree
  <2>3. Queue' = Queue
    <3>1. \A k \in 1 .. Count : info_table'[Slot(k - 1)] = info_table[Slot(k - 1)]
      BY <2>1, <2>2, CountBounds, BufferAssumption DEF Inductive, TypeOK
    <3>2. Count' = Count /\ \A k \in Nat : Slot(k)' = Slot(k)
      BY <2>1 DEF Count, Slot
    <3>. QED BY <3>1, <3>2, CountBounds, BufferAssumption DEF Queue, Inductive
  <2>4. Held[w] = info_table[element[w]] /\ Held[w] # NoInfo
    BY <2>1, BufferAssumption DEF Held, Inductive, Written
  <2>5. Held' = [Held EXCEPT ![w] = [file |-> Held[w].file, version |-> 0]]
    BY <2>1, <2>2, <2>4 DEF Held, SingleWorker, Inductive, TypeOK
  <2>. QED BY <2>3, <2>4, <2>5 DEF BQ!ResetVersion
<1>12. CASE UNCHANGED vars
  BY <1>12 DEF vars, Queue, Held, Count, Slot
<1>. QED
  BY <1>1, <1>2, <1>3, <1>4, <1>5, <1>6, <1>7, <1>8, <1>9, <1>10, <1>11, <1>12
     DEF Next, Push, Pop, BQ!Next

(***************************************************************************)
(* With one worker (-w 1), popping by pointer is popping by value: the     *)
(* ring implements BoundedQueue.  shared_buffer_pop hands out a slot it    *)
(* has already released, and the slot a full ring leaves free is what      *)
(* keeps that slot from being reused.  With two workers TLC refutes it.    *)
(***************************************************************************)
THEOREM SingleWorkerRefinement ==
    ASSUME SingleWorker
    PROVE  Spec => PopByPointerIsPopByValue
<1>1. Init => Inductive /\ Pointers /\ BQ!Init
  <2> SUFFICES ASSUME Init PROVE Inductive /\ Pointers /\ BQ!Init
    OBVIOUS
  <2>1. Pointers
    BY DEF Init, Pointers, Threads
  <2>2. Queue = <<>>
    BY BufferAssumption DEF Init, Queue, Count
  <2>3. Held = [w \in Workers |-> NoInfo]
    BY DEF Init, Held
  <2>. QED BY <2>1, <2>2, <2>3, InitInductive DEF BQ!Init
<1>2. Inductive /\ [Next]_vars => Inductive'
  BY TypeStep, LockingStep, WrittenStep DEF Inductive
<1>3. Inductive /\ Pointers /\ [Next]_vars => Pointers'
  BY PointersStep
<1>4. Inductive /\ Inductive' /\ Pointers /\ [Next]_vars => [BQ!Next]_(BQ!vars)
  BY RefinementStep
<1>. QED
  BY <1>1, <1>2, <1>3, <1>4, PTL DEF Spec, PopByPointerIsPopByValue, BQ!Spec

-----------------------------------------------------------------------------
(***************************************************************************)
(* No lost wakeup.  The invariant is inductive beside Inductive: a push    *)
(* that leaves sleepers behind has moved one of them to Popping, and a     *)
(* worker goes to sleep only when there is nothing to pop.                 *)
(***************************************************************************)
LEMMA ThreadSets ==
    /\ IsFiniteSet(Threads)
    /\ \A S \in SUBSET Threads : IsFiniteSet(S) /\ Cardinality(S) \in Nat
    /\ \A S, T \in SUBSET Threads : S \subseteq T => Cardinality(S) <= Cardinality(T)
<1>1. IsFiniteSet(Threads)
  BY FS_AddElement, BufferAssumption DEF Threads
<1>2. ASSUME NEW S \in SUBSET Threads PROVE IsFiniteSet(S) /\ Cardinality(S) \in Nat
  BY <1>1, FS_Subset, FS_CardinalityType
<1>3. ASSUME NEW S \in SUBSET Threads, NEW T \in SUBSET Threads, S \subseteq T
      PROVE  Cardinality(S) <= Cardinality(T)
  BY <1>2, <1>3, FS_Subset
<1>. QED BY <1>1, <1>2, <1>3

\* A step that sends nobody to sleep and calls nobody away.
LEMMA WakeupsKept ==
    ASSUME Inductive, NoLostWakeup, left' = left, right' = right,
           Popping \subseteq Popping', Pushing \subseteq Pushing',
           \A t \in Threads : pc'[t] = "pop_wait" => pc[t] = "pop_wait",
           \A t \in Threads : pc'[t] = "push_wait" => pc[t] = "push_wait"
    PROVE  NoLostWakeup'
<1>1. /\ Popping \in SUBSET Threads /\ Popping' \in SUBSET Threads
      /\ Pushing \in SUBSET Threads /\ Pushing' \in SUBSET Threads
  BY DEF Popping, Pushing
<1>2. /\ Cardinality(Popping) <= Cardinality(Popping')
      /\ Cardinality(Pushing) <= Cardinality(Pushing')
      /\ Cardinality(Popping) \in Nat /\ Cardinality(Popping') \in Nat
      /\ Cardinality(Pushing) \in Nat /\ Cardinality(Pushing') \in Nat
  BY <1>1, ThreadSets
<1>3. Count' = Count /\ Room' = Room
  BY DEF Count, Room
<1>4. Count \in Nat /\ Room \in Nat
  BY CountBounds, BufferAssumption DEF Inductive
<1>. QED BY <1>2, <1>3, <1>4 DEF NoLostWakeup

\* A thread that pushed or popped left its set, and a signal was sent.
LEMMA SignalledSets ==
    ASSUME Inductive, NEW t \in Threads,
           NEW wait, NEW lock, NEW Coming \in SUBSET Threads, NEW Coming1 \in SUBSET Threads,
           \E s \in Threads : pc'[s] = wait,
           Signal(t, wait, lock), pc[t] # wait, wait # "run",
           \A s \in Threads : pc[s] = wait => s \notin Coming,
           \A s \in Threads : pc[s] = wait /\ pc'[s] = lock => s \in Coming1,
           \A s \in Coming : s \in Coming1
    PROVE  Cardinality(Coming) + 1 <= Cardinality(Coming1)
<1>1. PICK u \in Threads : pc'[u] = wait
  OBVIOUS
<1>2. PICK s \in Threads : pc[s] = wait /\ pc' = [pc EXCEPT ![t] = "run", ![s] = lock]
  BY <1>1 DEF Signal, Inductive, TypeOK
<1>3. s \in Coming1 \ Coming
  BY <1>2 DEF Inductive, TypeOK
<1>4. Coming \cup {s} \subseteq Coming1 /\ Coming \cup {s} \in SUBSET Threads
  BY <1>3
<1>5. Cardinality(Coming \cup {s}) = Cardinality(Coming) + 1
  BY <1>3, ThreadSets, FS_AddElement
<1>. QED BY <1>4, <1>5, ThreadSets

LEMMA WakeupStep ==
    ASSUME Inductive, NoLostWakeup, [Next]_vars
    PROVE  NoLostWakeup'
<1> USE DEF Inductive, TypeOK, Threads
<1>1. ASSUME NEW t \in Threads, Acquire(t) PROVE NoLostWakeup'
  BY <1>1, WakeupsKept DEF Acquire, Popping, Pushing
<1>2. ASSUME NEW t \in Threads, SpuriousWakeup(t) PROVE NoLostWakeup'
  BY <1>2, WakeupsKept DEF SpuriousWakeup, Popping, Pushing
<1>3. ASSUME NEW t \in Threads, PushCall(t) PROVE NoLostWakeup'
  BY <1>3, WakeupsKept DEF PushCall, Popping, Pushing
<1>4. ASSUME NEW t \in Threads, PushWait(t) PROVE NoLostWakeup'
  <2>1. Room' = 0 /\ Count' = Count
    BY <1>4, CountBounds DEF PushWait, Wait, Room, Count
  <2>2. Popping' = Popping /\ Pushing' \in SUBSET Threads
    BY <1>4 DEF PushWait, Wait, Popping, Pushing
  <2>3. \A s \in Threads : pc'[s] = "pop_wait" => pc[s] = "pop_wait"
    BY <1>4 DEF PushWait, Wait
  <2>. QED BY <2>1, <2>2, <2>3, ThreadSets DEF NoLostWakeup
<1>5. ASSUME NEW t \in Threads, PushStore(t) PROVE NoLostWakeup'
  BY <1>5, WakeupsKept DEF PushStore, Popping, Pushing
<1>6. ASSUME NEW t \in Threads, PushFinish(t) PROVE NoLostWakeup'
  <2>1. /\ ~shared_buffer_full
        /\ right' = next_index(right)
        /\ left' = left
        /\ pc[t] = "push_finish"
        /\ Signal(t, "pop_wait", "pop_lock")
    BY <1>6 DEF PushFinish, Locking
  <2>2. /\ pc'[t] = "run"
        /\ \A s \in Threads \ {t} :
              pc'[s] = pc[s] \/ (pc[s] = "pop_wait" /\ pc'[s] = "pop_lock")
    BY <2>1, SignalPC DEF PushPCs, PopPCs
  <2>3. /\ Count' = Count + 1 /\ Room' = Room - 1
        /\ Count \in Nat /\ Room \in Nat
    <3>1. Count \in Nat /\ Room \in Nat
      BY CountBounds
    <3>2. Count' = Count + 1
      BY <2>1, PushCount
    <3>. QED BY <3>1, <3>2, BufferAssumption DEF Room
  <2>4. /\ Pushing' = Pushing \ {t} /\ t \in Pushing
        /\ Pushing \in SUBSET Threads
    BY <2>1, <2>2 DEF Pushing
  <2>5. Cardinality(Pushing') = Cardinality(Pushing) - 1 /\ Cardinality(Pushing) \in Nat
    BY <2>4, ThreadSets, FS_RemoveElement
  <2>6. (\E s \in Threads : pc'[s] = "push_wait") => Room' <= Cardinality(Pushing')
    BY <2>2, <2>3, <2>5 DEF NoLostWakeup
  <2>7. ASSUME \E s \in Threads : pc'[s] = "pop_wait"
        PROVE  Count' <= Cardinality(Popping')
    <3>1. Popping \in SUBSET Threads /\ Popping' \in SUBSET Threads
      BY DEF Popping
    <3>2. /\ \A s \in Threads : pc[s] = "pop_wait" => s \notin Popping
          /\ \A s \in Threads : pc[s] = "pop_wait" /\ pc'[s] = "pop_lock" => s \in Popping'
          /\ \A s \in Popping : s \in Popping'
      BY <2>1, <2>2 DEF Popping
    <3>3. Cardinality(Popping) + 1 <= Cardinality(Popping')
      BY <2>1, <2>7, <3>1, <3>2, SignalledSets
    <3>4. Count <= Cardinality(Popping)
      BY <2>2, <2>7 DEF NoLostWakeup
    <3>. QED BY <2>3, <3>1, <3>3, <3>4, ThreadSets
  <2>. QED BY <2>6, <2>7 DEF NoLostWakeup
<1>7. ASSUME NEW w \in Workers, PopCall(w) PROVE NoLostWakeup'
  BY <1>7, WakeupsKept DEF PopCall, Popping, Pushing
<1>8. ASSUME NEW w \in Workers, PopWait(w) PROVE NoLostWakeup'
  <2>1. Count' = 0 /\ Room' = Room
    BY <1>8, CountBounds DEF PopWait, Wait, Room, Count
  <2>2. Pushing' = Pushing /\ Popping' \in SUBSET Threads
    BY <1>8 DEF PopWait, Wait, Popping, Pushing
  <2>3. \A s \in Threads : pc'[s] = "push_wait" => pc[s] = "push_wait"
    BY <1>8 DEF PopWait, Wait
  <2>. QED BY <2>1, <2>2, <2>3, ThreadSets DEF NoLostWakeup
<1>9. ASSUME NEW w \in Workers, PopTake(w) PROVE NoLostWakeup'
  BY <1>9, WakeupsKept DEF PopTake, Popping, Pushing
<1>10. ASSUME NEW w \in Workers, PopFinish(w) PROVE NoLostWakeup'
  <2>1. /\ ~shared_buffer_empty
        /\ left' = next_index(left)
        /\ right' = right
        /\ pc[w] = "pop_finish"
        /\ Signal(w, "push_wait", "push_lock")
    BY <1>10 DEF PopFinish, Locking
  <2>2. /\ pc'[w] = "run"
        /\ \A s \in Threads \ {w} :
              pc'[s] = pc[s] \/ (pc[s] = "push_wait" /\ pc'[s] = "push_lock")
    BY <2>1, SignalPC DEF PushPCs, PopPCs
  <2>3. /\ Count' = Count - 1 /\ Room' = Room + 1
        /\ Count \in Nat /\ Room \in Nat
    <3>1. Count \in Nat /\ Room \in Nat
      BY CountBounds
    <3>2. Count' = Count - 1
      BY <2>1, PopCount
    <3>. QED BY <3>1, <3>2, BufferAssumption DEF Room
  <2>4. /\ Popping' = Popping \ {w} /\ w \in Popping
        /\ Popping \in SUBSET Threads
    BY <2>1, <2>2 DEF Popping
  <2>5. Cardinality(Popping') = Cardinality(Popping) - 1 /\ Cardinality(Popping) \in Nat
    BY <2>4, ThreadSets, FS_RemoveElement
  <2>6. (\E s \in Threads : pc'[s] = "pop_wait") => Count' <= Cardinality(Popping')
    BY <2>2, <2>3, <2>5 DEF NoLostWakeup
  <2>7. ASSUME \E s \in Threads : pc'[s] = "push_wait"
        PROVE  Room' <= Cardinality(Pushing')
    <3>1. Pushing \in SUBSET Threads /\ Pushing' \in SUBSET Threads
      BY DEF Pushing
    <3>2. /\ \A s \in Threads : pc[s] = "push_wait" => s \notin Pushing
          /\ \A s \in Threads : pc[s] = "push_wait" /\ pc'[s] = "push_lock" => s \in Pushing'
          /\ \A s \in Pushing : s \in Pushing'
      BY <2>1, <2>2 DEF Pushing
    <3>3. Cardinality(Pushing) + 1 <= Cardinality(Pushing')
      BY <2>1, <2>7, <3>1, <3>2, SignalledSets
    <3>4. Room <= Cardinality(Pushing)
      BY <2>2, <2>7 DEF NoLostWakeup
    <3>. QED BY <2>3, <3>1, <3>3, <3>4, ThreadSets
  <2>. QED BY <2>6, <2>7 DEF NoLostWakeup
<1>11. ASSUME NEW w \in Workers, ResetVersion(w) PROVE NoLostWakeup'
  BY <1>11, WakeupsKept DEF ResetVersion, Popping, Pushing
<1>12. CASE UNCHANGED vars
  BY <1>12, WakeupsKept DEF vars, Popping, Pushing
<1>. QED
  BY <1>1, <1>2, <1>3, <1>4, <1>5, <1>6, <1>7, <1>8, <1>9, <1>10, <1>11, <1>12
     DEF Next, Push, Pop

(***************************************************************************)
(* No lost wakeup, for any number of workers and any ring: one             *)
(* pthread_cond_signal per push and per pop is enough, because the two     *)
(* kinds of sleepers have a condition variable each.                       *)
(***************************************************************************)
THEOREM NoLostWakeupAlways == Spec => []NoLostWakeup
<1>1. Init => Inductive /\ NoLostWakeup
  BY InitInductive DEF Init, NoLostWakeup
<1>2. Inductive /\ NoLostWakeup /\ [Next]_vars => Inductive' /\ NoLostWakeup'
  BY TypeStep, LockingStep, WrittenStep, WakeupStep DEF Inductive
<1>. QED BY <1>1, <1>2, PTL DEF Spec

(***************************************************************************)
(* A client whose threads all sleep in the buffer has a full ring and      *)
(* only pushers, or an empty ring and only poppers: no mixture of the two, *)
(* which would be a wakeup the buffer owes.                                *)
(***************************************************************************)
THEOREM SameReasonToSleepAlways == Spec => []SameReasonToSleep
<1>1. Inductive /\ NoLostWakeup => SameReasonToSleep
  <2> SUFFICES ASSUME Inductive, NoLostWakeup,
                      \A t \in Threads : pc[t] \in {"push_wait", "pop_wait"}
               PROVE  \/ shared_buffer_full /\ \A t \in Threads : pc[t] = "push_wait"
                      \/ shared_buffer_empty /\ \A t \in Threads : pc[t] = "pop_wait"
                      \/ table_size = 1
    BY DEF SameReasonToSleep
  <2>1. Popping = {} /\ Pushing = {}
    BY DEF Popping, Pushing
  <2>2. Cardinality({}) = 0
    BY FS_EmptySet
  <2>3. /\ Count \in Nat /\ Room \in Nat
        /\ shared_buffer_empty <=> Count = 0
        /\ shared_buffer_full <=> Room = 0
    BY CountBounds DEF Inductive
  <2>4. ASSUME NEW t \in Threads, pc[t] = "pop_wait" PROVE Count = 0
    BY <2>1, <2>2, <2>3, <2>4 DEF NoLostWakeup
  <2>5. ASSUME NEW t \in Threads, pc[t] = "push_wait" PROVE Room = 0
    BY <2>1, <2>2, <2>3, <2>5 DEF NoLostWakeup
  <2>6. main \in Threads
    BY DEF Threads
  <2>7. CASE \A t \in Threads : pc[t] = "push_wait"
    BY <2>3, <2>5, <2>6, <2>7
  <2>8. CASE \A t \in Threads : pc[t] = "pop_wait"
    BY <2>3, <2>4, <2>6, <2>8
  <2>9. CASE /\ \E t \in Threads : pc[t] = "push_wait"
             /\ \E t \in Threads : pc[t] = "pop_wait"
    <3>1. Count = 0 /\ Room = 0
      BY <2>4, <2>5, <2>9
    <3>. QED BY <3>1, BufferAssumption DEF Room
  <2>. QED BY <2>7, <2>8, <2>9
<1>2. Init => Inductive
  BY InitInductive
<1>3. Inductive /\ [Next]_vars => Inductive'
  BY TypeStep, LockingStep, WrittenStep DEF Inductive
<1>. QED BY <1>1, <1>2, <1>3, NoLostWakeupAlways, PTL DEF Spec
=============================================================================
