---------------------------- MODULE BoundedQueue ----------------------------
(***************************************************************************)
(* What the shared buffer of a client promises its threads: a bounded FIFO *)
(* queue of client_file_info records.  A record that was taken belongs to  *)
(* the worker that took it: nobody else changes it, and the worker may     *)
(* reset its version (client.c:147) without anybody noticing.              *)
(***************************************************************************)
EXTENDS Naturals, Sequences

CONSTANTS
    Workers,    \* the threads that take records
    Infos,      \* the records that can be queued, with fields file and version
    Capacity,   \* how many records the queue holds at most
    NoInfo      \* what a worker that has taken nothing holds

VARIABLES
    queue,      \* the queued records, oldest first
    held        \* held[w] is the record worker w took last, or NoInfo

vars == <<queue, held>>

Init ==
    /\ queue = <<>>
    /\ held = [w \in Workers |-> NoInfo]

Put ==
    /\ Len(queue) < Capacity
    /\ \E info \in Infos : queue' = Append(queue, info)
    /\ UNCHANGED held

Take(w) ==
    /\ queue # <<>>
    /\ queue' = Tail(queue)
    /\ held' = [held EXCEPT ![w] = Head(queue)]

Drop(w) ==
    /\ held' = [held EXCEPT ![w] = NoInfo]
    /\ UNCHANGED queue

ResetVersion(w) ==
    /\ held[w] # NoInfo
    /\ held' = [held EXCEPT ![w] = [file |-> @.file, version |-> 0]]
    /\ UNCHANGED queue

Next ==
    \/ Put
    \/ \E w \in Workers : Take(w) \/ Drop(w) \/ ResetVersion(w)

Spec == Init /\ [][Next]_vars
=============================================================================
