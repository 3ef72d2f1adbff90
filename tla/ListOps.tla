------------------------------- MODULE ListOps -------------------------------
(***************************************************************************)
(* generic_multithreaded_list.c without its pointers: a list is the ring   *)
(* of its elements, oldest first, and the size field, which list_remove    *)
(* decrements whether or not it removed something.  An empty ring is a     *)
(* null head.  MultithreadedList checks these operators against the code's *)
(* pointer manipulations.                                                  *)
(***************************************************************************)
EXTENDS Naturals, Sequences, FiniteSetsExt

Present(s, x) == \E i \in 1 .. Len(s) : s[i] = x

FirstIndex(s, x) == Min({i \in 1 .. Len(s) : s[i] = x})

Without(s, i) == SubSeq(s, 1, i - 1) \o SubSeq(s, i + 1, Len(s))

list_create == [ring |-> <<>>, size |-> 0]

\* The head is null, but the size says there are elements: see list_remove.
Lost(l) == l.ring = <<>> /\ l.size # 0

\* list_rpush follows list->head->previous as soon as the size is not 0.
RpushCrashes(l) == Lost(l)

list_rpush(l, x) == [ring |-> Append(l.ring, x), size |-> l.size + 1]

\* list_remove follows the head, null or not.
RemoveCrashes(l) == l.ring = <<>>

(***************************************************************************)
(* list_remove reads the next pointer of the head it has just freed.  What *)
(* that gives is one of `freed': "old", the pointer that was there,        *)
(* "null", or "wild", an address that holds no node.                       *)
(***************************************************************************)
ReadsFreedHead(l, x) == Present(l.ring, x) /\ FirstIndex(l.ring, x) = 1 /\ l.size > 1

RemoveGoesWild(l, x, freed) == ReadsFreedHead(l, x) /\ "wild" \in freed

\* The rings list_remove can leave, unless it left a wild head.
RingsAfterRemove(l, x, freed) ==
    IF l.size = 1                  THEN {<<>>}
    ELSE IF ReadsFreedHead(l, x)   THEN {IF o = "old" THEN Tail(l.ring) ELSE <<>> :
                                           o \in freed \ {"wild"}}
    ELSE IF Present(l.ring, x)     THEN {Without(l.ring, FirstIndex(l.ring, x))}
    ELSE {Tail(l.ring) \o <<Head(l.ring)>>}

list_remove(l, x, freed) ==
    {[ring |-> r, size |-> l.size - 1] : r \in RingsAfterRemove(l, x, freed)}
=============================================================================
