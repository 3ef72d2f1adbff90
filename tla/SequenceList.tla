---------------------------- MODULE SequenceList ----------------------------
(***************************************************************************)
(* What generic_multithreaded_list.h promises: a sequence of elements that *)
(* threads append to, remove from and search, each call in one step.  An   *)
(* element may be in it several times; list_remove takes out the first.    *)
(***************************************************************************)
EXTENDS Naturals, Sequences, ListOps

CONSTANTS
    Threads,    \* the callers
    Elements,   \* what the comparer tells apart
    NoResult    \* the caller has asked nothing yet

VARIABLES
    elements,   \* the elements, oldest first
    result      \* result[t]: was the element thread t last searched for there?

vars == <<elements, result>>

Init ==
    /\ elements = <<>>
    /\ result = [t \in Threads |-> NoResult]

Rpush(x) ==
    /\ elements' = Append(elements, x)
    /\ UNCHANGED result

Remove(x) ==
    /\ Present(elements, x)
    /\ elements' = Without(elements, FirstIndex(elements, x))
    /\ UNCHANGED result

Search(t, x) ==
    /\ result' = [result EXCEPT ![t] = Present(elements, x)]
    /\ UNCHANGED elements

Next == \E x \in Elements :
            \/ Rpush(x)
            \/ Remove(x)
            \/ \E t \in Threads : Search(t, x)

Spec == Init /\ [][Next]_vars
=============================================================================
