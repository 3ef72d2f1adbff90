---------------------------- MODULE MirroredFiles ----------------------------
(***************************************************************************)
(* What a client's directory of copies promises, whatever happens to the   *)
(* processes: a copy appears empty, from then on it is only written over   *)
(* from its first word with what was read of the original, and it is never *)
(* shortened, deleted or written from another file.  What was read is as   *)
(* long as one version of the original and has the words of one version:   *)
(* if that is another one and shorter, the words after it may be any.      *)
(***************************************************************************)
EXTENDS Naturals, Sequences

CONSTANTS
    Files,      \* pathnames
    Contents,   \* what an original can hold
    Words,      \* what a word can be
    NoFile      \* there is no copy

VARIABLES
    versions,   \* versions[f]: everything that the original f has held
    copy        \* the copies

vars == <<versions, copy>>

\* old with new written over its beginning.
Overlay(new, old) ==
    [i \in DOMAIN new \cup DOMAIN old |-> IF i \in DOMAIN new THEN new[i] ELSE old[i]]

Init ==
    /\ versions \in [Files -> {{}} \cup {{c} : c \in Contents}]
    /\ copy = [f \in Files |-> NoFile]

Edit(f) ==
    /\ \E c \in Contents : versions' = [versions EXCEPT ![f] = @ \cup {c}]
    /\ UNCHANGED copy

Create(f) ==
    /\ copy[f] = NoFile
    /\ copy' = [copy EXCEPT ![f] = <<>>]
    /\ UNCHANGED versions

Readings(c, d) ==
    {r \in [1 .. Len(c) -> Words] : \A i \in 1 .. Len(c) : i <= Len(d) => r[i] = d[i]}

Store(f) ==
    /\ copy[f] # NoFile
    /\ \E c, d \in versions[f] : \E r \in Readings(c, d) :
          copy' = [copy EXCEPT ![f] = Overlay(r, @)]
    /\ UNCHANGED versions

Next == \E f \in Files : Edit(f) \/ Create(f) \/ Store(f)

Spec == Init /\ [][Next]_vars
=============================================================================
