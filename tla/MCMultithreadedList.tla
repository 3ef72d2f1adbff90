------------------------ MODULE MCMultithreadedList ------------------------
(***************************************************************************)
(* An instance of MultithreadedList for TLC.                               *)
(***************************************************************************)
EXTENDS MultithreadedList

\* What the read of a freed node can give, see Freed.
AnyOutcome == {"old", "null", "wild"}
=============================================================================
