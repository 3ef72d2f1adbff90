--------------------------- MODULE MCSharedBuffer ---------------------------
(***************************************************************************)
(* Instances of SharedBuffer for TLC.                                      *)
(***************************************************************************)
EXTENDS SharedBuffer

\* Workers push the file lists they get, main pushes what the server tells it.
Everybody == Threads
=============================================================================
