----------------------------- MODULE MCRegistry -----------------------------
(***************************************************************************)
(* Instances of Registry for TLC.  Clients are interchangeable.            *)
(***************************************************************************)
EXTENDS Registry, TLC

ClientSymmetry == Permutations(Clients)

Overwritten == {"null", "wild"}
AnyOutcome  == {"old", "null", "wild"}
=============================================================================
