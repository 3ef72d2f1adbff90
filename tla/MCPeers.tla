------------------------------ MODULE MCPeers ------------------------------
(***************************************************************************)
(* An instance of Peers for TLC: two clients, and one that comes and goes: *)
(* off and on again, or off while a client logs out.                       *)
(***************************************************************************)
EXTENDS Peers

CONSTANTS a, b

TwoClients == <<a, b>>

FewEvents == {[notices |-> 2, log_outs |-> 0], [notices |-> 0, log_outs |-> 1]}
=============================================================================
