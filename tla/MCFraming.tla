------------------------------ MODULE MCFraming ------------------------------
(***************************************************************************)
(* An instance of Framing for TLC, with digits of three bits.              *)
(***************************************************************************)
EXTENDS Framing

\* Too small; in 16 bits; just not; and one whose 16 bits are too small.
AwkwardPorts == {19, 20, 63, 64, 117}

SomeAddresses == {<<1, 3>>, <<7, 5>>}
Long == {<<7, 5>>, <<7, 7>>}
=============================================================================
