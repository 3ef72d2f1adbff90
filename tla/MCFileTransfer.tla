--------------------------- MODULE MCFileTransfer ---------------------------
(***************************************************************************)
(* Instances of FileTransfer for TLC, with words of two bits.              *)
(***************************************************************************)
EXTENDS FileTransfer

FileSymmetry == Permutations(Files)

\* A short file and a longer one with the same version, and one with version 0.
AwkwardContents == {<<1>>, <<2, 3>>, <<1, 3>>}

\* Every file has words and a version of its own, not 0.
PlainContents == {<<1>>, <<2>>}
=============================================================================
