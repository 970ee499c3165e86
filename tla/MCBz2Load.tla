----------------------------- MODULE MCBz2Load -----------------------------
(* Instances of Bz2Load for TLC.                                            *)
EXTENDS Bz2Load

CONSTANT MaxBlocks     \* bound on the blocks of a file

AnyFile == UNION {[1 .. n -> Kind] : n \in 0 .. MaxBlocks}
=============================================================================
