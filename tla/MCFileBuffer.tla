---------------------------- MODULE MCFileBuffer ----------------------------
(* Instances of FileBuffer for TLC.                                         *)
EXTENDS FileBuffer, TLC

(* A first part, one that reaches past the end, one that starts there.      *)
FewParts == {<<0, 1>>, <<Size - 1, Size>>, <<Size, 1>>}

(* A buffer that nobody refers to is cleared before it is used again.       *)
Live(f) == [b \in {x \in Buffer : ~Unused(x)} |-> f[b]]

(* Whether a call has made its buffer is looked at last when it is loaded.  *)
Making == {c \in Client : made[c] /\ pc[c] \in {"reset", "unmap", "load", "join load", "stamp"}}

View ==
  <<fileVars, entry, pc, async, buf, Making, req, got, histVars,
    Live(flags), Live(avail), Live(size), Live(filled), Live(ver), Live(time), Live(thread), Live(lock)>>

Symmetry == Permutations(Buffer) \cup Permutations(Client)
=============================================================================
