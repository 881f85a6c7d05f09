-------------------------- MODULE MCByteArrayQueue --------------------------
(* ByteArrayQueue with two handles and arrays of up to four bytes.          *)
EXTENDS ByteArrayQueue, TLC

CONSTANTS h1, h2, a1, a2, a3

MCHandles == {h1, h2}
MCArrays == {a1, a2, a3}
Sym == Permutations(MCHandles) \cup Permutations(MCArrays)
=============================================================================
