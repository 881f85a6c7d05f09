----------------------------- MODULE MCHttpPool -----------------------------
(* HttpPool with two threads and two sockets.                               *)
EXTENDS HttpPool, TLC

CONSTANTS t1, t2, s1, s2

MCThreads == {t1, t2}
MCSockets == {s1, s2}
Sym == Permutations(MCThreads) \cup Permutations(MCSockets)
=============================================================================
