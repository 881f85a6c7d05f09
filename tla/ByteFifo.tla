------------------------------ MODULE ByteFifo ------------------------------
(***************************************************************************)
(* What ByteArrayQueue promises: each handle is a first-in first-out queue *)
(* of bytes, and what is retrieved is what was added, in order.  A clone   *)
(* "shares this ByteArrayQueue's content": while two handles share, adding *)
(* to one may overwrite bytes of the other, though never how many it has.  *)
(***************************************************************************)
EXTENDS Integers, Sequences

CONSTANT Handles

VARIABLES
  bytes,    \* the content of each handle, head first
  sharing,  \* the handles whose content another handle can reach
  io        \* what the last operation was and the bytes it added or retrieved

fifo == <<bytes, sharing, io>>

Silent == [op |-> "none", b |-> <<>>]

FifoInit ==
  /\ bytes = [h \in Handles |-> <<>>]
  /\ sharing = {}
  /\ io = Silent

\* A write to h leaves a handle that does not share as it is, and the length
\* of every other.
OthersKeep(h) ==
  \A g \in Handles \ {h} :
    /\ Len(bytes'[g]) = Len(bytes[g])
    /\ h \notin sharing \/ g \notin sharing => bytes'[g] = bytes[g]

Put(h) ==
  /\ io'.op = "add"
  /\ bytes'[h] = bytes[h] \o io'.b
  /\ OthersKeep(h)

Get(h) ==
  \E n \in 0..Len(bytes[h]) :
    /\ io' = [op |-> "get", b |-> SubSeq(bytes[h], 1, n)]
    /\ bytes' = [bytes EXCEPT ![h] = SubSeq(@, n + 1, Len(@))]

Empty(h)    == bytes' = [bytes EXCEPT ![h] = <<>>] /\ io' = Silent
Share(h, g) == bytes' = [bytes EXCEPT ![g] = bytes[h]] /\ io' = Silent
Keep        == UNCHANGED bytes /\ io' = Silent

FifoNext ==
  \/ \E h \in Handles : Put(h) \/ Get(h) \/ Empty(h)
  \/ \E h, g \in Handles : Share(h, g)
  \/ Keep

FifoSpec == FifoInit /\ [][FifoNext]_fifo
=============================================================================
