--------------------------- MODULE ByteArrayQueue ---------------------------
(***************************************************************************)
(* encryption/ByteArrayQueue.java: a queue of bytes in an array with the   *)
(* offset of its head and its length.  The array is compacted in place or  *)
(* replaced as the queue grows; clone makes a second handle on the same    *)
(* array.  Arrays are objects of a heap: a handle holds a reference.       *)
(***************************************************************************)
EXTENDS Integers, Sequences, FiniteSets

CONSTANTS
  Handles,   \* ByteArrayQueue objects
  Arrays,    \* identities of byte[] objects; reused when no handle refers to one
  Byte,      \* the values a byte can have
  Zero,      \* the value of a fresh array's bytes
  Initial,   \* the default capacity, 32 in the code
  Big,       \* an emptied array longer than this is released, 1024 in the code
  MaxCap     \* bound: no array grows longer

ASSUME QueueAssumption ==
  /\ Zero \in Byte
  /\ Initial \in Nat /\ Big \in Nat /\ MaxCap \in Nat

VARIABLES
  heap,      \* the content of every array
  array,     \* ByteArrayQueue.array, a reference
  offset,    \* ByteArrayQueue.offset
  length,    \* ByteArrayQueue.length
  io         \* what the last operation was and the bytes it added or retrieved

baq == <<heap, array, offset, length, io>>

MaxOf(a, b) == IF a > b THEN a ELSE b
MinOf(a, b) == IF a < b THEN a ELSE b

Silent == [op |-> "none", b |-> <<>>]

New(n) == [i \in 1..n |-> Zero]
Cap(h) == Len(heap[array[h]])

\* System.arraycopy(src, so, dst, do, n); the copy is as if through a buffer.
ArrayCopy(src, so, dst, do, n) ==
  [i \in DOMAIN dst |-> IF i - do \in 1..n THEN src[so + i - do] ELSE dst[i]]

\* h gets a new array with this content, and an array that no handle refers to
\* any more is garbage.
Collected(f) == heap' = [a \in Arrays |-> IF \E h \in Handles : array'[h] = a THEN f[a] ELSE <<>>]
Allocate(h, content) ==
  \E a \in Arrays \ {array[g] : g \in Handles} :
    /\ array' = [array EXCEPT ![h] = a]
    /\ Collected([heap EXCEPT ![a] = content])

-----------------------------------------------------------------------------
(* setCapacity: the content moves to the front of a new array.             *)

\* Variant: the copy starts at the front of the old array.
CopyFromStart(h, cap) ==
  ArrayCopy(heap[array[h]], 0, New(MaxOf(cap, length[h])), 0, length[h])
Resized(h, cap) ==
  ArrayCopy(heap[array[h]], offset[h], New(MaxOf(cap, length[h])), 0, length[h])

SetCapacity(h, cap) ==
  /\ Allocate(h, Resized(h, cap))
  /\ offset' = [offset EXCEPT ![h] = 0]
  /\ io' = Silent
  /\ UNCHANGED length

-----------------------------------------------------------------------------
(* add(b, off, len): b is the part of the caller's array that is added.    *)

\* Doubles the capacity, or takes as much as is needed.
AddGrows(h, b) ==
  LET n == length[h] + Len(b)
      cap == MaxOf(Cap(h) * 2, n)
  IN  /\ n > Cap(h) /\ cap <= MaxCap
      /\ Allocate(h, ArrayCopy(b, 0, Resized(h, cap), length[h], Len(b)))
      /\ offset' = [offset EXCEPT ![h] = 0]
      /\ length' = [length EXCEPT ![h] = n]
      /\ io' = [op |-> "add", b |-> b]

\* Variant: the array has room, whatever the offset.
NoCompaction(h, n) == FALSE
MustCompact(h, n) == offset[h] + n > Cap(h)

AddInPlace(h, b) ==
  LET n == length[h] + Len(b)
      old == heap[array[h]]
      to == IF MustCompact(h, n) THEN 0 ELSE offset[h]
      moved == ArrayCopy(old, offset[h], old, to, length[h])
  IN  /\ n <= Cap(h)
      /\ heap' = [heap EXCEPT ![array[h]] = ArrayCopy(b, 0, moved, to + length[h], Len(b))]
      /\ offset' = [offset EXCEPT ![h] = to]
      /\ length' = [length EXCEPT ![h] = n]
      /\ io' = [op |-> "add", b |-> b]
      /\ UNCHANGED array

Add(h, b) == AddGrows(h, b) \/ AddInPlace(h, b)

-----------------------------------------------------------------------------
(* clear and remove release a big array once the queue is empty.           *)

Release(h, off) ==
  IF Cap(h) > Big
  THEN /\ Allocate(h, New(Initial))
       /\ offset' = [offset EXCEPT ![h] = 0]
  ELSE /\ offset' = [offset EXCEPT ![h] = off]
       /\ UNCHANGED <<heap, array>>

Clear(h) ==
  /\ length' = [length EXCEPT ![h] = 0]
  /\ io' = Silent
  /\ Release(h, 0)

\* remove(b, off, len) and the streams above it; a caller asks for no more
\* than there is, and InputStream.read sees to that itself.
Remove(h, n) ==
  /\ n <= length[h]
  /\ io' = [op |-> "get", b |-> [i \in 1..n |-> heap[array[h]][offset[h] + i]]]
  /\ length' = [length EXCEPT ![h] = @ - n]
  /\ IF n = length[h]
     THEN Release(h, offset[h] + n)
     ELSE offset' = [offset EXCEPT ![h] = @ + n] /\ UNCHANGED <<heap, array>>

\* InputStream.read(b, off, n): -1 from an empty queue, which stays as it is.
Read(h, n) ==
  IF length[h] = 0
  THEN io' = [op |-> "get", b |-> <<>>] /\ UNCHANGED <<heap, array, offset, length>>
  ELSE Remove(h, MinOf(n, length[h]))

\* g becomes a clone of h; the object g was before is garbage.
Clone(h, g) ==
  /\ array' = [array EXCEPT ![g] = array[h]]
  /\ offset' = [offset EXCEPT ![g] = offset[h]]
  /\ length' = [length EXCEPT ![g] = length[h]]
  /\ io' = Silent
  /\ Collected(heap)

-----------------------------------------------------------------------------

\* The handles start as new ByteArrayQueue() with an array of its own each.
QueueInit ==
  /\ array \in {f \in [Handles -> Arrays] : \A h, g \in Handles : f[h] = f[g] => h = g}
  /\ heap = [a \in Arrays |-> IF \E h \in Handles : array[h] = a THEN New(Initial) ELSE <<>>]
  /\ offset = [h \in Handles |-> 0]
  /\ length = [h \in Handles |-> 0]
  /\ io = Silent

QueueNext ==
  \E h \in Handles :
    \/ \E b \in UNION {[1..n -> Byte] : n \in 0..2} : Add(h, b)
    \/ \E n \in 0..MaxCap : Remove(h, n) \/ Read(h, n) \/ SetCapacity(h, n)
    \/ Clear(h)
    \/ \E g \in Handles \ {h} : Clone(h, g)

QueueSpec == QueueInit /\ [][QueueNext]_baq

-----------------------------------------------------------------------------
(* Properties *)

\* The part of its array a handle uses lies within the array, so that no
\* arraycopy of add, remove or setCapacity is out of bounds.
InBounds ==
  \A h \in Handles : offset[h] \in Nat /\ length[h] \in Nat /\ offset[h] + length[h] <= Cap(h)

Contents == [h \in Handles |-> [i \in 1..length[h] |-> heap[array[h]][offset[h] + i]]]
Sharing == {h \in Handles : \E g \in Handles \ {h} : array[g] = array[h]}

\* Through every growth, compaction and release a handle is a FIFO queue, and
\* a handle that shares its array with no clone is never disturbed.
Fifo == INSTANCE ByteFifo WITH bytes <- Contents, sharing <- Sharing
ImplementsFifo == Fifo!FifoSpec

=============================================================================
