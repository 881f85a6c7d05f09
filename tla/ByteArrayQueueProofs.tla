------------------------ MODULE ByteArrayQueueProofs ------------------------
(* For any handles, arrays, bytes and capacities: InBounds, and ByteFifo. *)
EXTENDS ByteArrayQueue, SequenceTheorems, TLAPS

\* An array: a function on 1..Len, whatever its elements are.
IsArray(f) == Len(f) \in Nat /\ f = [i \in 1..Len(f) |-> f[i]]

LEMMA LenIs ==
  ASSUME NEW n \in Nat, NEW f, f = [i \in 1..n |-> f[i]]
  PROVE  Len(f) = n /\ IsArray(f)
<1> DEFINE S == {f[i] : i \in 1..n}
<1>1. f \in [1..n -> S]
  OBVIOUS
<1>2. f \in Seq(S)
  BY <1>1, SeqDef
<1>3. Len(f) \in Nat /\ 1..Len(f) = 1..n
  BY <1>1, <1>2, LenProperties
<1>4. Len(f) = n
  BY <1>3
<1> QED
  BY <1>4 DEF IsArray

LEMMA NewArray ==
  ASSUME NEW n \in Nat
  PROVE  Len(New(n)) = n /\ IsArray(New(n))
<1>1. New(n) = [i \in 1..n |-> New(n)[i]]
  BY DEF New
<1> QED
  BY <1>1, LenIs

LEMMA CopiedArray ==
  ASSUME NEW src, NEW so, NEW dst, NEW do, NEW n, IsArray(dst)
  PROVE  /\ Len(ArrayCopy(src, so, dst, do, n)) = Len(dst)
         /\ IsArray(ArrayCopy(src, so, dst, do, n))
<1> DEFINE copy == ArrayCopy(src, so, dst, do, n)
<1>1. DOMAIN dst = 1..Len(dst) /\ Len(dst) \in Nat
  BY DEF IsArray
<1>2. copy = [i \in 1..Len(dst) |-> copy[i]]
  BY <1>1 DEF ArrayCopy
<1> HIDE DEF copy
<1>3. Len(copy) = Len(dst) /\ IsArray(copy)
  BY <1>1, <1>2, LenIs
<1> QED
  BY <1>3 DEF copy

-----------------------------------------------------------------------------

\* Every handle has an array, and uses a part of it.
HeapOK ==
  /\ array \in [Handles -> Arrays]
  /\ heap = [a \in Arrays |-> heap[a]]
  /\ \A h \in Handles : IsArray(heap[array[h]])

IInv ==
  /\ HeapOK
  /\ offset \in [Handles -> Nat] /\ length \in [Handles -> Nat]
  /\ InBounds

LEMMA InitIInv == QueueInit => IInv
<1> SUFFICES ASSUME QueueInit PROVE IInv
  OBVIOUS
<1>1. array \in [Handles -> Arrays] /\ heap = [a \in Arrays |-> heap[a]]
  BY DEF QueueInit
<1>2. \A h \in Handles : heap[array[h]] = New(Initial)
  BY DEF QueueInit
<1>3. \A h \in Handles : IsArray(heap[array[h]]) /\ Cap(h) \in Nat
  BY <1>2, NewArray, QueueAssumption DEF Cap
<1>4. HeapOK
  BY <1>1, <1>3 DEF HeapOK
<1>5. /\ offset \in [Handles -> Nat] /\ length \in [Handles -> Nat]
      /\ \A h \in Handles : offset[h] = 0 /\ length[h] = 0
  BY DEF QueueInit
<1>6. InBounds
  BY <1>3, <1>5 DEF InBounds
<1> QED
  BY <1>4, <1>5, <1>6 DEF IInv

\* A new array for one handle leaves the arrays of the others as they are.
LEMMA Allocated ==
  ASSUME HeapOK, NEW h \in Handles, NEW content, IsArray(content), Allocate(h, content)
  PROVE  /\ HeapOK'
         /\ heap'[array'[h]] = content
         /\ \A g \in Handles \ {h} : heap'[array'[g]] = heap[array[g]]
<1>1. PICK a \in Arrays \ {array[g] : g \in Handles} :
        /\ array' = [array EXCEPT ![h] = a]
        /\ Collected([heap EXCEPT ![a] = content])
  BY DEF Allocate
<1>2. array' \in [Handles -> Arrays]
  BY <1>1 DEF HeapOK
<1>3. \A g \in Handles : heap'[array'[g]] = [heap EXCEPT ![a] = content][array'[g]]
  BY <1>1, <1>2 DEF Collected
<1>4. heap' = [b \in Arrays |-> heap'[b]]
  BY <1>1 DEF Collected
<1>5. heap'[array'[h]] = content
  BY <1>1, <1>3 DEF HeapOK
<1>6. ASSUME NEW g \in Handles \ {h} PROVE heap'[array'[g]] = heap[array[g]]
  BY <1>1, <1>3 DEF HeapOK
<1>7. \A g \in Handles : IsArray(heap'[array'[g]])
  BY <1>5, <1>6 DEF HeapOK
<1> QED
  BY <1>2, <1>4, <1>5, <1>6, <1>7 DEF HeapOK

\* If the arrays stay as long as they were or grow, the handle a step is about
\* is the only one to look at.
LEMMA Others ==
  ASSUME IInv, HeapOK', NEW h \in Handles,
         NEW off \in Nat, NEW n \in Nat,
         offset' = [offset EXCEPT ![h] = off], length' = [length EXCEPT ![h] = n],
         off + n <= Cap(h)',
         \A g \in Handles \ {h} : Cap(g)' = Cap(g)
  PROVE  IInv'
<1>1. offset' \in [Handles -> Nat] /\ length' \in [Handles -> Nat]
  BY DEF IInv
<1>2. ASSUME NEW g \in Handles PROVE offset'[g] + length'[g] <= Cap(g)'
  <2>1. CASE g = h
    BY <2>1 DEF IInv
  <2>2. CASE g # h
    BY <2>2 DEF IInv, InBounds
  <2> QED
    BY <2>1, <2>2
<1>3. InBounds'
  BY <1>1, <1>2 DEF InBounds
<1> QED
  BY <1>1, <1>3 DEF IInv

LEMMA ResizedArray ==
  ASSUME IInv, NEW h \in Handles, NEW cap \in Nat
  PROVE  /\ IsArray(Resized(h, cap))
         /\ Len(Resized(h, cap)) = MaxOf(cap, length[h])
         /\ MaxOf(cap, length[h]) \in Nat
<1>1. MaxOf(cap, length[h]) \in Nat
  BY DEF IInv, MaxOf
<1> QED
  BY <1>1, NewArray, CopiedArray DEF Resized

LEMMA CapType == ASSUME IInv, NEW h \in Handles PROVE Cap(h) \in Nat
BY DEF IInv, HeapOK, IsArray, Cap

-----------------------------------------------------------------------------

LEMMA SetCapacityIInv ==
  ASSUME IInv, NEW h \in Handles, NEW cap \in Nat, SetCapacity(h, cap)
  PROVE  IInv'
<1> DEFINE content == Resized(h, cap)
<1>1. IsArray(content) /\ Len(content) >= length[h] /\ length[h] \in Nat /\ Len(content) \in Nat
  BY ResizedArray DEF MaxOf, IInv
<1>2. HeapOK /\ Allocate(h, content)
  BY DEF SetCapacity, IInv
<1> HIDE DEF content
<1>3. /\ HeapOK' /\ heap'[array'[h]] = content
      /\ \A g \in Handles \ {h} : heap'[array'[g]] = heap[array[g]]
  BY <1>1, <1>2, Allocated
<1>4. Cap(h)' = Len(content) /\ \A g \in Handles \ {h} : Cap(g)' = Cap(g)
  BY <1>3 DEF Cap
<1>5. length' = [length EXCEPT ![h] = length[h]] /\ offset' = [offset EXCEPT ![h] = 0]
  BY DEF SetCapacity, IInv
<1>6. 0 + length[h] <= Cap(h)'
  BY <1>1, <1>4
<1> QED
  BY <1>1, <1>3, <1>4, <1>5, <1>6, Others

LEMMA AddGrowsIInv ==
  ASSUME IInv, NEW h \in Handles, NEW b, Len(b) \in Nat, AddGrows(h, b)
  PROVE  IInv'
<1> DEFINE n == length[h] + Len(b)
           cap == MaxOf(Cap(h) * 2, n)
           content == ArrayCopy(b, 0, Resized(h, cap), length[h], Len(b))
<1>1. length[h] \in Nat /\ n \in Nat /\ Cap(h) \in Nat
  BY CapType DEF IInv
<1>2. cap \in Nat /\ cap >= n
  BY <1>1 DEF MaxOf
<1>3. Allocate(h, content) /\ offset' = [offset EXCEPT ![h] = 0] /\ length' = [length EXCEPT ![h] = n]
  BY DEF AddGrows
<1> HIDE DEF cap
<1>4. IsArray(content) /\ Len(content) >= n /\ Len(content) \in Nat
  BY <1>1, <1>2, ResizedArray, CopiedArray DEF MaxOf
<1> HIDE DEF content, n
<1>5. /\ HeapOK' /\ heap'[array'[h]] = content
      /\ \A g \in Handles \ {h} : heap'[array'[g]] = heap[array[g]]
  BY <1>3, <1>4, Allocated DEF IInv
<1>6. Cap(h)' = Len(content) /\ \A g \in Handles \ {h} : Cap(g)' = Cap(g)
  BY <1>5 DEF Cap
<1>7. 0 + n <= Cap(h)'
  BY <1>1, <1>4, <1>6
<1> QED
  BY <1>1, <1>3, <1>5, <1>6, <1>7, Others

LEMMA AddInPlaceIInv ==
  ASSUME IInv, NEW h \in Handles, NEW b, Len(b) \in Nat, AddInPlace(h, b)
  PROVE  IInv'
<1> DEFINE n == length[h] + Len(b)
           old == heap[array[h]]
           to == IF MustCompact(h, n) THEN 0 ELSE offset[h]
           moved == ArrayCopy(old, offset[h], old, to, length[h])
           content == ArrayCopy(b, 0, moved, to + length[h], Len(b))
<1>1. length[h] \in Nat /\ offset[h] \in Nat /\ n \in Nat /\ Cap(h) \in Nat /\ IsArray(old)
  <2>1. length[h] \in Nat /\ offset[h] \in Nat
    BY DEF IInv
  <2>2. IsArray(old)
    BY DEF IInv, HeapOK
  <2>3. n \in Nat
    BY <2>1
  <2> QED
    BY <2>1, <2>2, <2>3, CapType
<1>2. /\ n <= Cap(h) /\ heap' = [heap EXCEPT ![array[h]] = content] /\ array' = array
      /\ offset' = [offset EXCEPT ![h] = to] /\ length' = [length EXCEPT ![h] = n]
  BY DEF AddInPlace
<1>3. to \in Nat /\ to + n <= Cap(h)
  BY <1>1, <1>2 DEF MustCompact
<1> HIDE DEF n, to
<1>4. IsArray(content) /\ Len(content) = Cap(h)
  BY <1>1, CopiedArray DEF Cap
<1> HIDE DEF content
<1>5. /\ array \in [Handles -> Arrays] /\ heap = [a \in Arrays |-> heap[a]]
      /\ \A g \in Handles : IsArray(heap[array[g]])
  BY DEF IInv, HeapOK
<1>6. \A g \in Handles : heap'[array'[g]] = IF array[g] = array[h] THEN content ELSE heap[array[g]]
  BY <1>2, <1>5
<1>7. HeapOK'
  BY <1>2, <1>4, <1>5, <1>6 DEF HeapOK
<1>8. \A g \in Handles : Cap(g)' = Cap(g)
  BY <1>4, <1>6 DEF Cap
<1>9. to + n <= Cap(h)'
  BY <1>3, <1>8
<1> QED
  BY <1>1, <1>2, <1>3, <1>7, <1>8, <1>9, Others

\* Both clear and remove end with it, an emptied queue in their hands.
LEMMA ReleaseIInv ==
  ASSUME IInv, NEW h \in Handles, NEW off \in Nat, off <= Cap(h), Release(h, off),
         length' = [length EXCEPT ![h] = 0]
  PROVE  IInv'
<1>1. CASE Cap(h) > Big
  <2>1. Allocate(h, New(Initial)) /\ offset' = [offset EXCEPT ![h] = 0]
    BY <1>1 DEF Release
  <2>2. IsArray(New(Initial)) /\ Len(New(Initial)) = Initial /\ Initial \in Nat
    BY NewArray, QueueAssumption
  <2>3. /\ HeapOK' /\ heap'[array'[h]] = New(Initial)
        /\ \A g \in Handles \ {h} : heap'[array'[g]] = heap[array[g]]
    BY <2>1, <2>2, Allocated DEF IInv
  <2>4. Cap(h)' = Initial /\ \A g \in Handles \ {h} : Cap(g)' = Cap(g)
    BY <2>2, <2>3 DEF Cap
  <2>5. 0 + 0 <= Cap(h)'
    BY <2>2, <2>4
  <2> QED
    BY <2>1, <2>3, <2>4, <2>5, Others
<1>2. CASE ~(Cap(h) > Big)
  <2>1. heap' = heap /\ array' = array /\ offset' = [offset EXCEPT ![h] = off]
    BY <1>2 DEF Release
  <2>2. HeapOK' /\ \A g \in Handles : Cap(g)' = Cap(g)
    BY <2>1 DEF IInv, HeapOK, Cap
  <2>3. off + 0 <= Cap(h)'
    BY <2>2
  <2> QED
    BY <2>1, <2>2, <2>3, Others
<1> QED
  BY <1>1, <1>2

LEMMA RemoveIInv ==
  ASSUME IInv, NEW h \in Handles, NEW n \in Nat, Remove(h, n)
  PROVE  IInv'
<1>1. /\ length[h] \in Nat /\ offset[h] \in Nat /\ Cap(h) \in Nat /\ n <= length[h]
      /\ offset[h] + length[h] <= Cap(h) /\ length' = [length EXCEPT ![h] = length[h] - n]
  BY CapType DEF Remove, IInv, InBounds
<1>2. CASE n = length[h]
  <2>1. offset[h] + n \in Nat /\ offset[h] + n <= Cap(h) /\ length[h] - n = 0
    BY <1>1, <1>2
  <2>2. Release(h, offset[h] + n)
    BY <1>2 DEF Remove
  <2> QED
    BY <1>1, <2>1, <2>2, ReleaseIInv
<1>3. CASE n # length[h]
  <2>1. heap' = heap /\ array' = array /\ offset' = [offset EXCEPT ![h] = offset[h] + n]
    BY <1>3 DEF Remove
  <2>2. HeapOK' /\ \A g \in Handles : Cap(g)' = Cap(g)
    BY <2>1 DEF IInv, HeapOK, Cap
  <2>3. /\ offset[h] + n \in Nat /\ length[h] - n \in Nat
        /\ (offset[h] + n) + (length[h] - n) <= Cap(h)'
    BY <1>1, <2>2
  <2> QED
    BY <1>1, <2>1, <2>2, <2>3, Others
<1> QED
  BY <1>2, <1>3

LEMMA CloneIInv ==
  ASSUME IInv, NEW h \in Handles, NEW g \in Handles, Clone(h, g)
  PROVE  IInv'
<1>1. /\ array \in [Handles -> Arrays] /\ heap = [a \in Arrays |-> heap[a]]
      /\ \A f \in Handles : IsArray(heap[array[f]])
      /\ offset \in [Handles -> Nat] /\ length \in [Handles -> Nat]
  BY DEF IInv, HeapOK
<1>2. array' = [array EXCEPT ![g] = array[h]]
  BY DEF Clone
<1>3. array' \in [Handles -> Arrays] /\ heap' = [a \in Arrays |-> heap'[a]]
  BY <1>1, <1>2 DEF Clone, Collected
<1>4. \A f \in Handles : heap'[array'[f]] = heap[array'[f]]
  BY <1>3 DEF Clone, Collected
<1>5. HeapOK'
  BY <1>1, <1>2, <1>3, <1>4 DEF HeapOK
<1>6. /\ \A f \in Handles \ {g} : Cap(f)' = Cap(f) /\ offset'[f] = offset[f] /\ length'[f] = length[f]
      /\ Cap(g)' = Cap(h) /\ offset'[g] = offset[h] /\ length'[g] = length[h]
  BY <1>1, <1>2, <1>4 DEF Clone, Cap
<1>7. offset' \in [Handles -> Nat] /\ length' \in [Handles -> Nat]
  BY <1>1 DEF Clone
<1>8. InBounds'
  <2>1. ASSUME NEW f \in Handles PROVE offset'[f] + length'[f] <= Cap(f)'
    BY <1>6 DEF IInv, InBounds
  <2> QED
    BY <1>7, <2>1 DEF InBounds
<1> QED
  BY <1>5, <1>7, <1>8 DEF IInv

LEMMA NextIInv == IInv /\ [QueueNext]_baq => IInv'
<1> SUFFICES ASSUME IInv, [QueueNext]_baq PROVE IInv'
  OBVIOUS
<1>1. ASSUME NEW h \in Handles, NEW k \in 0..2, NEW b \in [1..k -> Byte], Add(h, b)
      PROVE  IInv'
  <2>1. Len(b) \in Nat
    <3>1. b = [i \in 1..k |-> b[i]] /\ k \in Nat
      OBVIOUS
    <3> QED
      BY <3>1, LenIs
  <2> QED
    BY <1>1, <2>1, AddGrowsIInv, AddInPlaceIInv DEF Add
<1>2. ASSUME NEW h \in Handles, NEW n \in 0..MaxCap, SetCapacity(h, n)
      PROVE  IInv'
  BY <1>2, SetCapacityIInv
<1>3. ASSUME NEW h \in Handles, NEW n \in 0..MaxCap, Remove(h, n)
      PROVE  IInv'
  BY <1>3, RemoveIInv
<1>4. ASSUME NEW h \in Handles, NEW n \in 0..MaxCap, Read(h, n)
      PROVE  IInv'
  <2>1. MinOf(n, length[h]) \in Nat
    BY DEF MinOf, IInv
  <2>2. CASE length[h] = 0
    BY <1>4, <2>2 DEF Read, IInv, HeapOK, InBounds, Cap
  <2>3. CASE length[h] # 0
    BY <1>4, <2>1, <2>3, RemoveIInv DEF Read
  <2> QED
    BY <2>2, <2>3
<1>5. ASSUME NEW h \in Handles, Clear(h) PROVE IInv'
  <2>1. 0 <= Cap(h)
    BY CapType
  <2> QED
    BY <1>5, <2>1, ReleaseIInv DEF Clear
<1>6. ASSUME NEW h \in Handles, NEW g \in Handles \ {h}, Clone(h, g) PROVE IInv'
  BY <1>6, CloneIInv
<1>7. CASE UNCHANGED baq
  BY <1>7 DEF baq, IInv, HeapOK, InBounds, Cap
<1> QED
  BY <1>1, <1>2, <1>3, <1>4, <1>5, <1>6, <1>7 DEF QueueNext

\* The part of its array a handle uses lies within the array, through every
\* growth, compaction, release and clone, whatever the capacities are: add,
\* remove and setCapacity never copy beyond the end of an array.
THEOREM NeverOutOfBounds == QueueSpec => []InBounds
<1>1. IInv => InBounds
  BY DEF IInv
<1> QED
  BY <1>1, InitIInv, NextIInv, PTL DEF QueueSpec

-----------------------------------------------------------------------------
(* The queue is a first-in first-out queue: what each step of it does to    *)
(* Contents, which is all that ByteFifo sees of a handle.                   *)

LEMMA EmptyIs ==
  ASSUME NEW f, f = [i \in 1..0 |-> f[i]]
  PROVE  f = <<>>
<1>1. Len(f) = 0 /\ f \in Seq({f[i] : i \in 1..0})
  <2>1. f \in [1..0 -> {f[i] : i \in 1..0}]
    OBVIOUS
  <2>2. f \in Seq({f[i] : i \in 1..0})
    BY <2>1, SeqDef
  <2> QED
    BY <2>2, LenIs
<1> QED
  BY <1>1, EmptySeq

LEMMA ConcatIs ==
  ASSUME NEW f, NEW g, IsArray(f), IsArray(g)
  PROVE  f \o g = [i \in 1..(Len(f) + Len(g)) |-> IF i <= Len(f) THEN f[i] ELSE g[i - Len(f)]]
<1> DEFINE S == {f[i] : i \in 1..Len(f)} \cup {g[i] : i \in 1..Len(g)}
<1>1. f \in [1..Len(f) -> S] /\ g \in [1..Len(g) -> S] /\ Len(f) \in Nat /\ Len(g) \in Nat
  BY DEF IsArray
<1>2. f \in Seq(S) /\ g \in Seq(S)
  BY <1>1, SeqDef
<1> HIDE DEF S
<1>3. /\ f \o g \in Seq(S) /\ Len(f \o g) = Len(f) + Len(g)
      /\ \A i \in 1..(Len(f) + Len(g)) : (f \o g)[i] = IF i <= Len(f) THEN f[i] ELSE g[i - Len(f)]
  BY <1>2, ConcatProperties
<1>4. f \o g \in [1..(Len(f) + Len(g)) -> S]
  BY <1>3, LenProperties
<1>5. f \o g = [i \in 1..(Len(f) + Len(g)) |-> (f \o g)[i]]
  BY <1>4
<1> QED
  BY <1>3, <1>5

LEMMA SubSeqIs ==
  ASSUME NEW f, IsArray(f), NEW n \in 0..Len(f)
  PROVE  /\ SubSeq(f, 1, n) = [i \in 1..n |-> f[i]]
         /\ SubSeq(f, n + 1, Len(f)) = [i \in 1..(Len(f) - n) |-> f[n + i]]
<1> DEFINE S == {f[i] : i \in 1..Len(f)}
           front == SubSeq(f, 1, n)
           rest == SubSeq(f, n + 1, Len(f))
<1>1. n \in Nat /\ Len(f) \in Nat /\ Len(f) - n \in Nat /\ \A i \in 1..Len(f) : f[i] \in S
  BY DEF IsArray
<1> HIDE DEF S
<1>2. front \in Seq(S) /\ Len(front) = n /\ \A i \in 1..n : front[i] = f[i]
  <2>1. \A i \in 1..n : f[i] \in S
    BY <1>1
  <2>2. /\ SubSeq(f, 1, n) \in Seq(S)
        /\ Len(SubSeq(f, 1, n)) = IF 1 <= n THEN n - 1 + 1 ELSE 0
        /\ \A i \in 1..(n - 1 + 1) : SubSeq(f, 1, n)[i] = f[1 + i - 1]
    BY <1>1, <2>1, SubSeqProperties
  <2> HIDE DEF front
  <2>3. \A i \in 1..n : i \in 1..(n - 1 + 1) /\ 1 + i - 1 = i
    BY <1>1
  <2>4. \A i \in 1..n : SubSeq(f, 1, n)[i] = f[i]
    BY <2>2, <2>3
  <2>5. (IF 1 <= n THEN n - 1 + 1 ELSE 0) = n
    BY <1>1
  <2> QED
    BY <2>2, <2>4, <2>5 DEF front
<1>3. rest \in Seq(S) /\ Len(rest) = Len(f) - n /\ \A i \in 1..(Len(f) - n) : rest[i] = f[n + i]
  <2>1. \A i \in (n + 1)..Len(f) : f[i] \in S
    BY <1>1
  <2>2. /\ rest \in Seq(S)
        /\ Len(rest) = IF n + 1 <= Len(f) THEN Len(f) - (n + 1) + 1 ELSE 0
        /\ \A i \in 1..(Len(f) - (n + 1) + 1) : rest[i] = f[(n + 1) + i - 1]
    BY <1>1, <2>1, SubSeqProperties
  <2> HIDE DEF rest
  <2>3. \A i \in 1..(Len(f) - n) : i \in 1..(Len(f) - (n + 1) + 1) /\ (n + 1) + i - 1 = n + i
    BY <1>1
  <2>4. \A i \in 1..(Len(f) - n) : rest[i] = f[n + i]
    BY <2>2, <2>3
  <2>5. (IF n + 1 <= Len(f) THEN Len(f) - (n + 1) + 1 ELSE 0) = Len(f) - n
    BY <1>1
  <2> QED
    BY <2>2, <2>4, <2>5
<1> HIDE DEF front, rest
<1>4. front = [i \in 1..n |-> front[i]] /\ rest = [i \in 1..(Len(f) - n) |-> rest[i]]
  BY <1>2, <1>3, LenProperties
<1>5. front = [i \in 1..n |-> f[i]] /\ rest = [i \in 1..(Len(f) - n) |-> f[n + i]]
  BY <1>2, <1>3, <1>4
<1> QED
  BY <1>5 DEF front, rest

-----------------------------------------------------------------------------

At(h, i) == heap[array[h]][offset[h] + i]

LEMMA ContentsAre ==
  ASSUME IInv, NEW h \in Handles
  PROVE  /\ Contents[h] = [i \in 1..length[h] |-> At(h, i)]
         /\ Len(Contents[h]) = length[h] /\ length[h] \in Nat /\ IsArray(Contents[h])
<1>1. Contents[h] = [i \in 1..length[h] |-> At(h, i)] /\ length[h] \in Nat
  BY DEF Contents, At, IInv
<1>2. Contents[h] = [i \in 1..length[h] |-> Contents[h][i]]
  BY <1>1
<1> QED
  BY <1>1, <1>2, LenIs

LEMMA SameContents ==
  ASSUME NEW g \in Handles, length'[g] = length[g], offset'[g] = offset[g],
         heap'[array'[g]] = heap[array[g]]
  PROVE  Contents'[g] = Contents[g]
BY DEF Contents

LEMMA ContentsSet ==
  ASSUME NEW h \in Handles, NEW c, Contents'[h] = c,
         \A g \in Handles \ {h} : Contents'[g] = Contents[g]
  PROVE  Contents' = [Contents EXCEPT ![h] = c]
<1>1. Contents' = [g \in Handles |-> Contents'[g]] /\ Contents = [g \in Handles |-> Contents[g]]
  BY DEF Contents
<1> QED
  BY <1>1

LEMMA CopyAt ==
  ASSUME NEW src, NEW so, NEW dst, NEW do, NEW n, IsArray(dst), NEW i \in 1..Len(dst)
  PROVE  ArrayCopy(src, so, dst, do, n)[i] = IF i - do \in 1..n THEN src[so + i - do] ELSE dst[i]
<1>1. DOMAIN dst = 1..Len(dst)
  BY DEF IsArray
<1> QED
  BY <1>1 DEF ArrayCopy

LEMMA ResizedAt ==
  ASSUME IInv, NEW h \in Handles, NEW cap \in Nat, NEW i \in 1..length[h]
  PROVE  Resized(h, cap)[i] = At(h, i)
<1>1. length[h] \in Nat /\ offset[h] \in Nat /\ MaxOf(cap, length[h]) \in Nat
  BY DEF IInv, MaxOf
<1> DEFINE m == MaxOf(cap, length[h])
<1>2. IsArray(New(m)) /\ Len(New(m)) = m
  BY <1>1, NewArray
<1>3. i \in 1..Len(New(m)) /\ i - 0 \in 1..length[h] /\ offset[h] + i - 0 = offset[h] + i
  BY <1>1, <1>2 DEF MaxOf
<1> HIDE DEF m
<1>4. ArrayCopy(heap[array[h]], offset[h], New(m), 0, length[h])[i]
        = IF i - 0 \in 1..length[h] THEN heap[array[h]][offset[h] + i - 0] ELSE New(m)[i]
  BY <1>2, <1>3, CopyAt
<1>5. ArrayCopy(heap[array[h]], offset[h], New(m), 0, length[h])[i] = heap[array[h]][offset[h] + i]
  BY <1>3, <1>4
<1> QED
  BY <1>5 DEF Resized, At, m

\* Once the bytes of h are followed by those of b in its array, it is a Put.
LEMMA Puts ==
  ASSUME IInv, IInv', NEW h \in Handles, NEW b, IsArray(b),
         io' = [op |-> "add", b |-> b],
         length' = [length EXCEPT ![h] = length[h] + Len(b)],
         \A i \in 1..(length[h] + Len(b)) :
           At(h, i)' = IF i <= length[h] THEN At(h, i) ELSE b[i - length[h]],
         \A g \in Handles \ {h} :
           h \notin Sharing \/ g \notin Sharing => Contents'[g] = Contents[g]
  PROVE  Fifo!Put(h)
<1>1. /\ Contents[h] = [i \in 1..length[h] |-> At(h, i)]
      /\ Len(Contents[h]) = length[h] /\ length[h] \in Nat /\ IsArray(Contents[h])
  BY ContentsAre
<1>2. /\ Contents'[h] = [i \in 1..length'[h] |-> At(h, i)'] /\ length'[h] = length[h] + Len(b)
      /\ \A g \in Handles : Len(Contents'[g]) = length'[g] /\ Len(Contents[g]) = length[g]
  <2>1. \A g \in Handles : Contents'[g] = [i \in 1..length'[g] |-> At(g, i)']
    BY DEF Contents, At
  <2>2. \A g \in Handles : length'[g] \in Nat
    BY DEF IInv
  <2>3. \A g \in Handles : Contents'[g] = [i \in 1..length'[g] |-> Contents'[g][i]]
    BY <2>1
  <2>4. \A g \in Handles : Len(Contents'[g]) = length'[g]
    BY <2>2, <2>3, LenIs
  <2>5. length'[h] = length[h] + Len(b)
    BY DEF IInv
  <2> QED
    BY <2>1, <2>4, <2>5, ContentsAre
<1>3. Contents[h] \o b = [i \in 1..(length[h] + Len(b)) |->
                            IF i <= length[h] THEN Contents[h][i] ELSE b[i - length[h]]]
  BY <1>1, ConcatIs
<1>4. \A i \in 1..(length[h] + Len(b)) :
        At(h, i)' = IF i <= length[h] THEN Contents[h][i] ELSE b[i - length[h]]
  <2>1. \A i \in 1..(length[h] + Len(b)) : i <= length[h] => i \in 1..length[h]
    BY <1>1
  <2>2. \A i \in 1..length[h] : Contents[h][i] = At(h, i)
    BY <1>1
  <2> QED
    BY <2>1, <2>2
<1>5. Contents'[h] = Contents[h] \o b
  BY <1>2, <1>3, <1>4
<1>6. \A g \in Handles \ {h} : Len(Contents'[g]) = Len(Contents[g])
  BY <1>2 DEF IInv
<1>7. io'.op = "add" /\ io'.b = b
  OBVIOUS
<1> QED
  BY <1>5, <1>6, <1>7 DEF Fifo!Put, Fifo!OthersKeep

LEMMA AddGrowsPuts ==
  ASSUME IInv, IInv', NEW h \in Handles, NEW b, IsArray(b), AddGrows(h, b)
  PROVE  Fifo!Put(h)
<1> DEFINE n == length[h] + Len(b)
           cap == MaxOf(Cap(h) * 2, n)
           grown == Resized(h, cap)
           content == ArrayCopy(b, 0, grown, length[h], Len(b))
<1>1. length[h] \in Nat /\ Len(b) \in Nat /\ n \in Nat /\ Cap(h) \in Nat
  BY CapType DEF IInv, IsArray
<1>2. cap \in Nat /\ cap >= n
  BY <1>1 DEF MaxOf
<1>3. /\ Allocate(h, content) /\ offset' = [offset EXCEPT ![h] = 0]
      /\ length' = [length EXCEPT ![h] = n] /\ io' = [op |-> "add", b |-> b]
  BY DEF AddGrows
<1> HIDE DEF cap
<1>4. IsArray(grown) /\ Len(grown) >= n /\ Len(grown) \in Nat
  BY <1>1, <1>2, ResizedArray DEF MaxOf
<1>5. \A i \in 1..length[h] : grown[i] = At(h, i)
  BY <1>2, ResizedAt
<1> HIDE DEF grown
<1>6. ASSUME NEW i \in 1..n
      PROVE  content[i] = IF i <= length[h] THEN At(h, i) ELSE b[i - length[h]]
  <2>1. i \in 1..Len(grown) /\ (i - length[h] \in 1..Len(b) <=> ~(i <= length[h]))
        /\ 0 + i - length[h] = i - length[h] /\ (i <= length[h] => i \in 1..length[h])
    BY <1>1, <1>4
  <2>2. content[i] = IF i - length[h] \in 1..Len(b) THEN b[0 + i - length[h]] ELSE grown[i]
    BY <1>4, <2>1, CopyAt
  <2> HIDE DEF content
  <2> QED
    BY <1>5, <2>1, <2>2
<1>7. IsArray(content)
  BY <1>4, CopiedArray
<1> HIDE DEF content
<1>8. heap'[array'[h]] = content /\ \A g \in Handles \ {h} : heap'[array'[g]] = heap[array[g]]
  BY <1>3, <1>7, Allocated DEF IInv
<1>9. \A i \in 1..n : At(h, i)' = content[i]
  <2>1. offset'[h] = 0 /\ \A i \in 1..n : 0 + i = i
    BY <1>1, <1>3 DEF IInv
  <2> QED
    BY <1>8, <2>1 DEF At
<1>10. \A g \in Handles \ {h} : Contents'[g] = Contents[g]
  <2>1. \A g \in Handles \ {h} : length'[g] = length[g] /\ offset'[g] = offset[g]
    BY <1>3 DEF IInv
  <2> QED
    BY <1>8, <2>1, SameContents
<1>11. \A i \in 1..(length[h] + Len(b)) :
         At(h, i)' = IF i <= length[h] THEN At(h, i) ELSE b[i - length[h]]
  BY <1>6, <1>9
<1> QED
  BY <1>3, <1>10, <1>11, Puts

LEMMA AddInPlacePuts ==
  ASSUME IInv, IInv', NEW h \in Handles, NEW b, IsArray(b), AddInPlace(h, b)
  PROVE  Fifo!Put(h)
<1> DEFINE n == length[h] + Len(b)
           old == heap[array[h]]
           to == IF MustCompact(h, n) THEN 0 ELSE offset[h]
           moved == ArrayCopy(old, offset[h], old, to, length[h])
           content == ArrayCopy(b, 0, moved, to + length[h], Len(b))
<1>1. length[h] \in Nat /\ offset[h] \in Nat /\ Len(b) \in Nat /\ n \in Nat /\ Cap(h) \in Nat
  BY CapType DEF IInv, IsArray
<1>2. IsArray(old) /\ Len(old) = Cap(h)
  BY DEF IInv, HeapOK, Cap
<1>3. /\ n <= Cap(h) /\ heap' = [heap EXCEPT ![array[h]] = content] /\ array' = array
      /\ offset' = [offset EXCEPT ![h] = to] /\ length' = [length EXCEPT ![h] = n]
      /\ io' = [op |-> "add", b |-> b]
  BY DEF AddInPlace
<1>4. to \in Nat /\ to + n <= Cap(h)
  BY <1>1, <1>3 DEF MustCompact
<1> HIDE DEF to
<1>5. IsArray(moved) /\ Len(moved) = Cap(h)
  BY <1>2, CopiedArray
<1>6. ASSUME NEW i \in 1..length[h] PROVE moved[to + i] = At(h, i)
  <2>1. /\ to + i \in 1..Len(old) /\ (to + i) - to \in 1..length[h]
        /\ offset[h] + (to + i) - to = offset[h] + i
    BY <1>1, <1>2, <1>4
  <2>2. moved[to + i] = IF (to + i) - to \in 1..length[h]
                        THEN old[offset[h] + (to + i) - to] ELSE old[to + i]
    BY <1>2, <2>1, CopyAt
  <2> HIDE DEF moved
  <2> QED
    BY <2>1, <2>2 DEF At
<1> HIDE DEF moved
<1>7. ASSUME NEW i \in 1..n
      PROVE  content[to + i] = IF i <= length[h] THEN At(h, i) ELSE b[i - length[h]]
  <2>1. /\ to + i \in 1..Len(moved)
        /\ (to + i) - (to + length[h]) \in 1..Len(b) <=> ~(i <= length[h])
        /\ 0 + (to + i) - (to + length[h]) = i - length[h] /\ (i <= length[h] => i \in 1..length[h])
    BY <1>1, <1>4, <1>5
  <2>2. content[to + i] = IF (to + i) - (to + length[h]) \in 1..Len(b)
                          THEN b[0 + (to + i) - (to + length[h])] ELSE moved[to + i]
    BY <1>5, <2>1, CopyAt
  <2> HIDE DEF content
  <2> QED
    BY <1>6, <2>1, <2>2
<1> HIDE DEF content
<1>8. array[h] \in Arrays /\ heap'[array[h]] = content
  BY <1>3 DEF IInv, HeapOK
<1>9. \A i \in 1..n : At(h, i)' = content[to + i]
  <2>1. offset'[h] = to
    BY <1>3 DEF IInv
  <2> QED
    BY <1>3, <1>8, <2>1 DEF At
<1>10. ASSUME NEW g \in Handles \ {h}, h \notin Sharing \/ g \notin Sharing
       PROVE  Contents'[g] = Contents[g]
  <2>1. array[g] # array[h]
    BY <1>10 DEF Sharing
  <2>2. heap'[array'[g]] = heap[array[g]]
    BY <1>3, <2>1 DEF IInv, HeapOK
  <2>3. length'[g] = length[g] /\ offset'[g] = offset[g]
    BY <1>3 DEF IInv
  <2> QED
    BY <2>2, <2>3, SameContents
<1>11. \A i \in 1..(length[h] + Len(b)) :
         At(h, i)' = IF i <= length[h] THEN At(h, i) ELSE b[i - length[h]]
  BY <1>7, <1>9
<1> QED
  BY <1>3, <1>10, <1>11, Puts

LEMMA SetCapacityKeeps ==
  ASSUME IInv, NEW h \in Handles, NEW cap \in Nat, SetCapacity(h, cap)
  PROVE  Fifo!Keep
<1> DEFINE content == Resized(h, cap)
<1>1. /\ Allocate(h, content) /\ offset' = [offset EXCEPT ![h] = 0]
      /\ length' = length /\ io' = Silent
  BY DEF SetCapacity
<1>2. IsArray(content) /\ \A i \in 1..length[h] : content[i] = At(h, i)
  BY ResizedArray, ResizedAt
<1> HIDE DEF content
<1>3. heap'[array'[h]] = content /\ \A g \in Handles \ {h} : heap'[array'[g]] = heap[array[g]]
  BY <1>1, <1>2, Allocated DEF IInv
<1>4. ASSUME NEW g \in Handles \ {h} PROVE Contents'[g] = Contents[g]
  <2>1. offset'[g] = offset[g] /\ length'[g] = length[g]
    BY <1>1 DEF IInv
  <2> QED
    BY <1>3, <2>1, SameContents
<1>5. Contents'[h] = Contents[h]
  <2>1. offset'[h] = 0 /\ length'[h] = length[h] /\ length[h] \in Nat
    BY <1>1 DEF IInv
  <2>2. \A i \in 1..length[h] : 0 + i = i
    BY <2>1
  <2>3. Contents'[h] = [i \in 1..length[h] |-> content[0 + i]]
    BY <1>3, <2>1 DEF Contents
  <2>4. \A i \in 1..length[h] : content[0 + i] = At(h, i)
    BY <1>2, <2>2
  <2>5. Contents[h] = [i \in 1..length[h] |-> At(h, i)]
    BY ContentsAre
  <2> QED
    BY <2>3, <2>4, <2>5
<1>6. Contents' = Contents
  BY <1>4, <1>5 DEF Contents
<1> QED
  BY <1>1, <1>6 DEF Fifo!Keep, Fifo!Silent, Silent

\* Release touches no other handle, and leaves an emptied one empty.
LEMMA ReleaseEmpties ==
  ASSUME IInv, NEW h \in Handles, NEW off \in Nat, Release(h, off),
         length' = [length EXCEPT ![h] = 0]
  PROVE  Contents' = [Contents EXCEPT ![h] = <<>>]
<1>1. ASSUME NEW g \in Handles \ {h}
      PROVE  heap'[array'[g]] = heap[array[g]] /\ offset'[g] = offset[g] /\ length'[g] = length[g]
  <2>1. length'[g] = length[g]
    BY DEF IInv
  <2>2. CASE Cap(h) > Big
    <3>1. Allocate(h, New(Initial)) /\ offset' = [offset EXCEPT ![h] = 0]
      BY <2>2 DEF Release
    <3>2. IsArray(New(Initial))
      BY NewArray, QueueAssumption
    <3>3. heap'[array'[g]] = heap[array[g]]
      BY <3>1, <3>2, Allocated DEF IInv
    <3> QED
      BY <2>1, <3>1, <3>3 DEF IInv
  <2>3. CASE ~(Cap(h) > Big)
    BY <2>1, <2>3 DEF Release, IInv
  <2> QED
    BY <2>2, <2>3
<1>2. \A g \in Handles \ {h} : Contents'[g] = Contents[g]
  BY <1>1, SameContents
<1>3. Contents'[h] = <<>>
  <2>1. length'[h] = 0
    BY DEF IInv
  <2>2. Contents'[h] = [i \in 1..0 |-> Contents'[h][i]]
    BY <2>1 DEF Contents
  <2> QED
    BY <2>2, EmptyIs
<1> QED
  BY <1>2, <1>3, ContentsSet

LEMMA RemoveGets ==
  ASSUME IInv, NEW h \in Handles, NEW n \in Nat, Remove(h, n)
  PROVE  Fifo!Get(h)
<1> DEFINE c == Contents[h]
<1>1. c = [i \in 1..length[h] |-> At(h, i)] /\ Len(c) = length[h] /\ length[h] \in Nat /\ IsArray(c)
  BY ContentsAre
<1>2. /\ n \in 0..Len(c) /\ io' = [op |-> "get", b |-> [i \in 1..n |-> At(h, i)]]
      /\ length' = [length EXCEPT ![h] = length[h] - n]
  BY <1>1 DEF Remove, At
<1> HIDE DEF c
<1>3. /\ SubSeq(c, 1, n) = [i \in 1..n |-> c[i]]
      /\ SubSeq(c, n + 1, Len(c)) = [i \in 1..(Len(c) - n) |-> c[n + i]]
  BY <1>1, <1>2, SubSeqIs
<1>4. io' = [op |-> "get", b |-> SubSeq(c, 1, n)]
  <2>1. \A i \in 1..n : c[i] = At(h, i)
    BY <1>1, <1>2
  <2>2. SubSeq(c, 1, n) = [i \in 1..n |-> At(h, i)]
    BY <1>3, <2>1
  <2> QED
    BY <1>2, <2>2
<1>5. Contents' = [Contents EXCEPT ![h] = SubSeq(c, n + 1, Len(c))]
  <2>1. CASE n = length[h]
    <3>1. Release(h, offset[h] + n) /\ offset[h] + n \in Nat
      BY <2>1 DEF Remove, IInv
    <3>2. length' = [length EXCEPT ![h] = 0]
      <4>1. length[h] - n = 0
        BY <1>1, <2>1
      <4> QED
        BY <1>2, <4>1
    <3>3. Contents' = [Contents EXCEPT ![h] = <<>>]
      BY <3>1, <3>2, ReleaseEmpties
    <3>4. SubSeq(c, n + 1, Len(c)) = <<>>
      BY <1>1, <1>2, <2>1, SubSeqEmpty
    <3> QED
      BY <3>3, <3>4
  <2>2. CASE n # length[h]
    <3>1. heap' = heap /\ array' = array /\ offset' = [offset EXCEPT ![h] = offset[h] + n]
      BY <2>2 DEF Remove
    <3>2. \A g \in Handles \ {h} : Contents'[g] = Contents[g]
      <4>1. \A g \in Handles \ {h} : length'[g] = length[g] /\ offset'[g] = offset[g]
        BY <1>2, <3>1 DEF IInv
      <4> QED
        BY <3>1, <4>1, SameContents
    <3>3. Contents'[h] = SubSeq(c, n + 1, Len(c))
      <4>1. length'[h] = Len(c) - n /\ offset'[h] = offset[h] + n /\ offset[h] \in Nat
        BY <1>1, <1>2, <3>1 DEF IInv
      <4>2. Contents'[h] = [i \in 1..(Len(c) - n) |-> heap[array[h]][(offset[h] + n) + i]]
        BY <3>1, <4>1 DEF Contents
      <4>3. \A i \in 1..(Len(c) - n) :
              n + i \in 1..length[h] /\ (offset[h] + n) + i = offset[h] + (n + i)
        BY <1>1, <1>2, <4>1
      <4>4. \A i \in 1..(Len(c) - n) : c[n + i] = heap[array[h]][(offset[h] + n) + i]
        BY <1>1, <4>3 DEF At
      <4> QED
        BY <1>3, <4>2, <4>4
    <3> QED
      BY <3>2, <3>3, ContentsSet
  <2> QED
    BY <2>1, <2>2
<1> QED
  BY <1>2, <1>4, <1>5 DEF Fifo!Get, c

LEMMA ReadGets ==
  ASSUME IInv, NEW h \in Handles, NEW n \in Nat, Read(h, n)
  PROVE  Fifo!Get(h)
<1>1. CASE length[h] = 0
  <2>1. Contents[h] = <<>> /\ Len(Contents[h]) = 0
    <3>1. Contents[h] = [i \in 1..0 |-> Contents[h][i]]
      BY <1>1 DEF Contents
    <3> QED
      BY <1>1, <3>1, EmptyIs, ContentsAre
  <2>2. io' = [op |-> "get", b |-> <<>>] /\ Contents' = Contents
    BY <1>1 DEF Read, Contents
  <2>3. SubSeq(Contents[h], 1, 0) = <<>> /\ SubSeq(Contents[h], 0 + 1, Len(Contents[h])) = <<>>
    BY <2>1, SubSeqEmpty
  <2>4. Contents' = [Contents EXCEPT ![h] = SubSeq(Contents[h], 0 + 1, Len(Contents[h]))]
    BY <2>1, <2>2, <2>3 DEF Contents
  <2>5. 0 \in 0..Len(Contents[h])
    BY <2>1
  <2> QED
    BY <2>2, <2>3, <2>4, <2>5 DEF Fifo!Get
<1>2. CASE length[h] # 0
  <2>1. MinOf(n, length[h]) \in Nat
    BY DEF MinOf, IInv
  <2> QED
    BY <1>2, <2>1, RemoveGets DEF Read
<1> QED
  BY <1>1, <1>2

LEMMA CloneShares ==
  ASSUME IInv, NEW h \in Handles, NEW g \in Handles, Clone(h, g)
  PROVE  Fifo!Share(h, g)
<1>1. /\ array' \in [Handles -> Arrays]
      /\ array' = [array EXCEPT ![g] = array[h]] /\ offset' = [offset EXCEPT ![g] = offset[h]]
      /\ length' = [length EXCEPT ![g] = length[h]] /\ io' = Silent
  BY DEF Clone, IInv, HeapOK
<1>2. \A f \in Handles : heap'[array'[f]] = heap[array'[f]]
  BY <1>1 DEF Clone, Collected
<1>3. Contents'[g] = Contents[h]
  <2>1. array'[g] = array[h] /\ offset'[g] = offset[h] /\ length'[g] = length[h]
    BY <1>1 DEF IInv, HeapOK
  <2> QED
    BY <1>2, <2>1 DEF Contents
<1>4. ASSUME NEW f \in Handles \ {g} PROVE Contents'[f] = Contents[f]
  <2>1. array'[f] = array[f] /\ offset'[f] = offset[f] /\ length'[f] = length[f]
    BY <1>1 DEF IInv, HeapOK
  <2> QED
    BY <1>2, <2>1, SameContents
<1> QED
  BY <1>1, <1>3, <1>4, ContentsSet DEF Fifo!Share, Fifo!Silent, Silent

LEMMA NextFifo == IInv /\ IInv' /\ [QueueNext]_baq => [Fifo!FifoNext]_Fifo!fifo
<1> SUFFICES ASSUME IInv, IInv', [QueueNext]_baq PROVE [Fifo!FifoNext]_Fifo!fifo
  OBVIOUS
<1>1. ASSUME NEW h \in Handles, NEW k \in 0..2, NEW b \in [1..k -> Byte], Add(h, b)
      PROVE  Fifo!FifoNext
  <2>1. IsArray(b)
    <3>1. b = [i \in 1..k |-> b[i]] /\ k \in Nat
      OBVIOUS
    <3> QED
      BY <3>1, LenIs
  <2>2. Fifo!Put(h)
    BY <1>1, <2>1, AddGrowsPuts, AddInPlacePuts DEF Add
  <2> QED
    BY <2>2 DEF Fifo!FifoNext
<1>2. ASSUME NEW h \in Handles, NEW n \in 0..MaxCap, SetCapacity(h, n)
      PROVE  Fifo!FifoNext
  BY <1>2, SetCapacityKeeps DEF Fifo!FifoNext
<1>3. ASSUME NEW h \in Handles, NEW n \in 0..MaxCap, Remove(h, n) \/ Read(h, n)
      PROVE  Fifo!FifoNext
  BY <1>3, RemoveGets, ReadGets DEF Fifo!FifoNext
<1>4. ASSUME NEW h \in Handles, Clear(h) PROVE Fifo!FifoNext
  <2>1. Contents' = [Contents EXCEPT ![h] = <<>>] /\ io' = Silent
    BY <1>4, ReleaseEmpties DEF Clear
  <2> QED
    BY <2>1 DEF Fifo!FifoNext, Fifo!Empty, Fifo!Silent, Silent
<1>5. ASSUME NEW h \in Handles, NEW g \in Handles \ {h}, Clone(h, g) PROVE Fifo!FifoNext
  BY <1>5, CloneShares DEF Fifo!FifoNext
<1>6. CASE UNCHANGED baq
  BY <1>6 DEF baq, Fifo!fifo, Contents, Sharing
<1> QED
  BY <1>1, <1>2, <1>3, <1>4, <1>5, <1>6 DEF QueueNext

LEMMA InitFifo == QueueInit => Fifo!FifoInit
<1> SUFFICES ASSUME QueueInit PROVE Fifo!FifoInit
  OBVIOUS
<1>1. Contents = [h \in Handles |-> <<>>]
  <2>1. ASSUME NEW h \in Handles PROVE Contents[h] = <<>>
    <3>1. Contents[h] = [i \in 1..0 |-> Contents[h][i]]
      BY DEF Contents, QueueInit
    <3> QED
      BY <3>1, EmptyIs
  <2> QED
    BY <2>1 DEF Contents
<1>2. Sharing = {} /\ io = Silent
  BY DEF QueueInit, Sharing
<1> QED
  BY <1>1, <1>2 DEF Fifo!FifoInit, Fifo!Silent, Silent

\* Through every growth, compaction, release and clone a handle hands out the
\* bytes it was given, in their order, and a handle that shares its array with
\* no clone is never disturbed: for any number of handles and any capacities.
THEOREM QueueImplementsFifo == QueueSpec => ImplementsFifo
<1> QED
  BY InitIInv, NextIInv, InitFifo, NextFifo, PTL DEF QueueSpec, ImplementsFifo, Fifo!FifoSpec
=============================================================================
