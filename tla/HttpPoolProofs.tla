--------------------------- MODULE HttpPoolProofs ---------------------------
(***************************************************************************)
(* Proofs about the pools for every number of threads and objects and      *)
(* every timeout and interval: first about ObjectPool alone, then that     *)
(* HttpPool uses it only as its clients may, and that no response or       *)
(* socket goes astray.                                                     *)
(***************************************************************************)
EXTENDS HttpPool, SequenceTheorems, FiniteSetTheorems, TLAPS

(* The objects of a sequence of entries, and that none is there twice. *)
Objs(s) == {s[i].obj : i \in DOMAIN s}
Distinct(s) == \A i, j \in DOMAIN s : s[i].obj = s[j].obj => i = j

-----------------------------------------------------------------------------
(* What the four operations of the deque do to Objs and Distinct. *)

(* pollFirst takes exactly the first object out.                           *)
LEMMA TailObjs ==
  ASSUME NEW s \in Seq(Entry), s # <<>>, Distinct(s)
  PROVE  /\ Tail(s) \in Seq(Entry)
         /\ s[1] \in Entry
         /\ s[1].obj \in Objs(s)
         /\ Objs(Tail(s)) = Objs(s) \ {s[1].obj}
         /\ Distinct(Tail(s))
<1>1. /\ Len(s) \in Nat /\ Len(s) > 0 /\ DOMAIN s = 1..Len(s)
      /\ Tail(s) \in Seq(Entry)
      /\ Len(Tail(s)) = Len(s) - 1 /\ DOMAIN Tail(s) = 1..(Len(s) - 1)
      /\ \A i \in 1..(Len(s) - 1) : Tail(s)[i] = s[i + 1]
  OBVIOUS
<1>2. s[1] \in Entry /\ s[1].obj \in Objs(s)
  BY <1>1 DEF Objs
<1>3. Distinct(Tail(s))
  BY <1>1 DEF Distinct
<1>4. Objs(Tail(s)) \subseteq Objs(s) \ {s[1].obj}
  BY <1>1 DEF Objs, Distinct
<1>5. ASSUME NEW o \in Objs(s), o # s[1].obj
      PROVE  o \in Objs(Tail(s))
  <2>1. PICK i \in 1..Len(s) : o = s[i].obj
    BY <1>1 DEF Objs
  <2>2. i # 1 /\ i - 1 \in 1..(Len(s) - 1) /\ Tail(s)[i - 1] = s[i]
    BY <1>1, <1>5, <2>1
  <2>3. QED
    BY <1>1, <2>1, <2>2 DEF Objs
<1>6. QED
  BY <1>1, <1>2, <1>3, <1>4, <1>5

(* pollLast takes exactly the last object out.                             *)
LEMMA FrontObjs ==
  ASSUME NEW s \in Seq(Entry), s # <<>>, Distinct(s)
  PROVE  /\ SubSeq(s, 1, Len(s) - 1) \in Seq(Entry)
         /\ s[Len(s)] \in Entry
         /\ s[Len(s)].obj \in Objs(s)
         /\ Objs(SubSeq(s, 1, Len(s) - 1)) = Objs(s) \ {s[Len(s)].obj}
         /\ Distinct(SubSeq(s, 1, Len(s) - 1))
<1> DEFINE f == SubSeq(s, 1, Len(s) - 1)
<1>1. /\ Len(s) \in Nat /\ Len(s) > 0 /\ DOMAIN s = 1..Len(s)
      /\ f \in Seq(Entry)
      /\ Len(f) = Len(s) - 1 /\ DOMAIN f = 1..(Len(s) - 1)
      /\ \A i \in 1..(Len(s) - 1) : f[i] = s[i]
  <2>1. Len(s) \in Nat /\ Len(s) > 0 /\ DOMAIN s = 1..Len(s)
    OBVIOUS
  <2>2. \A i \in 1..(Len(s) - 1) : s[i] \in Entry
    BY <2>1
  <2>3. QED
    BY <2>1, <2>2, SubSeqProperties
<1>2. s[Len(s)] \in Entry /\ s[Len(s)].obj \in Objs(s)
  BY <1>1 DEF Objs
<1> HIDE DEF f
<1>3. Distinct(f)
  BY <1>1 DEF Distinct
<1>4. Objs(f) \subseteq Objs(s) \ {s[Len(s)].obj}
  BY <1>1 DEF Objs, Distinct
<1>5. Objs(s) \ {s[Len(s)].obj} \subseteq Objs(f)
  BY <1>1 DEF Objs
<1>6. QED
  BY <1>1, <1>2, <1>3, <1>4, <1>5 DEF f

(* offerFirst and offerLast put exactly one new object in.                 *)
LEMMA ConsObjs ==
  ASSUME NEW s \in Seq(Entry), NEW e \in Entry, e.obj \notin Objs(s), Distinct(s)
  PROVE  /\ <<e>> \o s \in Seq(Entry)
         /\ Objs(<<e>> \o s) = Objs(s) \cup {e.obj}
         /\ Distinct(<<e>> \o s)
<1> DEFINE c == <<e>> \o s
<1>1. /\ Len(s) \in Nat /\ DOMAIN s = 1..Len(s)
      /\ c \in Seq(Entry)
      /\ Len(c) = Len(s) + 1 /\ DOMAIN c = 1..(Len(s) + 1)
      /\ c[1] = e
      /\ \A i \in 2..(Len(s) + 1) : c[i] = s[i - 1]
      /\ \A i \in 1..Len(s) : c[i + 1] = s[i]
  <2>1. Len(s) \in Nat /\ DOMAIN s = 1..Len(s)
    OBVIOUS
  <2>2. <<e>> \in Seq(Entry) /\ Len(<<e>>) = 1 /\ <<e>>[1] = e
    OBVIOUS
  <2>3. /\ c \in Seq(Entry) /\ Len(c) = Len(s) + 1
        /\ \A i \in 1..(Len(s) + 1) : c[i] = IF i <= 1 THEN <<e>>[i] ELSE s[i - 1]
    BY <2>1, <2>2, ConcatProperties
  <2> HIDE DEF c
  <2>4. DOMAIN c = 1..(Len(s) + 1)
    BY <2>3
  <2>5. c[1] = e
    BY <2>1, <2>2, <2>3
  <2>6. \A i \in 2..(Len(s) + 1) : c[i] = s[i - 1]
    BY <2>1, <2>3
  <2>7. \A i \in 1..Len(s) : c[i + 1] = s[i]
    BY <2>1, <2>3
  <2>8. QED
    BY <2>1, <2>3, <2>4, <2>5, <2>6, <2>7
<1> HIDE DEF c
<1>2. Objs(c) = Objs(s) \cup {e.obj}
  <2>1. ASSUME NEW i \in DOMAIN c PROVE c[i].obj \in Objs(s) \cup {e.obj}
    <3>1. CASE i = 1
      BY <1>1, <3>1
    <3>2. CASE i # 1
      <4>1. i - 1 \in DOMAIN s /\ c[i] = s[i - 1]
        BY <1>1, <3>2
      <4>2. QED
        BY <4>1 DEF Objs
    <3>3. QED
      BY <3>1, <3>2
  <2>2. ASSUME NEW i \in DOMAIN s PROVE s[i].obj \in Objs(c)
    <3>1. i + 1 \in DOMAIN c /\ c[i + 1] = s[i]
      BY <1>1
    <3>2. QED
      BY <3>1 DEF Objs
  <2>3. e.obj \in Objs(c)
    BY <1>1 DEF Objs
  <2>4. QED
    BY <2>1, <2>2, <2>3 DEF Objs
<1>3. ASSUME NEW i \in DOMAIN c, NEW j \in DOMAIN c, c[i].obj = c[j].obj
      PROVE  i = j
  <2>1. \A k \in DOMAIN c : k # 1 => k - 1 \in DOMAIN s /\ c[k] = s[k - 1]
    BY <1>1
  <2>2. CASE i = 1 \/ j = 1
    BY <1>1, <1>3, <2>1, <2>2 DEF Objs
  <2>3. CASE i # 1 /\ j # 1
    <3>1. i - 1 = j - 1
      BY <1>3, <2>1, <2>3 DEF Distinct
    <3>2. QED
      BY <1>1, <3>1
  <2>4. QED
    BY <2>2, <2>3
<1>4. QED
  BY <1>1, <1>2, <1>3 DEF c, Distinct

LEMMA AppendObjs ==
  ASSUME NEW s \in Seq(Entry), NEW e \in Entry, e.obj \notin Objs(s), Distinct(s)
  PROVE  /\ Append(s, e) \in Seq(Entry)
         /\ Objs(Append(s, e)) = Objs(s) \cup {e.obj}
         /\ Distinct(Append(s, e))
<1> DEFINE c == Append(s, e)
<1>1. /\ Len(s) \in Nat /\ DOMAIN s = 1..Len(s)
      /\ c \in Seq(Entry)
      /\ Len(c) = Len(s) + 1 /\ DOMAIN c = 1..(Len(s) + 1)
      /\ c[Len(s) + 1] = e
      /\ \A i \in 1..Len(s) : c[i] = s[i]
  OBVIOUS
<1> HIDE DEF c
<1>2. Objs(c) = Objs(s) \cup {e.obj}
  BY <1>1 DEF Objs
<1>3. Distinct(c)
  BY <1>1 DEF Objs, Distinct
<1>4. QED
  BY <1>1, <1>2, <1>3 DEF c

-----------------------------------------------------------------------------
(* Type correctness *)

LEMMA InitType == Init => TypeOK
<1> SUFFICES ASSUME Init PROVE TypeOK
  OBVIOUS
<1>1. deque \in Seq(Entry) /\ live \in SUBSET Objects /\ leaked \in SUBSET Objects
  BY DEF Init
<1>2. held \in [Threads -> SUBSET Objects]
  BY DEF Init
<1>3. \A t \in Threads : entry[t] = NoObject /\ pc[t] \notin WithEntry
  BY DEF Init, WithEntry
<1>4. QED
  BY <1>1, <1>2, <1>3 DEF Init, TypeOK, PC

(* Every step of Method, Call and the clock keeps the types.               *)
LEMMA NextType == TypeOK /\ [Next]_vars => TypeOK'
<1> SUFFICES ASSUME TypeOK, [Next]_vars PROVE TypeOK'
  OBVIOUS
<1> USE PoolAssumption DEF TypeOK, PC, WithEntry, Go, times, Drop, Forget, Destroy,
                           PollFirst, PollLast, First, Last
<1>1. CASE Tick
  BY <1>1 DEF Tick
<1>2. ASSUME NEW t \in Threads, Method(t)
      PROVE  TypeOK'
  <2>0. deque # <<>> => /\ deque[1] \in Entry /\ deque[Len(deque)] \in Entry
                        /\ Tail(deque) \in Seq(Entry)
                        /\ SubSeq(deque, 1, Len(deque) - 1) \in Seq(Entry)
    <3>1. Len(deque) \in Nat /\ \A i \in 1..(Len(deque) - 1) : deque[i] \in Entry
      OBVIOUS
    <3>2. SubSeq(deque, 1, Len(deque) - 1) \in Seq(Entry)
      BY <3>1, SubSeqProperties
    <3>3. QED
      BY <3>2
  <2>1. CASE ReadAccessed(t)
    BY <2>1 DEF ReadAccessed
  <2>2. CASE TrySweep(t)
    BY <2>2 DEF TrySweep, Wins
  <2>3. CASE SweepDestroys(t)
    BY <2>0, <2>3 DEF SweepDestroys
  <2>4. CASE SweepKeeps(t)
    BY <2>0, <2>4 DEF SweepKeeps, Entry
  <2>5. CASE OfferBack(t)
    <3>1. [obj |-> entry[t], exp |-> expire[t]] \in Entry
      BY <2>5 DEF OfferBack, Entry
    <3>2. QED
      BY <2>5, <3>1 DEF OfferBack, AfterKeep
  <2>6. CASE SweepEnds(t)
    BY <2>6 DEF SweepEnds
  <2>7. CASE TakeIdle(t)
    BY <2>0, <2>7 DEF TakeIdle, Entry
  <2>8. CASE ActivateFails(t)
    BY <2>0, <2>8 DEF ActivateFails
  <2>9. CASE ActivateBreaks(t)
    BY <2>0, <2>9 DEF ActivateBreaks, Entry
  <2>10. CASE Make(t)
    BY <2>10 DEF Make
  <2>11. CASE MakeFails(t)
    BY <2>11 DEF MakeFails
  <2>12. CASE Stamp(t)
    BY <2>12 DEF Stamp
  <2>13. CASE Offer(t)
    <3>1. [obj |-> entry[t], exp |-> expire[t]] \in Entry
      BY <2>13 DEF Offer, Entry
    <3>2. QED
      BY <2>13, <3>1 DEF Offer
  <2>14. CASE Drain(t)
    BY <2>0, <2>14 DEF Drain
  <2>15. CASE CloseEnds(t)
    BY <2>15 DEF CloseEnds
  <2>16. QED
    BY <1>2, <2>1, <2>2, <2>3, <2>4, <2>5, <2>6, <2>7, <2>8, <2>9, <2>10, <2>11,
       <2>12, <2>13, <2>14, <2>15 DEF Method, Borrow
<1>3. ASSUME NEW t \in Threads, Call(t)
      PROVE  TypeOK'
  <2>1. CASE BorrowStart(t)
    BY <2>1 DEF BorrowStart
  <2>2. CASE CloseStart(t)
    BY <2>2 DEF CloseStart
  <2>3. CASE Reopen(t)
    BY <2>3 DEF Reopen
  <2>4. ASSUME NEW o \in Objects, ReturnToOpen(t, o)
        PROVE  TypeOK'
    BY <2>4 DEF ReturnToOpen
  <2>5. ASSUME NEW o \in Objects, ReturnDestroys(t, o)
        PROVE  TypeOK'
    BY <2>5 DEF ReturnDestroys
  <2>6. QED
    BY <1>3, <2>1, <2>2, <2>3, <2>4, <2>5 DEF Call
<1>4. CASE UNCHANGED vars
  BY <1>4 DEF vars
<1>5. QED
  BY <1>1, <1>2, <1>3, <1>4 DEF Next

(* The variables keep their types, and a thread's local entry is set       *)
(* exactly while the method still has to offer it, for any constants.      *)
THEOREM TypeCorrect == Spec => []TypeOK
<1>1. QED
  BY InitType, NextType, PTL DEF Spec

-----------------------------------------------------------------------------
(* The compare-and-set *)

(* Only a step whose compareAndSet succeeds changes accessed, and seenNow  *)
(* was overdue against exactly the value that it replaces.                 *)
Overdue == \A t \in Threads : pc[t] = "cas" => seenNow[t] > seenAcc[t] + Interval

LEMMA NextOverdue == TypeOK /\ Overdue /\ [Next]_vars => Overdue'
<1> SUFFICES ASSUME TypeOK, Overdue, [Next]_vars PROVE Overdue'
  OBVIOUS
<1> USE DEF TypeOK, Overdue, Go, times, Forget
<1>1. CASE Tick
  BY <1>1 DEF Tick
<1>2. ASSUME NEW t \in Threads, Method(t)
      PROVE  Overdue'
  <2>1. CASE ReadAccessed(t)
    BY <2>1, PoolAssumption DEF ReadAccessed
  <2>2. CASE ~ReadAccessed(t)
    BY <1>2, <2>2 DEF Method, Borrow, TrySweep, SweepDestroys, SweepKeeps, OfferBack,
       SweepEnds, TakeIdle, ActivateFails, ActivateBreaks, Make, MakeFails, Stamp,
       Offer, Drain, CloseEnds, AfterKeep
  <2>3. QED
    BY <2>1, <2>2
<1>3. ASSUME NEW t \in Threads, Call(t)
      PROVE  Overdue'
  BY <1>3 DEF Call, BorrowStart, CloseStart, Reopen, ReturnToOpen, ReturnDestroys
<1>4. CASE UNCHANGED vars
  BY <1>4 DEF vars
<1>5. QED
  BY <1>1, <1>2, <1>3, <1>4 DEF Next

(* Two sweeps start more than Interval apart, however many threads found   *)
(* the last one overdue at once.                                           *)
THEOREM SweepsAreApart == Spec => SweepsApart
<1>1. Init => Overdue
  BY DEF Init, Overdue
<1>2. TypeOK /\ Overdue /\ [Next]_vars
        => [accessed' # accessed => accessed' > accessed + Interval]_vars
  <2> SUFFICES ASSUME TypeOK, Overdue, Next, accessed' # accessed
               PROVE  accessed' > accessed + Interval
    OBVIOUS
  <2>1. PICK t \in Threads : TrySweep(t)
    BY DEF Next, Tick, Method, Borrow, Call, ReadAccessed, SweepDestroys, SweepKeeps,
       OfferBack, SweepEnds, TakeIdle, ActivateFails, ActivateBreaks, Make, MakeFails,
       Stamp, Offer, Drain, CloseEnds, BorrowStart, CloseStart, Reopen, ReturnToOpen,
       ReturnDestroys
  <2>2. QED
    BY <2>1 DEF TrySweep, Wins, Go, Overdue
<1>3. QED
  BY <1>1, <1>2, NextOverdue, TypeCorrect, PTL DEF Spec, SweepsApart

-----------------------------------------------------------------------------
(* Exclusive ownership and conservation *)

(* Conserved, said of one object at a time.                                *)
Placed == \A o \in Objects :
  o \in live <=> \/ o \in Objs(deque)
                 \/ o \in leaked
                 \/ \E t \in Threads : o \in held[t] \/ o = entry[t]

(* The inductive invariant: Exclusive alone is not inductive, since Make   *)
(* may only reuse an identity that is in no place at all.                  *)
IInv == TypeOK /\ Exclusive /\ Placed

LEMMA IdleAreObjects == ASSUME TypeOK PROVE Objs(deque) \subseteq Objects
<1>1. \A i \in DOMAIN deque : deque[i] \in Entry
  BY DEF TypeOK
<1>2. QED
  BY <1>1 DEF Objs, Entry

LEMMA PlacedIsConserved == ASSUME TypeOK PROVE Placed <=> Conserved
<1> DEFINE Lent == UNION {held[t] : t \in Threads}
           InMethod == {entry[t] : t \in Threads} \ {NoObject}
           All == Idle \cup leaked \cup Lent \cup InMethod
<1>1. Objs(deque) = Idle /\ Idle \subseteq Objects /\ leaked \subseteq Objects
  <2>1. Objs(deque) = Idle
    BY DEF Objs, Idle
  <2>2. QED
    BY <2>1, IdleAreObjects DEF TypeOK
<1>2. Lent \subseteq Objects /\ InMethod \subseteq Objects
  BY DEF TypeOK
<1>3. ASSUME NEW o \in Objects
      PROVE  /\ o \in Lent <=> \E t \in Threads : o \in held[t]
             /\ o \in InMethod <=> \E t \in Threads : o = entry[t]
  BY PoolAssumption
<1> HIDE DEF Lent, InMethod
<1>4. Placed <=> live = All
  BY <1>1, <1>2, <1>3 DEF Placed, TypeOK
<1>5. QED
  BY <1>4 DEF Conserved, Lent, InMethod

LEMMA InitIInv == Init => IInv
<1> SUFFICES ASSUME Init PROVE IInv
  OBVIOUS
<1>1. Objs(deque) = {} /\ Idle = {} /\ OneEntryEach
  BY DEF Init, Objs, Idle, OneEntryEach
<1>2. \A t \in Threads : held[t] = {} /\ entry[t] = NoObject
  BY DEF Init
<1>3. Exclusive
  BY <1>1, <1>2 DEF Init, Exclusive, OneBorrowerEach, OneMethodEach, LentNotIdle,
     LentNotInMethod, LeakedNotUsed
<1>4. Placed
  BY <1>1, <1>2, PoolAssumption DEF Init, Placed
<1>5. QED
  BY <1>3, <1>4, InitType DEF IInv

(* What a poll gives: an object that is idle and in no other place.        *)
LEMMA Polled ==
  ASSUME IInv, deque # <<>>, NEW e, NEW rest,
         \/ e = First /\ rest = Tail(deque)
         \/ e = Last /\ rest = SubSeq(deque, 1, Len(deque) - 1)
  PROVE  /\ e.obj \in Objs(deque) /\ e.obj \in Objects
         /\ Objs(rest) = Objs(deque) \ {e.obj}
         /\ Distinct(rest)
<1>1. deque \in Seq(Entry) /\ Distinct(deque)
  BY DEF IInv, TypeOK, Exclusive, OneEntryEach, Distinct
<1>2. QED
  BY <1>1, TailObjs, FrontObjs DEF First, Last, Entry

(* Every step moves an object from one place to another or leaves all of   *)
(* them where they are.                                                    *)
LEMMA NextIInv == IInv /\ [Next]_vars => IInv'
<1> SUFFICES ASSUME IInv, [Next]_vars PROVE Exclusive' /\ Placed'
  BY NextType DEF IInv
<1> USE PoolAssumption
    DEF TypeOK, Exclusive, Placed, OneBorrowerEach, OneMethodEach, LentNotIdle,
        LentNotInMethod, LeakedNotUsed, Go
<1>0. /\ TypeOK /\ Exclusive /\ Placed
      /\ Idle = Objs(deque) /\ Idle' = Objs(deque')
      /\ OneEntryEach <=> Distinct(deque)
      /\ OneEntryEach' <=> Distinct(deque')
      /\ Objs(deque) \subseteq Objects
  BY IdleAreObjects DEF IInv, Idle, Objs, OneEntryEach, Distinct
<1> HIDE DEF TypeOK
<1>1. CASE UNCHANGED <<deque, entry, held, live, leaked>>
  BY <1>0, <1>1
<1>2. ASSUME NEW t \in Threads, SweepDestroys(t) \/ ActivateFails(t) \/ Drain(t)
      PROVE  Exclusive' /\ Placed'
  <2>1. PICK e : /\ e.obj \in Objs(deque) /\ e.obj \in Objects
                 /\ Objs(deque') = Objs(deque) \ {e.obj}
                 /\ Distinct(deque')
                 /\ live' = live \ {e.obj}
                 /\ UNCHANGED <<entry, held, leaked>>
    BY <1>2, Polled DEF SweepDestroys, ActivateFails, Drain, PollFirst, PollLast, Destroy
  <2>2. QED
    BY <1>0, <2>1
<1>3. ASSUME NEW t \in Threads, SweepKeeps(t)
      PROVE  Exclusive' /\ Placed'
  <2>1. PICK e : /\ e.obj \in Objs(deque) /\ e.obj \in Objects
                 /\ Objs(deque') = Objs(deque) \ {e.obj}
                 /\ Distinct(deque')
                 /\ entry' = [entry EXCEPT ![t] = e.obj]
                 /\ UNCHANGED <<live, held, leaked>>
    BY <1>3, Polled DEF SweepKeeps, PollLast
  <2>2. entry[t] = NoObject
    BY <1>0, <1>3 DEF TypeOK, SweepKeeps, WithEntry
  <2>3. QED
    BY <1>0, <2>1, <2>2 DEF TypeOK
<1>4. ASSUME NEW t \in Threads, OfferBack(t) \/ Offer(t)
      PROVE  Exclusive' /\ Placed'
  <2>1. entry[t] \in Objects /\ entry[t] \notin Objs(deque)
    BY <1>0, <1>4 DEF TypeOK, OfferBack, Offer, WithEntry
  <2> DEFINE e == [obj |-> entry[t], exp |-> expire[t]]
  <2>2. /\ e \in Entry /\ e.obj = entry[t]
        /\ deque' = Append(deque, e) \/ deque' = <<e>> \o deque
    BY <1>0, <1>4, <2>1 DEF TypeOK, Entry, OfferBack, Offer
  <2> HIDE DEF e
  <2>3. /\ Objs(deque') = Objs(deque) \cup {entry[t]}
        /\ Distinct(deque')
    <3>1. deque \in Seq(Entry) /\ Distinct(deque)
      BY <1>0 DEF TypeOK
    <3>2. CASE deque' = Append(deque, e)
      BY <2>1, <2>2, <3>1, <3>2, AppendObjs
    <3>3. CASE deque' = <<e>> \o deque
      BY <2>1, <2>2, <3>1, <3>3, ConsObjs
    <3>4. QED
      BY <2>2, <3>2, <3>3
  <2>4. /\ entry' = [entry EXCEPT ![t] = NoObject]
        /\ UNCHANGED <<live, held, leaked>>
    BY <1>4 DEF OfferBack, Offer, Drop
  <2>5. QED
    BY <1>0, <2>1, <2>3, <2>4 DEF TypeOK
<1>5. ASSUME NEW t \in Threads, TakeIdle(t)
      PROVE  Exclusive' /\ Placed'
  <2>1. PICK e : /\ e.obj \in Objs(deque) /\ e.obj \in Objects
                 /\ Objs(deque') = Objs(deque) \ {e.obj}
                 /\ Distinct(deque')
                 /\ held' = [held EXCEPT ![t] = @ \cup {e.obj}]
                 /\ UNCHANGED <<live, entry, leaked>>
    BY <1>5, Polled DEF TakeIdle, PollFirst
  <2>2. QED
    BY <1>0, <2>1 DEF TypeOK
<1>6. ASSUME NEW t \in Threads, ActivateBreaks(t)
      PROVE  Exclusive' /\ Placed'
  <2>1. PICK e : /\ e.obj \in Objs(deque) /\ e.obj \in Objects
                 /\ Objs(deque') = Objs(deque) \ {e.obj}
                 /\ Distinct(deque')
                 /\ leaked' = leaked \cup {e.obj}
                 /\ UNCHANGED <<live, entry, held>>
    BY <1>6, Polled DEF ActivateBreaks, PollFirst
  <2>2. QED
    BY <1>0, <2>1 DEF TypeOK
<1>7. ASSUME NEW t \in Threads, Make(t)
      PROVE  Exclusive' /\ Placed'
  <2>1. PICK o \in Objects \ live :
           /\ live' = live \cup {o}
           /\ \/ held' = [held EXCEPT ![t] = @ \cup {o}] /\ UNCHANGED leaked
              \/ leaked' = leaked \cup {o} /\ UNCHANGED held
           /\ UNCHANGED <<deque, entry>>
    BY <1>7 DEF Make
  <2>2. o \notin Objs(deque) /\ o \notin leaked
        /\ \A u \in Threads : o \notin held[u] /\ o # entry[u]
    BY <1>0
  <2>3. CASE held' = [held EXCEPT ![t] = @ \cup {o}] /\ UNCHANGED leaked
    BY <1>0, <2>1, <2>2, <2>3 DEF TypeOK
  <2>4. CASE leaked' = leaked \cup {o} /\ UNCHANGED held
    BY <1>0, <2>1, <2>2, <2>4 DEF TypeOK
  <2>5. QED
    BY <2>1, <2>3, <2>4
<1>8. ASSUME NEW t \in Threads, NEW o \in Objects, ReturnToOpen(t, o)
      PROVE  Exclusive' /\ Placed'
  <2>1. /\ o \in held[t]
        /\ held' = [held EXCEPT ![t] = @ \ {o}]
        /\ entry' = [entry EXCEPT ![t] = o]
        /\ UNCHANGED <<deque, live, leaked>>
    BY <1>8 DEF ReturnToOpen
  <2>2. entry[t] = NoObject
    BY <1>0, <1>8 DEF TypeOK, ReturnToOpen, WithEntry
  <2>3. QED
    BY <1>0, <2>1, <2>2 DEF TypeOK
<1>9. ASSUME NEW t \in Threads, NEW o \in Objects, ReturnDestroys(t, o)
      PROVE  Exclusive' /\ Placed'
  <2>1. /\ o \in held[t]
        /\ held' = [held EXCEPT ![t] = @ \ {o}]
        /\ live' = live \ {o}
        /\ UNCHANGED <<deque, entry, leaked>>
    BY <1>9 DEF ReturnDestroys, Destroy
  <2>2. QED
    BY <1>0, <2>1 DEF TypeOK
<1>10. QED
  BY <1>1, <1>2, <1>3, <1>4, <1>5, <1>6, <1>7, <1>8, <1>9
  DEF Next, vars, times, Tick, Method, Borrow, Call, ReadAccessed, TrySweep, SweepEnds,
      MakeFails, Stamp, CloseEnds, BorrowStart, CloseStart, Reopen

(* No two holders ever share an object, for any number of threads and      *)
(* objects: the lock-free borrow and return are mutually exclusive.        *)
THEOREM OwnershipIsExclusive == Spec => []Exclusive
<1>1. IInv => Exclusive
  BY DEF IInv
<1>2. QED
  BY <1>1, InitIInv, NextIInv, PTL DEF Spec

(* No object is lost and none is destroyed while it is in use.             *)
THEOREM ObjectsAreConserved == Spec => []Conserved
<1>1. IInv => Conserved
  BY PlacedIsConserved DEF IInv
<1>2. QED
  BY <1>1, InitIInv, NextIInv, PTL DEF Spec

-----------------------------------------------------------------------------
(* What a close leaves behind *)

(* The inductive invariant: while drained holds the pool is closed, so no  *)
(* thread starts a return that would offer its object.                     *)
Residue == (drained => closed) /\ ResidueBounded

LEMMA LateIsFinite == IsFiniteSet(Late) /\ Cardinality(Late) \in Nat
  BY PoolAssumption, FS_Subset, FS_CardinalityType DEF Late

(* The lengths of the deque after a poll and after an offer.               *)
LEMMA DequeLengths ==
  ASSUME TypeOK
  PROVE  /\ Len(deque) \in Nat
         /\ deque = <<>> => Len(deque) = 0
         /\ deque # <<>> => /\ Len(Tail(deque)) = Len(deque) - 1
                            /\ Len(SubSeq(deque, 1, Len(deque) - 1)) = Len(deque) - 1
         /\ \A e \in Entry : /\ Len(Append(deque, e)) = Len(deque) + 1
                             /\ Len(<<e>> \o deque) = Len(deque) + 1
<1>1. deque \in Seq(Entry) /\ Len(deque) \in Nat
  BY DEF TypeOK
<1>2. ASSUME deque # <<>>
      PROVE  /\ Len(Tail(deque)) = Len(deque) - 1
             /\ Len(SubSeq(deque, 1, Len(deque) - 1)) = Len(deque) - 1
  <2> DEFINE f == SubSeq(deque, 1, Len(deque) - 1)
  <2>1. \A i \in 1..(Len(deque) - 1) : deque[i] \in Entry
    BY <1>1
  <2>2. /\ 1 <= Len(deque) - 1 => Len(f) = Len(deque) - 1 - 1 + 1
        /\ ~(1 <= Len(deque) - 1) => Len(f) = 0
    BY <1>1, <2>1, SubSeqProperties
  <2> HIDE DEF f
  <2>3. Len(deque) > 0 /\ Len(Tail(deque)) = Len(deque) - 1
    BY <1>1, <1>2
  <2>4. Len(f) = Len(deque) - 1
    BY <1>1, <2>2, <2>3
  <2>5. QED
    BY <2>3, <2>4 DEF f
<1>3. \A e \in Entry : /\ Len(Append(deque, e)) = Len(deque) + 1
                       /\ Len(<<e>> \o deque) = Len(deque) + 1
  BY <1>1
<1>4. QED
  BY <1>1, <1>2, <1>3

LEMMA GoMoves ==
  ASSUME TypeOK, NEW t \in Threads, NEW from, NEW to, Go(t, from, to)
  PROVE  /\ pc[t] = from /\ pc'[t] = to
         /\ \A u \in Threads : u # t => pc'[u] = pc[u]
  BY DEF TypeOK, Go

LEMMA NextResidue == TypeOK /\ TypeOK' /\ Residue /\ [Next]_vars => Residue'
<1> SUFFICES ASSUME TypeOK, TypeOK', Residue, [Next]_vars PROVE Residue'
  OBVIOUS
<1> DEFINE n == Cardinality(Threads)
<1>0. /\ n \in Nat
      /\ Len(deque) \in Nat /\ Len(deque') \in Nat
      /\ IsFiniteSet(Late) /\ IsFiniteSet(Late')
      /\ Cardinality(Late) \in Nat /\ Cardinality(Late') \in Nat
  <2>1. IsFiniteSet(Late') /\ Cardinality(Late') \in Nat
    BY PoolAssumption, FS_Subset, FS_CardinalityType DEF Late
  <2>2. Len(deque') \in Nat
    BY DEF TypeOK
  <2>3. QED
    BY <2>1, <2>2, LateIsFinite, DequeLengths, PoolAssumption, FS_CardinalityType
(* Moves of one thread into and out of Late. *)
<1>a. ASSUME NEW t \in Threads, pc[t] \notin WithEntry, pc'[t] \in WithEntry,
             \A u \in Threads : u # t => pc'[u] = pc[u]
      PROVE  Cardinality(Late') = Cardinality(Late) + 1
  <2>1. Late' = Late \cup {t} /\ t \notin Late
    BY <1>a DEF Late
  <2>2. QED
    BY <1>0, <2>1, FS_AddElement
<1>b. ASSUME NEW t \in Threads, pc[t] \in WithEntry, pc'[t] \notin WithEntry,
             \A u \in Threads : u # t => pc'[u] = pc[u]
      PROVE  Cardinality(Late') = Cardinality(Late) - 1
  <2>1. Late' = Late \ {t} /\ t \in Late
    BY <1>b DEF Late
  <2>2. QED
    BY <1>0, <2>1, FS_RemoveElement
<1>c. ASSUME \A u \in Threads : pc'[u] \in WithEntry <=> pc[u] \in WithEntry
      PROVE  Late' = Late
  BY <1>c DEF Late
<1> HIDE DEF n
<1> USE DEF Residue, ResidueBounded
<1>1. CASE drained' = FALSE
  BY <1>1
<1>2. ASSUME NEW t \in Threads, CloseEnds(t)
      PROVE  Residue'
  <2>1. deque' = <<>> /\ drained' = closed /\ closed' = closed
    BY <1>2 DEF CloseEnds
  <2>2. t \notin Late'
    BY <1>2, GoMoves DEF CloseEnds, Late, WithEntry
  <2>3. Late' \in SUBSET (Threads \ {t})
    BY <2>2 DEF Late
  <2>4. /\ IsFiniteSet(Threads \ {t}) /\ Cardinality(Threads \ {t}) = n - 1
    BY PoolAssumption, FS_RemoveElement DEF n
  <2>5. Cardinality(Late') <= n - 1
    BY <2>3, <2>4, FS_Subset
  <2>6. Len(deque') = 0
    BY <2>1
  <2>7. QED
    BY <1>0, <2>1, <2>5, <2>6 DEF n
<1>3. ASSUME NEW t \in Threads, SweepKeeps(t)
      PROVE  Residue'
  <2>0. /\ pc[t] = "sweep" /\ pc'[t] = "offerBack"
        /\ \A u \in Threads : u # t => pc'[u] = pc[u]
    BY <1>3, GoMoves DEF SweepKeeps
  <2>1. Cardinality(Late') = Cardinality(Late) + 1
    BY <1>a, <2>0 DEF WithEntry
  <2>2. Len(deque') = Len(deque) - 1 /\ UNCHANGED <<drained, closed>>
    BY <1>3, DequeLengths DEF SweepKeeps, PollLast
  <2>3. QED
    BY <1>0, <2>1, <2>2 DEF n
<1>4. ASSUME NEW t \in Threads, OfferBack(t) \/ Offer(t)
      PROVE  Residue'
  <2>0. /\ pc[t] \in {"offerBack", "offer"} /\ pc'[t] \in {"take", "idle"}
        /\ \A u \in Threads : u # t => pc'[u] = pc[u]
    BY <1>4, GoMoves DEF OfferBack, Offer, AfterKeep
  <2>1. Cardinality(Late') = Cardinality(Late) - 1
    BY <1>b, <2>0 DEF WithEntry
  <2>2. Len(deque') = Len(deque) + 1 /\ UNCHANGED <<drained, closed>>
    <3>1. [obj |-> entry[t], exp |-> expire[t]] \in Entry
      BY <2>0 DEF TypeOK, WithEntry, Entry
    <3>2. QED
      BY <1>4, <3>1, DequeLengths DEF OfferBack, Offer
  <2>3. QED
    BY <1>0, <2>1, <2>2 DEF n
<1>5. ASSUME NEW t \in Threads,
             SweepDestroys(t) \/ TakeIdle(t) \/ ActivateFails(t) \/ ActivateBreaks(t) \/ Drain(t)
      PROVE  Residue'
  <2>1. Late' = Late
    BY <1>5, <1>c, GoMoves
    DEF SweepDestroys, TakeIdle, ActivateFails, ActivateBreaks, Drain, WithEntry
  <2>2. Len(deque') = Len(deque) - 1 /\ UNCHANGED <<drained, closed>>
    BY <1>5, DequeLengths
    DEF SweepDestroys, TakeIdle, ActivateFails, ActivateBreaks, Drain, PollFirst, PollLast
  <2>3. QED
    BY <1>0, <2>1, <2>2 DEF n
<1>6. ASSUME NEW t \in Threads,
             \/ ReadAccessed(t) \/ TrySweep(t) \/ SweepEnds(t) \/ Make(t) \/ MakeFails(t)
             \/ Stamp(t) \/ BorrowStart(t)
      PROVE  Residue'
  <2>0. /\ \/ pc[t] \notin WithEntry /\ pc'[t] \notin WithEntry
           \/ pc[t] \in WithEntry /\ pc'[t] \in WithEntry
        /\ \A u \in Threads : u # t => pc'[u] = pc[u]
    BY <1>6, GoMoves
    DEF ReadAccessed, TrySweep, SweepEnds, Make, MakeFails, Stamp, BorrowStart, WithEntry
  <2>1. Late' = Late
    BY <1>c, <2>0
  <2>2. UNCHANGED <<deque, drained, closed>>
    BY <1>6
    DEF ReadAccessed, TrySweep, SweepEnds, Make, MakeFails, Stamp, BorrowStart
  <2>3. QED
    BY <2>1, <2>2
<1>7. ASSUME NEW t \in Threads, CloseStart(t)
      PROVE  Residue'
  <2>1. Late' = Late
    BY <1>7, <1>c, GoMoves DEF CloseStart, WithEntry
  <2>2. QED
    BY <1>7, <2>1 DEF CloseStart
<1>8. ASSUME NEW t \in Threads, NEW o \in Objects, ReturnToOpen(t, o)
      PROVE  Residue'
  BY <1>8 DEF ReturnToOpen, SeenOpen
<1>9. ASSUME NEW t \in Threads, NEW o \in Objects, ReturnDestroys(t, o)
      PROVE  Residue'
  BY <1>9 DEF ReturnDestroys, Late
<1>10. CASE UNCHANGED <<deque, pc, drained, closed>>
  BY <1>10 DEF Late
<1>11. QED
  BY <1>1, <1>2, <1>3, <1>4, <1>5, <1>6, <1>7, <1>8, <1>9, <1>10
  DEF Next, vars, Tick, Method, Borrow, Call, Reopen

(* After a close has run to its end, at most one object per other thread   *)
(* slips back into the closed pool, for any number of threads.             *)
THEOREM ResidueIsBounded == Spec => []ResidueBounded
<1>1. Init => Residue
  BY DEF Init, Residue, ResidueBounded
<1>2. Residue => ResidueBounded
  BY DEF Residue
<1>3. QED
  BY <1>1, <1>2, NextResidue, TypeCorrect, PTL DEF Spec

-----------------------------------------------------------------------------
(* The HTTP pool. *)

InBorrow == {"readAccessed", "cas", "sweep", "offerBack", "take"}

JobTypeOK ==
  /\ job \in [Threads -> [method : Methods \cup {"none"},
                         at : {"none", "borrow", "send", "recv", "return", "finally"},
                         due : 0..Depth]]
  /\ sock \in [Threads -> Objects \cup {NoObject}]
  /\ wire \in [Objects -> Seq(Threads)]

Jobs == [method : Methods \cup {"none"},
         at : {"none", "borrow", "send", "recv", "return", "finally"},
         due : 0..Depth]

(* Where a thread is in HttpPool decides where it is in the pool and what  *)
(* its local variable `socket` is good for.                                *)
Place(t) ==
  /\ At(t, "none") => held[t] = {} /\ sock[t] = NoObject /\ pc[t] \in {"idle", "drain"}
  /\ At(t, "borrow") => held[t] = {} /\ sock[t] = NoObject /\ pc[t] \in InBorrow
  /\ At(t, "send") \/ At(t, "recv") => held[t] = {sock[t]} /\ pc[t] = "idle"
  /\ At(t, "recv") => job[t].method # "withOutResponse"
  /\ At(t, "return") =>
       /\ \/ held[t] = {sock[t]} /\ pc[t] = "idle"
          \/ held[t] = {} /\ sock[t] = entry[t] /\ pc[t] \in {"stamp", "offer"}
       /\ job[t].method = "withOutResponse" => sock[t] \in tainted
  /\ At(t, "finally") =>
       /\ held[t] = {} /\ pc[t] = "idle"
       /\ sock[t] \in live => sock[t] \in tainted
  /\ job[t].at \in {"borrow", "send", "recv"} => job[t].due >= 1

(* A socket no thread waits on has nothing unread.                         *)
UnaskedIsEmpty ==
  \A s \in Objects \ tainted :
    (\A t \in Threads : At(t, "recv") => sock[t] # s) => wire[s] = <<>>

Sockets ==
  /\ leaked = {}
  /\ open \subseteq live /\ tainted \subseteq live
  /\ ClosedByOwner

Wires == OwnResponse /\ UnaskedIsEmpty

(* The inductive invariant: that of the pool below, the place of each      *)
(* thread, and what is unread on the sockets that nobody waits on.  The    *)
(* properties of HttpPool are not inductive without it: OwnResponse needs  *)
(* that a socket was clean when it was borrowed, hence when it was idle    *)
(* and when it was on its way back.                                        *)
HttpInv ==
  /\ IInv /\ JobTypeOK
  /\ \A t \in Threads : Place(t)
  /\ Sockets /\ Wires

-----------------------------------------------------------------------------
(* The composition: what HttpPool does to the pool                         *)

(* A thread that closes its socket does to the pool what returnObject does *)
(* when it destroys an object.                                             *)
LEMMA CloseOwnIsReturn ==
  ASSUME HttpInv, NEW t \in Threads, At(t, "send") \/ At(t, "recv"), CloseOwn(t)
  PROVE  sock[t] \in Objects /\ ReturnDestroys(t, sock[t])
<1>1. held[t] = {sock[t]} /\ pc[t] = "idle"
  BY DEF HttpInv, Place
<1>2. sock[t] \in held[t] /\ held[t] \subseteq Objects
  BY <1>1 DEF HttpInv, IInv, TypeOK
<1>3. QED
  BY <1>1, <1>2 DEF CloseOwn, ReturnDestroys

(* Every step of HttpPool is a step of the pool, or none.                  *)
LEMMA StepOfPool == HttpInv /\ [HttpNext]_<<vars, http>> => [Next]_vars
<1> SUFFICES ASSUME HttpInv, [HttpNext]_<<vars, http>>, ~UNCHANGED vars PROVE Next
  OBVIOUS
<1>1. CASE Tick
  BY <1>1 DEF Next
<1>2. ASSUME NEW t \in Threads, NEW m \in Methods, Start(t, m) PROVE Next
  BY <1>2 DEF Start, Next, Call
<1>3. ASSUME NEW t \in Threads, Sweeping(t) \/ Borrowed(t) \/ ConnectFails(t) PROVE Next
  BY <1>3 DEF Sweeping, Borrowed, ConnectFails, Next, Method, Borrow
<1>4. ASSUME NEW t \in Threads, RecvCloses(t) \/ Fails(t) PROVE Next
  BY <1>4, CloseOwnIsReturn DEF RecvCloses, Fails, Next, Call
<1>5. ASSUME NEW t \in Threads, ReturnStarts(t) PROVE Next
  <2>1. ReturnToOpen(t, sock[t]) /\ sock[t] \in Objects
    BY <1>5 DEF ReturnStarts, ReturnToOpen, HttpInv, IInv, TypeOK
  <2>2. QED
    BY <2>1 DEF Next, Call
<1>6. ASSUME NEW t \in Threads, ReturnEnds(t) PROVE Next
  <2>1. CASE Stamp(t) \/ Offer(t)
    BY <2>1 DEF Next, Method
  <2>2. CASE ReturnDestroys(t, sock[t])
    <3>1. sock[t] \in Objects
      BY <2>2 DEF ReturnDestroys, HttpInv, IInv, TypeOK
    <3>2. QED
      BY <2>2, <3>1 DEF Next, Call
  <2>3. QED
    BY <1>6, <2>1, <2>2 DEF ReturnEnds
<1>7. ASSUME NEW t \in Threads, Manage(t) PROVE Next
  BY <1>7 DEF Manage, Next, Method, Call
<1>8. ASSUME NEW t \in Threads, Send(t) \/ RecvKeeps(t) \/ FinallyCloses(t) PROVE FALSE
  BY <1>8 DEF Send, RecvKeeps, FinallyCloses
<1>9. QED
  BY <1>1, <1>2, <1>3, <1>4, <1>5, <1>6, <1>7, <1>8 DEF HttpNext

-----------------------------------------------------------------------------
(* The sockets                                                             *)

(* A socket in a thread's hands, or idle, is live; nothing is leaked.      *)
InUseIsLive ==
  /\ \A t \in Threads : held[t] \subseteq live
  /\ \A t \in Threads : entry[t] # NoObject => entry[t] \in live
  /\ Objs(deque) \subseteq live
  /\ Idle = Objs(deque)

LEMMA LiveSockets == IInv => InUseIsLive
<1> SUFFICES ASSUME IInv PROVE InUseIsLive
  OBVIOUS
<1>1. Objs(deque) \subseteq Objects
  BY IdleAreObjects DEF IInv
<1>2. QED
  BY <1>1 DEF IInv, TypeOK, Placed, Idle, Objs, InUseIsLive

(* The socket of a thread that sends, receives or returns is live, and of  *)
(* two such threads it is not the same.                                    *)
LEMMA UsedSockets ==
  ASSUME HttpInv
  PROVE  /\ \A t \in Threads : At(t, "send") \/ At(t, "recv") \/ At(t, "return")
                                 => sock[t] \in live /\ sock[t] \in Objects
         /\ \A t, u \in Threads :
              /\ t # u
              /\ At(t, "send") \/ At(t, "recv") \/ At(t, "return")
              /\ At(u, "send") \/ At(u, "recv") \/ At(u, "return")
              => sock[t] # sock[u]
<1> DEFINE Uses(t) == At(t, "send") \/ At(t, "recv") \/ At(t, "return")
<1>0. IInv /\ TypeOK /\ live \subseteq Objects
  BY DEF HttpInv, IInv, TypeOK
<1>1. ASSUME NEW t \in Threads, Uses(t)
      PROVE  \/ held[t] = {sock[t]}
             \/ sock[t] = entry[t] /\ entry[t] # NoObject
  BY <1>0, <1>1 DEF HttpInv, Place, TypeOK, WithEntry
<1>2. ASSUME NEW t \in Threads, Uses(t)
      PROVE  sock[t] \in live /\ sock[t] \in Objects
  BY <1>0, <1>1, <1>2, LiveSockets DEF InUseIsLive
<1>3. ASSUME NEW t \in Threads, NEW u \in Threads, t # u, Uses(t), Uses(u)
      PROVE  sock[t] # sock[u]
  <2>1. /\ held[t] \cap held[u] = {}
        /\ entry[t] = entry[u] => entry[t] = NoObject
        /\ entry[t] \notin held[u] /\ entry[u] \notin held[t]
    BY <1>0, <1>3 DEF IInv, Exclusive, OneBorrowerEach, OneMethodEach, LentNotInMethod
  <2>2. QED
    BY <1>1, <1>3, <2>1
<1>4. QED
  BY <1>2, <1>3

(* When nothing is made, destroyed, sent, read or closed the sockets       *)
(* follow the pool trivially.                                              *)
LEMMA StillFollows ==
  ASSUME HttpInv, UNCHANGED <<live, wire, open, tainted>>
  PROVE  SocketsFollow
<1>1. wire = [s \in Objects |-> wire[s]]
  BY DEF HttpInv, JobTypeOK
<1>2. ASSUME NEW s \in Objects, s \notin live PROVE wire[s] = <<>>
  <2>1. s \notin tainted /\ \A t \in Threads : At(t, "recv") => sock[t] # s
    BY <1>2, UsedSockets DEF HttpInv, Sockets
  <2>2. QED
    BY <2>1 DEF HttpInv, Wires, UnaskedIsEmpty
<1>3. wire' = [s \in Objects |-> IF s \in live \cap live' THEN wire[s] ELSE <<>>]
  BY <1>1, <1>2
<1>4. open' = (open \cap live') \cup (live' \ live) /\ tainted' = tainted \cap live'
  BY DEF HttpInv, Sockets
<1>5. QED
  BY <1>3, <1>4 DEF SocketsFollow

(* The other threads are where they were.                                  *)
(* A thread goes on to another place, and has n responses still to read.    *)
LEMMA JobMoves ==
  ASSUME JobTypeOK, NEW t \in Threads,
         NEW a \in {"none", "borrow", "send", "recv", "return", "finally"},
         NEW n \in 0..Depth
  PROVE  /\ [job EXCEPT ![t].at = a] \in [Threads -> Jobs]
         /\ [job EXCEPT ![t].due = n, ![t].at = a] \in [Threads -> Jobs]
<1>1. job \in [Threads -> Jobs]
  BY DEF JobTypeOK, Jobs
<1>2. job[t] \in Jobs
  BY <1>1
<1>3. /\ [job[t] EXCEPT !.at = a] \in Jobs
      /\ [[job[t] EXCEPT !.due = n] EXCEPT !.at = a] \in Jobs
  BY <1>2 DEF Jobs
<1> HIDE DEF Jobs
<1>4. /\ [job EXCEPT ![t].at = a] = [job EXCEPT ![t] = [job[t] EXCEPT !.at = a]]
      /\ [job EXCEPT ![t].due = n, ![t].at = a]
           = [job EXCEPT ![t] = [[job[t] EXCEPT !.due = n] EXCEPT !.at = a]]
  BY <1>1
<1>5. QED
  BY <1>1, <1>3, <1>4

Others(t) == \A u \in Threads \ {t} :
  /\ job'[u] = job[u] /\ sock'[u] = sock[u]
  /\ held'[u] = held[u] /\ pc'[u] = pc[u] /\ entry'[u] = entry[u]

(* What a step of one thread t through the pool leaves of the invariant:   *)
(* everything about the other threads and the sockets, if t does not start *)
(* to wait and stops only with a socket that is destroyed, and a new       *)
(* socket is nobody's yet.                                                 *)
LEMMA FollowKeeps ==
  ASSUME HttpInv, IInv', SocketsFollow, UNCHANGED leaked,
         NEW t \in Threads, Others(t),
         ~At(t, "recv")',
         At(t, "recv") => sock[t] \notin live',
         \A u \in Threads : sock[u] \notin live' \ live
  PROVE  Sockets' /\ Wires' /\ \A u \in Threads \ {t} : Place(u)'
<1>a. InUseIsLive /\ InUseIsLive'
  <2>1. IInv
    BY DEF HttpInv
  <2>2. QED
    BY <2>1, LiveSockets, PTL
<1>0. /\ open \subseteq live /\ tainted \subseteq live /\ leaked = {}
      /\ live \ open \subseteq tainted
      /\ open' = (open \cap live') \cup (live' \ live)
      /\ tainted' = tainted \cap live'
  BY DEF HttpInv, Sockets, ClosedByOwner, SocketsFollow
<1>1. Sockets'
  BY <1>0 DEF Sockets, ClosedByOwner
<1>2. ASSUME NEW u \in Threads \ {t} PROVE Place(u)'
  <2>1. /\ job'[u] = job[u] /\ sock'[u] = sock[u] /\ held'[u] = held[u]
        /\ pc'[u] = pc[u] /\ entry'[u] = entry[u]
    BY DEF Others
  <2>2. sock[u] \in live' => sock[u] \in live
    OBVIOUS
  <2>3. ASSUME At(u, "return") PROVE sock[u] \in live'
    <3>1. held'[u] \subseteq live' /\ (entry'[u] # NoObject => entry'[u] \in live')
      BY <1>a DEF InUseIsLive
    <3>2. \/ held[u] = {sock[u]}
          \/ sock[u] = entry[u] /\ entry[u] # NoObject
      BY <2>3 DEF HttpInv, Place, IInv, TypeOK, WithEntry
    <3>3. QED
      BY <2>1, <3>1, <3>2
  <2>4. Place(u)
    BY DEF HttpInv
  <2>5. QED
    BY <1>0, <2>1, <2>2, <2>3, <2>4 DEF Place, At
<1>3. ASSUME NEW u \in Threads, At(u, "recv")'
      PROVE  u # t /\ At(u, "recv") /\ sock'[u] = sock[u] /\ job'[u] = job[u]
             /\ sock[u] \in live /\ sock[u] \in live' /\ sock[u] \in Objects
  <2>1. u # t
    BY <1>3
  <2>2. At(u, "recv") /\ sock'[u] = sock[u] /\ job'[u] = job[u] /\ held'[u] = held[u]
    BY <1>3, <2>1 DEF Others, At
  <2>3. held[u] = {sock[u]}
    BY <2>2 DEF HttpInv, Place
  <2>4. held[u] \subseteq live /\ held'[u] \subseteq live'
    BY <1>a DEF InUseIsLive
  <2>5. QED
    BY <2>1, <2>2, <2>3, <2>4, UsedSockets
<1>4. \A s \in Objects : wire'[s] = IF s \in live \cap live' THEN wire[s] ELSE <<>>
  BY DEF SocketsFollow
<1>5. OwnResponse'
  <2> SUFFICES ASSUME NEW u \in Threads, At(u, "recv")', sock'[u] \notin tainted'
               PROVE  wire'[sock'[u]] = Copies(u, job'[u].due)
    BY DEF OwnResponse, Copies
  <2>1. sock[u] \notin tainted
    BY <1>0, <1>3
  <2>2. wire[sock[u]] = Copies(u, job[u].due)
    BY <1>3, <2>1 DEF HttpInv, Wires, OwnResponse
  <2>3. QED
    BY <1>3, <1>4, <2>2
<1>6. UnaskedIsEmpty'
  <2> SUFFICES ASSUME NEW s \in Objects, s \notin tainted',
                      \A u \in Threads : At(u, "recv")' => sock'[u] # s
               PROVE  wire'[s] = <<>>
    BY DEF UnaskedIsEmpty
  <2>1. CASE s \notin live \cap live'
    BY <1>4, <2>1
  <2>2. CASE s \in live \cap live'
    <3>1. s \notin tainted
      BY <1>0, <2>2
    <3>2. ASSUME NEW u \in Threads, At(u, "recv") PROVE sock[u] # s
      <4>1. CASE u = t
        BY <2>2, <3>2, <4>1
      <4>2. CASE u # t
        BY <3>2, <4>2 DEF Others, At
      <4>3. QED
        BY <4>1, <4>2
    <3>3. wire[s] = <<>>
      BY <3>1, <3>2 DEF HttpInv, Wires, UnaskedIsEmpty
    <3>4. QED
      BY <1>4, <2>2, <3>3
  <2>3. QED
    BY <2>1, <2>2
<1>7. QED
  BY <1>1, <1>2, <1>5, <1>6 DEF Wires

-----------------------------------------------------------------------------
(* The steps                                                               *)

LEMMA DepthIsPositive == Depth \in Nat /\ Depth >= 1
  BY DepthAssumption

(* The invariant after a step, put together from its parts.                *)
LEMMA Together ==
  ASSUME IInv', JobTypeOK', Sockets', Wires', NEW t \in Threads, Place(t)',
         \A u \in Threads \ {t} : Place(u)'
  PROVE  HttpInv'
<1>1. \A u \in Threads : Place(u)'
  OBVIOUS
<1>2. QED
  BY <1>1 DEF HttpInv

LEMMA StartKeeps ==
  ASSUME HttpInv, IInv', NEW t \in Threads, NEW m \in Methods, Start(t, m)
  PROVE  HttpInv'
<1>0. TypeOK /\ JobTypeOK /\ Place(t) /\ leaked = {}
  BY DEF HttpInv, IInv, Sockets
<1>1. /\ job[t] = NoJob /\ BorrowStart(t)
      /\ job' = [job EXCEPT ![t] = [method |-> m, at |-> "borrow",
                                    due |-> IF m = "pipeline" THEN Depth ELSE 1]]
      /\ UNCHANGED <<live, wire, open, tainted>> /\ UNCHANGED <<sock, held, entry, leaked>>
  BY DEF Start, BorrowStart
<1>2. At(t, "none")
  BY <1>1 DEF At, NoJob
<1>3. /\ pc'[t] \in InBorrow
      /\ \A u \in Threads \ {t} : pc'[u] = pc[u]
  BY <1>0, <1>1, GoMoves DEF BorrowStart, InBorrow
<1>4. /\ job'[t].method = m /\ job'[t].at = "borrow"
      /\ job'[t].due \in 0..Depth /\ job'[t].due >= 1
      /\ \A u \in Threads \ {t} : job'[u] = job[u]
  BY <1>0, <1>1, DepthIsPositive DEF JobTypeOK
<1>5. JobTypeOK'
  BY <1>0, <1>1, DepthIsPositive DEF JobTypeOK
<1>6. Others(t)
  BY <1>1, <1>3, <1>4 DEF Others
<1>7. Place(t)'
  BY <1>0, <1>1, <1>2, <1>3, <1>4 DEF Place, At
<1>8. SocketsFollow
  BY <1>1, StillFollows
<1>9. ~At(t, "recv")' /\ ~At(t, "recv")
  BY <1>2, <1>4 DEF At
<1>10. \A u \in Threads : sock[u] \notin live' \ live
  BY <1>1
<1>11. QED
  BY <1>1, <1>5, <1>6, <1>7, <1>8, <1>9, <1>10, FollowKeeps, Together

(* The sweep of a borrower: it destroys idle sockets or holds one for a    *)
(* moment, but the thread has none yet.                                    *)
LEMMA SweepingKeeps ==
  ASSUME HttpInv, IInv', NEW t \in Threads, Sweeping(t)
  PROVE  HttpInv'
<1>0. TypeOK /\ JobTypeOK /\ Place(t)
  BY DEF HttpInv, IInv
<1>1. At(t, "borrow") /\ SocketsFollow /\ UNCHANGED <<job, sock>>
  BY DEF Sweeping
<1>2. /\ pc'[t] \in InBorrow
      /\ \A u \in Threads \ {t} : pc'[u] = pc[u]
  BY <1>0, GoMoves
  DEF Sweeping, ReadAccessed, TrySweep, SweepDestroys, SweepKeeps, OfferBack, SweepEnds,
      InBorrow, AfterKeep
<1>3. UNCHANGED <<held, leaked>> /\ \A u \in Threads \ {t} : entry'[u] = entry[u]
  BY <1>0
  DEF TypeOK, Sweeping, ReadAccessed, TrySweep, SweepDestroys, SweepKeeps, OfferBack,
      SweepEnds, Drop
<1>4. live' \subseteq live
  BY DEF Sweeping, ReadAccessed, TrySweep, SweepDestroys, SweepKeeps, OfferBack, SweepEnds,
         Destroy
<1>5. wire' \in [Objects -> Seq(Threads)]
  BY <1>0, <1>1 DEF JobTypeOK, SocketsFollow
<1>6. JobTypeOK'
  BY <1>0, <1>1, <1>5 DEF JobTypeOK
<1>7. Others(t)
  BY <1>1, <1>2, <1>3 DEF Others
<1>8. Place(t)'
  BY <1>0, <1>1, <1>2, <1>3 DEF Place, At
<1>9. ~At(t, "recv")' /\ ~At(t, "recv")
  BY <1>1 DEF At
<1>10. QED
  BY <1>1, <1>3, <1>4, <1>6, <1>7, <1>8, <1>9, FollowKeeps, Together

(* The borrower gets the idle socket or the new one, and only that one.    *)
LEMMA BorrowedKeeps ==
  ASSUME HttpInv, IInv', NEW t \in Threads, Borrowed(t)
  PROVE  HttpInv'
<1>0. TypeOK /\ JobTypeOK /\ Place(t) /\ leaked = {} /\ IInv
  BY DEF HttpInv, IInv, Sockets
<1>1. /\ At(t, "borrow") /\ SocketsFollow /\ leaked' = leaked
      /\ job' = [job EXCEPT ![t].at = "send"]
      /\ sock' = [sock EXCEPT ![t] = CHOOSE s \in held'[t] : TRUE]
      /\ \A u \in Threads : sock[u] \notin live' \ live
  BY DEF Borrowed
<1>2. held[t] = {}
  BY <1>0, <1>1 DEF Place
<1>3. PICK s \in Objects : held' = [held EXCEPT ![t] = @ \cup {s}]
  <2>1. CASE TakeIdle(t)
    <3>1. First.obj \in Objects
      BY <1>0, <2>1, Polled DEF TakeIdle
    <3>2. QED
      BY <2>1, <3>1 DEF TakeIdle
  <2>2. CASE Make(t)
    <3>1. PICK o \in Objects \ live :
             \/ held' = [held EXCEPT ![t] = @ \cup {o}]
             \/ leaked' = leaked \cup {o}
      BY <2>2 DEF Make
    <3>2. leaked' # leaked \cup {o}
      BY <1>0, <1>1
    <3>3. QED
      BY <3>1, <3>2
  <2>3. QED
    BY <2>1, <2>2 DEF Borrowed
<1>4. held'[t] = {s} /\ \A u \in Threads \ {t} : held'[u] = held[u]
  BY <1>0, <1>2, <1>3 DEF TypeOK
<1>5. (CHOOSE x \in held'[t] : TRUE) = s
  BY <1>4
<1>6. sock'[t] = s /\ sock' \in [Threads -> Objects \cup {NoObject}]
      /\ \A u \in Threads \ {t} : sock'[u] = sock[u]
  BY <1>0, <1>1, <1>5 DEF JobTypeOK
<1>7. /\ pc'[t] = "idle"
      /\ \A u \in Threads \ {t} : pc'[u] = pc[u]
      /\ entry' = entry
  <2>1. Go(t, "take", "idle") /\ entry' = entry
    BY DEF Borrowed, TakeIdle, Make
  <2>2. QED
    BY <1>0, <2>1, GoMoves
<1>8. /\ job'[t].at = "send" /\ job'[t].due = job[t].due
      /\ \A u \in Threads \ {t} : job'[u] = job[u]
  BY <1>0, <1>1 DEF JobTypeOK
<1>9. JobTypeOK'
  <2>1. wire' \in [Objects -> Seq(Threads)]
    BY <1>0, <1>1 DEF JobTypeOK, SocketsFollow
  <2>2. job' \in [Threads -> Jobs]
    <3>1. 0 \in 0..Depth
      BY DepthIsPositive
    <3>2. QED
      BY <1>0, <1>1, <3>1, JobMoves
  <2>3. QED
    BY <1>6, <2>1, <2>2 DEF JobTypeOK, Jobs
<1>10. Others(t)
  BY <1>4, <1>6, <1>7, <1>8 DEF Others
<1>11. Place(t)'
  BY <1>0, <1>1, <1>4, <1>6, <1>7, <1>8 DEF Place, At
<1>12. ~At(t, "recv")' /\ ~At(t, "recv")
  BY <1>1, <1>8 DEF At
<1>13. QED
  BY <1>1, <1>9, <1>10, <1>11, <1>12, FollowKeeps, Together

(* A method ends without a socket in its hands.                            *)
LEMMA ConnectFailsKeeps ==
  ASSUME HttpInv, IInv', NEW t \in Threads, ConnectFails(t)
  PROVE  HttpInv'
<1>0. TypeOK /\ JobTypeOK /\ Place(t)
  BY DEF HttpInv, IInv
<1>1. /\ At(t, "borrow") /\ Ends(t)
      /\ UNCHANGED <<live, wire, open, tainted>> /\ UNCHANGED <<held, entry, leaked>>
  BY DEF ConnectFails, MakeFails
<1>2. /\ pc'[t] = "idle"
      /\ \A u \in Threads \ {t} : pc'[u] = pc[u]
  BY <1>0, GoMoves DEF ConnectFails, MakeFails
<1>3. /\ job'[t] = NoJob /\ sock'[t] = NoObject
      /\ \A u \in Threads \ {t} : job'[u] = job[u] /\ sock'[u] = sock[u]
  BY <1>0, <1>1 DEF JobTypeOK, Ends
<1>4. JobTypeOK'
  BY <1>0, <1>1, DepthIsPositive DEF JobTypeOK, Ends, NoJob
<1>5. Others(t)
  BY <1>1, <1>2, <1>3 DEF Others
<1>6. Place(t)' /\ ~At(t, "recv")'
  BY <1>0, <1>1, <1>2, <1>3 DEF Place, At, NoJob
<1>7. SocketsFollow
  BY <1>1, StillFollows
<1>8. ~At(t, "recv") /\ \A u \in Threads : sock[u] \notin live' \ live
  BY <1>1 DEF At
<1>9. QED
  BY <1>1, <1>4, <1>5, <1>6, <1>7, <1>8, FollowKeeps, Together

(* The owner closes its socket: whatever was unread goes with it.          *)
LEMMA CloseOwnKeeps ==
  ASSUME HttpInv, IInv', NEW t \in Threads, At(t, "send") \/ At(t, "recv"), CloseOwn(t)
  PROVE  HttpInv'
<1>0. TypeOK /\ JobTypeOK /\ Place(t)
  BY DEF HttpInv, IInv
<1>1. /\ held' = [held EXCEPT ![t] = @ \ {sock[t]}]
      /\ live' = live \ {sock[t]}
      /\ SocketsFollow /\ Ends(t)
      /\ UNCHANGED <<pc, entry, leaked>>
  BY DEF CloseOwn, Destroy
<1>2. held[t] = {sock[t]} /\ pc[t] = "idle"
  BY <1>0 DEF Place
<1>3. held'[t] = {} /\ \A u \in Threads \ {t} : held'[u] = held[u]
  BY <1>0, <1>1, <1>2 DEF TypeOK
<1>4. /\ job'[t] = NoJob /\ sock'[t] = NoObject
      /\ \A u \in Threads \ {t} : job'[u] = job[u] /\ sock'[u] = sock[u]
  BY <1>0, <1>1 DEF JobTypeOK, Ends
<1>5. JobTypeOK'
  <2>1. wire' \in [Objects -> Seq(Threads)]
    BY <1>0, <1>1 DEF JobTypeOK, SocketsFollow
  <2>2. QED
    BY <1>0, <1>1, <2>1, DepthIsPositive DEF JobTypeOK, Ends, NoJob
<1>6. Others(t)
  BY <1>1, <1>3, <1>4 DEF Others
<1>7. Place(t)' /\ ~At(t, "recv")'
  BY <1>1, <1>2, <1>3, <1>4 DEF Place, At, NoJob
<1>8. sock[t] \notin live' /\ \A u \in Threads : sock[u] \notin live' \ live
  BY <1>1
<1>9. QED
  BY <1>1, <1>5, <1>6, <1>7, <1>8, FollowKeeps, Together

LEMMA ReturnStartsKeeps ==
  ASSUME HttpInv, IInv', NEW t \in Threads, ReturnStarts(t)
  PROVE  HttpInv'
<1>0. TypeOK /\ JobTypeOK /\ Place(t)
  BY DEF HttpInv, IInv
<1>1. /\ At(t, "return") /\ Go(t, "idle", "stamp")
      /\ held' = [held EXCEPT ![t] = @ \ {sock[t]}]
      /\ entry' = [entry EXCEPT ![t] = sock[t]]
      /\ UNCHANGED <<live, leaked>>
      /\ UNCHANGED <<job, sock, wire, open, tainted>>
  BY DEF ReturnStarts, ReturnToOpen, http
<1>2. /\ pc[t] = "idle" /\ pc'[t] = "stamp"
      /\ \A u \in Threads \ {t} : pc'[u] = pc[u]
  BY <1>0, <1>1, GoMoves
<1>3. held[t] = {sock[t]}
  BY <1>0, <1>1, <1>2 DEF Place
<1>4. /\ held'[t] = {} /\ entry'[t] = sock[t]
      /\ \A u \in Threads \ {t} : held'[u] = held[u] /\ entry'[u] = entry[u]
  BY <1>0, <1>1, <1>3 DEF TypeOK
<1>5. JobTypeOK'
  BY <1>0, <1>1 DEF JobTypeOK
<1>6. Others(t)
  BY <1>1, <1>2, <1>4 DEF Others
<1>7. Place(t)' /\ ~At(t, "recv")' /\ ~At(t, "recv")
  BY <1>0, <1>1, <1>2, <1>4 DEF Place, At
<1>8. SocketsFollow
  BY <1>1, StillFollows
<1>9. \A u \in Threads : sock[u] \notin live' \ live
  BY <1>1
<1>10. QED
  BY <1>1, <1>5, <1>6, <1>7, <1>8, <1>9, FollowKeeps, Together

(* After the offer the method ends, except that of postWithOutResponse,    *)
(* whose finally block still has the socket: it is tainted or destroyed.   *)
LEMMA ReturnEndsKeeps ==
  ASSUME HttpInv, IInv', NEW t \in Threads, ReturnEnds(t)
  PROVE  HttpInv'
<1>0. TypeOK /\ JobTypeOK /\ Place(t)
  BY DEF HttpInv, IInv
<1>1. At(t, "return") /\ SocketsFollow
  BY DEF ReturnEnds
<1>2. JobTypeOK'
  <2>1. wire' \in [Objects -> Seq(Threads)]
    BY <1>0, <1>1 DEF JobTypeOK, SocketsFollow
  <2>2. CASE UNCHANGED <<job, sock>>
    BY <1>0, <2>1, <2>2 DEF JobTypeOK
  <2>3. CASE Ends(t)
    BY <1>0, <2>1, <2>3, DepthIsPositive DEF JobTypeOK, Ends, NoJob
  <2>4. CASE job' = [job EXCEPT ![t].at = "finally"] /\ UNCHANGED sock
    BY <1>0, <2>1, <2>4 DEF JobTypeOK
  <2>5. QED
    BY <2>2, <2>3, <2>4 DEF ReturnEnds, AfterReturn
<1>3. /\ UNCHANGED leaked /\ live' \subseteq live
      /\ \A u \in Threads \ {t} : /\ pc'[u] = pc[u] /\ entry'[u] = entry[u]
                                  /\ held'[u] = held[u]
  <2>1. CASE Stamp(t) \/ Offer(t)
    <3>1. /\ UNCHANGED <<leaked, held, live>>
          /\ \A u \in Threads \ {t} : entry'[u] = entry[u]
      BY <1>0, <2>1 DEF TypeOK, Stamp, Offer, Drop
    <3>2. \A u \in Threads \ {t} : pc'[u] = pc[u]
      BY <1>0, <2>1, GoMoves DEF Stamp, Offer
    <3>3. QED
      BY <3>1, <3>2
  <2>2. CASE ReturnDestroys(t, sock[t])
    BY <1>0, <2>2 DEF TypeOK, ReturnDestroys, Destroy
  <2>3. QED
    BY <2>1, <2>2 DEF ReturnEnds
<1>4. \A u \in Threads \ {t} : job'[u] = job[u] /\ sock'[u] = sock[u]
  BY <1>0 DEF ReturnEnds, AfterReturn, Ends, JobTypeOK
<1>5. Others(t)
  BY <1>3, <1>4 DEF Others
<1>6. Place(t)' /\ ~At(t, "recv")'
  <2>1. CASE Stamp(t) /\ UNCHANGED <<job, sock>>
    <3>1. /\ pc[t] = "stamp" /\ pc'[t] = "offer"
          /\ UNCHANGED <<held, entry, live>>
      BY <1>0, <2>1, GoMoves DEF Stamp
    <3>2. tainted' = tainted
      BY <3>1, <1>1 DEF SocketsFollow, HttpInv, Sockets
    <3>3. QED
      BY <1>0, <1>1, <2>1, <3>1, <3>2 DEF Place, At
  <2>2. ASSUME pc'[t] = "idle", held'[t] = {}, AfterReturn(t),
               job[t].method = "withOutResponse" /\ sock[t] \in live' => sock[t] \in tainted'
        PROVE  Place(t)' /\ ~At(t, "recv")'
    <3>1. CASE job[t].method = "withOutResponse"
      <4>1. job'[t].at = "finally" /\ sock'[t] = sock[t]
        BY <1>0, <2>2, <3>1 DEF AfterReturn, JobTypeOK
      <4>2. QED
        BY <2>2, <3>1, <4>1 DEF Place, At
    <3>2. CASE job[t].method # "withOutResponse"
      <4>1. job'[t] = NoJob /\ sock'[t] = NoObject
        BY <1>0, <2>2, <3>2 DEF AfterReturn, Ends, JobTypeOK
      <4>2. QED
        BY <2>2, <4>1 DEF Place, At, NoJob
    <3>3. QED
      BY <3>1, <3>2
  <2>3. job[t].method = "withOutResponse" /\ sock[t] \in live' => sock[t] \in tainted'
    BY <1>0, <1>1 DEF Place, SocketsFollow
  <2>4. CASE Offer(t) /\ AfterReturn(t)
    <3>1. pc[t] = "offer" /\ pc'[t] = "idle" /\ held' = held
      BY <1>0, <2>4, GoMoves DEF Offer
    <3>2. held[t] = {}
      BY <1>0, <1>1, <3>1 DEF Place
    <3>3. QED
      BY <2>2, <2>3, <2>4, <3>1, <3>2
  <2>5. CASE ReturnDestroys(t, sock[t]) /\ AfterReturn(t)
    <3>1. pc[t] = "idle" /\ pc' = pc /\ held' = [held EXCEPT ![t] = @ \ {sock[t]}]
      BY <2>5 DEF ReturnDestroys
    <3>2. held[t] = {sock[t]}
      BY <1>0, <1>1, <3>1 DEF Place
    <3>3. held'[t] = {}
      BY <1>0, <3>1, <3>2 DEF TypeOK
    <3>4. QED
      BY <2>2, <2>3, <2>5, <3>1, <3>3
  <2>6. QED
    BY <2>1, <2>4, <2>5 DEF ReturnEnds
<1>7. ~At(t, "recv") /\ \A u \in Threads : sock[u] \notin live' \ live
  BY <1>1, <1>3 DEF At
<1>8. QED
  BY <1>1, <1>2, <1>3, <1>5, <1>6, <1>7, FollowKeeps, Together

(* close and reopen, by a thread that runs no request.                     *)
LEMMA ManageKeeps ==
  ASSUME HttpInv, IInv', NEW t \in Threads, Manage(t)
  PROVE  HttpInv'
<1>0. TypeOK /\ JobTypeOK /\ Place(t)
  BY DEF HttpInv, IInv
<1>1. At(t, "none") /\ SocketsFollow /\ UNCHANGED <<job, sock>>
  BY DEF Manage, At, NoJob
<1>2. /\ pc'[t] \in {"idle", "drain"}
      /\ \A u \in Threads \ {t} : pc'[u] = pc[u]
  <2>1. CASE Reopen(t)
    BY <2>1 DEF Reopen
  <2>2. CASE CloseStart(t) \/ Drain(t) \/ CloseEnds(t)
    BY <1>0, <2>2, GoMoves DEF CloseStart, Drain, CloseEnds
  <2>3. QED
    BY <2>1, <2>2 DEF Manage
<1>3. UNCHANGED <<held, leaked, entry>> /\ live' \subseteq live
  BY DEF Manage, CloseStart, Reopen, Drain, CloseEnds, Destroy
<1>4. JobTypeOK'
  <2>1. wire' \in [Objects -> Seq(Threads)]
    BY <1>0, <1>1 DEF JobTypeOK, SocketsFollow
  <2>2. QED
    BY <1>0, <1>1, <2>1 DEF JobTypeOK
<1>5. Others(t)
  BY <1>1, <1>2, <1>3 DEF Others
<1>6. Place(t)' /\ ~At(t, "recv")' /\ ~At(t, "recv")
  BY <1>0, <1>1, <1>2, <1>3 DEF Place, At
<1>7. \A u \in Threads : sock[u] \notin live' \ live
  BY <1>3
<1>8. QED
  BY <1>1, <1>3, <1>4, <1>5, <1>6, <1>7, FollowKeeps, Together

-----------------------------------------------------------------------------
(* What goes over the sockets                                              *)

LEMMA CopiesProperties ==
  ASSUME NEW t \in Threads, NEW n \in Nat
  PROVE  /\ Copies(t, n) \in Seq(Threads) /\ Len(Copies(t, n)) = n
         /\ \A i \in 1..n : Copies(t, n)[i] = t
  BY DEF Copies

(* A request on a clean socket, and the first of n responses.              *)
LEMMA CopiesSent ==
  ASSUME NEW t \in Threads, NEW n \in Nat
  PROVE  <<>> \o Copies(t, n) = Copies(t, n)
  BY CopiesProperties

LEMMA CopiesRead ==
  ASSUME NEW t \in Threads, NEW n \in Nat, n >= 1
  PROVE  Tail(Copies(t, n)) = Copies(t, n - 1)
<1>1. /\ Copies(t, n) \in Seq(Threads) /\ Len(Copies(t, n)) = n
      /\ \A i \in 1..n : Copies(t, n)[i] = t
  BY CopiesProperties
<1>2. /\ Tail(Copies(t, n)) \in Seq(Threads) /\ Len(Tail(Copies(t, n))) = n - 1
      /\ \A i \in 1..(n - 1) : Tail(Copies(t, n))[i] = t
  BY <1>1
<1>3. /\ Copies(t, n - 1) \in Seq(Threads) /\ Len(Copies(t, n - 1)) = n - 1
      /\ \A i \in 1..(n - 1) : Copies(t, n - 1)[i] = t
  <2>1. n - 1 \in Nat
    OBVIOUS
  <2>2. QED
    BY <2>1, CopiesProperties
<1>4. QED
  BY <1>2, <1>3, SeqEqual

LEMMA NoCopies == ASSUME NEW t \in Threads PROVE Copies(t, 0) = <<>>
  BY CopiesProperties

(* A step of one thread that uses its socket and leaves the pool alone.    *)
UsesSocket(t) ==
  /\ UNCHANGED <<held, pc, entry, live, leaked, sock>>
  /\ \A u \in Threads \ {t} : job'[u] = job[u]

LEMMA UsesKeepsPlaces ==
  ASSUME HttpInv, NEW t \in Threads, UsesSocket(t), tainted \subseteq tainted'
  PROVE  \A u \in Threads \ {t} : Place(u)'
<1> SUFFICES ASSUME NEW u \in Threads \ {t} PROVE Place(u)'
  OBVIOUS
<1>1. /\ job'[u] = job[u] /\ UNCHANGED <<held, pc, entry, live, sock>>
  BY DEF UsesSocket
<1>2. Place(u)
  BY DEF HttpInv
<1>3. QED
  BY <1>1, <1>2 DEF Place, At

LEMMA SendKeeps ==
  ASSUME HttpInv, IInv', NEW t \in Threads, Send(t)
  PROVE  HttpInv'
<1> DEFINE s == sock[t]
           n == job[t].due
<1>0. /\ TypeOK /\ JobTypeOK /\ Place(t) /\ Sockets /\ OwnResponse /\ UnaskedIsEmpty
  BY DEF HttpInv, IInv, Wires
<1>1. /\ At(t, "send") /\ UNCHANGED vars /\ UNCHANGED <<sock, open>> /\ s \in open
      /\ wire' = [wire EXCEPT ![s] = @ \o Copies(t, n)]
      /\ \/ /\ job[t].method = "withOutResponse"
            /\ job' = [job EXCEPT ![t].at = "return"] /\ tainted' = tainted \cup {s}
         \/ /\ job[t].method # "withOutResponse"
            /\ job' = [job EXCEPT ![t].at = "recv"] /\ tainted' = tainted
  BY DEF Send
<1>2. /\ UNCHANGED <<held, pc, entry, live, leaked>>
  BY <1>1 DEF vars
<1>3. s \in live /\ s \in Objects /\ \A u \in Threads \ {t} : At(u, "recv") => sock[u] # s
  BY <1>1, UsedSockets
<1>4. /\ job'[t].method = job[t].method /\ job'[t].due = n
      /\ job'[t].at = IF job[t].method = "withOutResponse" THEN "return" ELSE "recv"
      /\ \A u \in Threads \ {t} : job'[u] = job[u]
  BY <1>0, <1>1 DEF JobTypeOK
<1>5. n \in Nat /\ wire[s] \in Seq(Threads)
  BY <1>0, <1>3, DepthIsPositive DEF JobTypeOK
<1>6. Copies(t, n) \in Seq(Threads)
  BY <1>5, CopiesProperties
<1>7. /\ wire'[s] = wire[s] \o Copies(t, n)
      /\ \A x \in Objects \ {s} : wire'[x] = wire[x]
  BY <1>0, <1>1, <1>3 DEF JobTypeOK
<1>8. JobTypeOK'
  <2>1. wire[s] \o Copies(t, n) \in Seq(Threads)
    BY <1>5, <1>6
  <2>2. wire' \in [Objects -> Seq(Threads)]
    BY <1>0, <1>1, <2>1 DEF JobTypeOK
  <2>3. job' \in [Threads -> Jobs]
    <3>1. 0 \in 0..Depth
      BY DepthIsPositive
    <3>2. \/ job' = [job EXCEPT ![t].at = "return"]
          \/ job' = [job EXCEPT ![t].at = "recv"]
      BY <1>1
    <3>3. /\ [job EXCEPT ![t].at = "return"] \in [Threads -> Jobs]
          /\ [job EXCEPT ![t].at = "recv"] \in [Threads -> Jobs]
      BY <1>0, <3>1, JobMoves
    <3>4. QED
      BY <3>2, <3>3
  <2>4. sock' \in [Threads -> Objects \cup {NoObject}]
    BY <1>0, <1>1 DEF JobTypeOK
  <2>5. QED
    BY <2>2, <2>3, <2>4 DEF JobTypeOK, Jobs
<1>9. Sockets'
  BY <1>0, <1>1, <1>2, <1>3 DEF Sockets, ClosedByOwner
<1>10. OwnResponse'
  <2> SUFFICES ASSUME NEW u \in Threads, At(u, "recv")', sock[u] \notin tainted'
               PROVE  wire'[sock[u]] = Copies(u, job'[u].due)
    BY <1>1 DEF OwnResponse, Copies
  <2>1. sock[u] \notin tainted
    BY <1>1
  <2>2. CASE u = t
    <3>1. \A v \in Threads : At(v, "recv") => sock[v] # s
      BY <1>1, <1>3 DEF At
    <3>2. wire[s] = <<>>
      BY <1>0, <1>3, <2>1, <2>2, <3>1 DEF UnaskedIsEmpty
    <3>3. wire'[s] = Copies(t, n)
      BY <1>5, <1>7, <3>2, CopiesSent
    <3>4. QED
      BY <1>4, <2>2, <3>3
  <2>3. CASE u # t
    <3>1. job'[u] = job[u] /\ At(u, "recv")
      BY <1>4, <2>3 DEF At
    <3>2. sock[u] # s /\ sock[u] \in Objects
      BY <1>3, <2>3, <3>1, UsedSockets
    <3>3. wire[sock[u]] = Copies(u, job[u].due)
      BY <1>0, <2>1, <3>1 DEF OwnResponse
    <3>4. QED
      BY <1>7, <3>1, <3>2, <3>3
  <2>4. QED
    BY <2>2, <2>3
<1>11. UnaskedIsEmpty'
  <2> SUFFICES ASSUME NEW x \in Objects, x \notin tainted',
                      \A u \in Threads : At(u, "recv")' => sock[u] # x
               PROVE  wire'[x] = <<>>
    BY <1>1 DEF UnaskedIsEmpty
  <2>1. x # s
    BY <1>1, <1>4 DEF At
  <2>2. x \notin tainted
    BY <1>1
  <2>3. \A u \in Threads : At(u, "recv") => sock[u] # x
    BY <1>1, <1>4 DEF At
  <2>4. QED
    BY <1>0, <1>7, <2>1, <2>2, <2>3 DEF UnaskedIsEmpty
<1>12. Place(t)'
  BY <1>0, <1>1, <1>2, <1>4 DEF Place, At
<1>13. UsesSocket(t) /\ tainted \subseteq tainted'
  BY <1>1, <1>2, <1>4 DEF UsesSocket
<1>14. QED
  BY <1>8, <1>9, <1>10, <1>11, <1>12, <1>13, UsesKeepsPlaces, Together DEF Wires

LEMMA RecvKeepsKeeps ==
  ASSUME HttpInv, IInv', NEW t \in Threads, RecvKeeps(t)
  PROVE  HttpInv'
<1> DEFINE s == sock[t]
           n == job[t].due
<1>0. /\ TypeOK /\ JobTypeOK /\ Place(t) /\ Sockets /\ OwnResponse /\ UnaskedIsEmpty
  BY DEF HttpInv, IInv, Wires
<1>1. /\ At(t, "recv") /\ UNCHANGED vars /\ UNCHANGED <<sock, open, tainted>>
      /\ s \in open /\ wire[s] # <<>>
      /\ wire' = [wire EXCEPT ![s] = Tail(@)]
      /\ job' = [job EXCEPT ![t].due = @ - 1,
                            ![t].at = IF job[t].due > 1 THEN "recv" ELSE "return"]
  BY DEF RecvKeeps
<1>2. UNCHANGED <<held, pc, entry, live, leaked>>
  BY <1>1 DEF vars
<1>3. s \in live /\ s \in Objects /\ \A u \in Threads \ {t} : At(u, "recv") => sock[u] # s
  BY <1>1, UsedSockets
<1>4. /\ job'[t].method = job[t].method /\ job'[t].due = n - 1
      /\ job'[t].at = IF n > 1 THEN "recv" ELSE "return"
      /\ \A u \in Threads \ {t} : job'[u] = job[u]
  BY <1>0, <1>1 DEF JobTypeOK
<1>5. n \in Nat /\ n >= 1 /\ n - 1 \in 0..Depth /\ wire[s] \in Seq(Threads)
  <2>1. n \in 0..Depth /\ wire[s] \in Seq(Threads)
    BY <1>0, <1>3 DEF JobTypeOK
  <2>2. n >= 1
    BY <1>0, <1>1 DEF Place, At
  <2>3. QED
    BY <2>1, <2>2, DepthIsPositive
<1>6. Tail(wire[s]) \in Seq(Threads)
  BY <1>1, <1>5
<1>7. /\ wire'[s] = Tail(wire[s])
      /\ \A x \in Objects \ {s} : wire'[x] = wire[x]
  BY <1>0, <1>1, <1>3 DEF JobTypeOK
<1>8. JobTypeOK'
  <2>1. wire' \in [Objects -> Seq(Threads)]
    BY <1>0, <1>1, <1>6 DEF JobTypeOK
  <2>2. job' \in [Threads -> Jobs]
    <3>1. (IF n > 1 THEN "recv" ELSE "return") \in {"recv", "return"}
      OBVIOUS
    <3>2. QED
      BY <1>0, <1>1, <1>5, <3>1, JobMoves
  <2>3. sock' \in [Threads -> Objects \cup {NoObject}]
    BY <1>0, <1>1 DEF JobTypeOK
  <2>4. QED
    BY <2>1, <2>2, <2>3 DEF JobTypeOK, Jobs
<1>9. Sockets'
  BY <1>0, <1>1, <1>2 DEF Sockets, ClosedByOwner
<1>10. s \notin tainted => wire'[s] = Copies(t, n - 1)
  <2>1. s \notin tainted => wire[s] = Copies(t, n)
    BY <1>0, <1>1 DEF OwnResponse
  <2>2. QED
    BY <1>5, <1>7, <2>1, CopiesRead
<1>11. OwnResponse'
  <2> SUFFICES ASSUME NEW u \in Threads, At(u, "recv")', sock[u] \notin tainted
               PROVE  wire'[sock[u]] = Copies(u, job'[u].due)
    BY <1>1 DEF OwnResponse, Copies
  <2>1. CASE u = t
    BY <1>4, <1>10, <2>1
  <2>2. CASE u # t
    <3>1. job'[u] = job[u] /\ At(u, "recv")
      BY <1>4, <2>2 DEF At
    <3>2. sock[u] # s /\ sock[u] \in Objects
      BY <1>3, <2>2, <3>1, UsedSockets
    <3>3. wire[sock[u]] = Copies(u, job[u].due)
      BY <1>0, <3>1 DEF OwnResponse
    <3>4. QED
      BY <1>7, <3>1, <3>2, <3>3
  <2>3. QED
    BY <2>1, <2>2
<1>12. UnaskedIsEmpty'
  <2> SUFFICES ASSUME NEW x \in Objects, x \notin tainted,
                      \A u \in Threads : At(u, "recv")' => sock[u] # x
               PROVE  wire'[x] = <<>>
    BY <1>1 DEF UnaskedIsEmpty
  <2>1. CASE x = s
    <3>1. ~(n > 1)
      BY <1>4, <2>1 DEF At
    <3>2. n = 1 /\ n - 1 = 0
      BY <1>5, <3>1
    <3>3. QED
      BY <1>10, <2>1, <3>2, NoCopies
  <2>2. CASE x # s
    <3>1. \A u \in Threads : At(u, "recv") => sock[u] # x
      BY <1>4, <2>2 DEF At
    <3>2. QED
      BY <1>0, <1>7, <2>2, <3>1 DEF UnaskedIsEmpty
  <2>3. QED
    BY <2>1, <2>2
<1>13. Place(t)'
  <2>1. n > 1 => job'[t].due >= 1
    BY <1>4, <1>5
  <2>2. held[t] = {s} /\ pc[t] = "idle" /\ job[t].method # "withOutResponse"
    BY <1>0, <1>1 DEF Place
  <2>3. QED
    BY <1>1, <1>2, <1>4, <2>1, <2>2 DEF Place, At
<1>14. UsesSocket(t) /\ tainted \subseteq tainted'
  BY <1>1, <1>2, <1>4 DEF UsesSocket
<1>15. QED
  BY <1>8, <1>9, <1>11, <1>12, <1>13, <1>14, UsesKeepsPlaces, Together DEF Wires

(* The second close of postWithOutResponse may meet a socket that is idle  *)
(* again, lent to another thread or gone, but a tainted one always.        *)
LEMMA FinallyClosesKeeps ==
  ASSUME HttpInv, IInv', NEW t \in Threads, FinallyCloses(t)
  PROVE  HttpInv'
<1>0. /\ TypeOK /\ JobTypeOK /\ Place(t) /\ Sockets /\ OwnResponse /\ UnaskedIsEmpty
  BY DEF HttpInv, IInv, Wires
<1>1. /\ At(t, "finally") /\ Ends(t)
      /\ open' = open \ {sock[t]}
      /\ UNCHANGED <<held, pc, entry, live, leaked>> /\ UNCHANGED <<wire, tainted>>
  BY DEF FinallyCloses, vars
<1>2. /\ job'[t] = NoJob /\ sock'[t] = NoObject
      /\ \A u \in Threads \ {t} : job'[u] = job[u] /\ sock'[u] = sock[u]
  BY <1>0, <1>1 DEF JobTypeOK, Ends
<1>3. JobTypeOK'
  BY <1>0, <1>1, DepthIsPositive DEF JobTypeOK, Ends, NoJob
<1>4. Sockets'
  BY <1>0, <1>1 DEF Place, Sockets, ClosedByOwner
<1>5. \A u \in Threads : \/ /\ At(u, "recv")' /\ At(u, "recv")
                            /\ job'[u] = job[u] /\ sock'[u] = sock[u]
                         \/ ~At(u, "recv")' /\ ~At(u, "recv")
  BY <1>1, <1>2 DEF At, NoJob
<1>6. OwnResponse'
  BY <1>0, <1>1, <1>5 DEF OwnResponse, Copies
<1>7. UnaskedIsEmpty'
  BY <1>0, <1>1, <1>5 DEF UnaskedIsEmpty
<1>8. Place(t)'
  BY <1>0, <1>1, <1>2 DEF Place, At, NoJob
<1>9. \A u \in Threads \ {t} : Place(u)'
  <2> SUFFICES ASSUME NEW u \in Threads \ {t} PROVE Place(u)'
    OBVIOUS
  <2>1. Place(u)
    BY DEF HttpInv
  <2>2. QED
    BY <1>1, <1>2, <2>1 DEF Place, At
<1>10. QED
  BY <1>3, <1>4, <1>6, <1>7, <1>8, <1>9, Together DEF Wires

LEMMA ClockKeeps ==
  ASSUME HttpInv, IInv', UNCHANGED <<held, pc, entry, live, leaked, http>>
  PROVE  HttpInv'
<1> USE DEF http
<1>1. JobTypeOK' /\ Sockets'
  BY DEF HttpInv, JobTypeOK, Sockets, ClosedByOwner
<1>2. OwnResponse' /\ UnaskedIsEmpty'
  BY DEF HttpInv, Wires, OwnResponse, UnaskedIsEmpty, At, Copies
<1>3. \A t \in Threads : Place(t)'
  BY DEF HttpInv, Place, At
<1>4. QED
  BY <1>1, <1>2, <1>3 DEF HttpInv, Wires

-----------------------------------------------------------------------------
(* The theorems                                                            *)

LEMMA InitHttpInv == HttpInit => HttpInv
<1> SUFFICES ASSUME HttpInit PROVE HttpInv
  OBVIOUS
<1>1. IInv
  BY InitIInv DEF HttpInit
<1>2. JobTypeOK
  BY DepthIsPositive DEF HttpInit, JobTypeOK, NoJob
<1>3. \A t \in Threads : At(t, "none") /\ held[t] = {} /\ sock[t] = NoObject /\ pc[t] = "idle"
  BY DEF HttpInit, Init, At, NoJob
<1>4. \A t \in Threads : Place(t)
  BY <1>3 DEF Place, At
<1>5. Sockets
  BY DEF HttpInit, Init, Sockets, ClosedByOwner
<1>6. Wires
  BY <1>3 DEF HttpInit, Wires, OwnResponse, UnaskedIsEmpty, At
<1>7. QED
  BY <1>1, <1>2, <1>4, <1>5, <1>6 DEF HttpInv

LEMMA NextHttpInv == HttpInv /\ [HttpNext]_<<vars, http>> => HttpInv'
<1> SUFFICES ASSUME HttpInv, [HttpNext]_<<vars, http>> PROVE HttpInv'
  OBVIOUS
<1>1. IInv'
  BY StepOfPool, NextIInv DEF HttpInv
<1>2. CASE UNCHANGED <<vars, http>> \/ (Tick /\ UNCHANGED http)
  BY <1>1, <1>2, ClockKeeps DEF Tick, vars
<1>3. ASSUME NEW t \in Threads, RecvCloses(t) \/ Fails(t) PROVE HttpInv'
  BY <1>1, <1>3, CloseOwnKeeps DEF RecvCloses, Fails
<1>4. QED
  BY <1>1, <1>2, <1>3, StartKeeps, SweepingKeeps, BorrowedKeeps, ConnectFailsKeeps, SendKeeps,
     RecvKeepsKeeps, ReturnStartsKeeps, ReturnEndsKeeps, FinallyClosesKeeps, ManageKeeps
  DEF HttpNext

LEMMA HttpInvariant == HttpSpec => []HttpInv
  BY InitHttpInv, NextHttpInv, PTL DEF HttpSpec

(* HttpPool is a client of the pool of net/Pool.java: whatever its threads *)
(* do, close() on a borrowed socket included, is a behaviour of that pool. *)
THEOREM HttpPoolUsesPool == HttpSpec => Spec
<1>1. HttpInit => Init
  BY DEF HttpInit
<1>2. QED
  BY <1>1, HttpInvariant, StepOfPool, PTL DEF HttpSpec, Spec

(* So what the pool promises holds for sockets: one is never lent twice or *)
(* lent and idle, none is lost, and a close leaves few behind.             *)
THEOREM SocketsAreExclusive == HttpSpec => [](Exclusive /\ Conserved /\ ResidueBounded)
  BY HttpPoolUsesPool, OwnershipIsExclusive, ObjectsAreConserved, ResidueIsBounded, PTL

(* The variables of HttpPool have their types, and a thread that sends or  *)
(* receives has borrowed exactly the socket in its local variable.         *)
THEOREM HttpTypeCorrect == HttpSpec => []HttpTypeOK
<1>1. HttpInv => HttpTypeOK
  <2> SUFFICES ASSUME HttpInv PROVE HttpTypeOK
    OBVIOUS
  <2>1. JobTypeOK /\ Sockets /\ \A t \in Threads : Place(t)
    BY DEF HttpInv
  <2>2. \A t \in Threads :
          /\ job[t].at \in {"none", "borrow"} => held[t] = {} /\ sock[t] = NoObject
          /\ job[t].at \in {"send", "recv"} => held[t] = {sock[t]} /\ pc[t] = "idle"
    BY <2>1 DEF Place, At
  <2>3. QED
    BY <2>1, <2>2 DEF HttpTypeOK, JobTypeOK, Sockets
<1>2. QED
  BY <1>1, HttpInvariant, PTL

(* A thread that waits finds on its socket exactly the responses to its    *)
(* own requests, however the other threads use and close their sockets.    *)
THEOREM ResponsesAreOwn == HttpSpec => []OwnResponse
<1>1. HttpInv => OwnResponse
  BY DEF HttpInv, Wires
<1>2. QED
  BY <1>1, HttpInvariant, PTL

(* Only postWithOutResponse closes a socket that is not, or no longer, its *)
(* own.                                                                    *)
THEOREM OnlyOwnersClose == HttpSpec => []ClosedByOwner
<1>1. HttpInv => ClosedByOwner
  BY DEF HttpInv, Sockets
<1>2. QED
  BY <1>1, HttpInvariant, PTL

(* The next borrower of an idle socket finds it open with nothing unread.  *)
THEOREM IdleSocketsAreClean == HttpSpec => []IdleIsClean
<1>1. HttpInv => IdleIsClean
  <2> SUFFICES ASSUME HttpInv, NEW s \in Idle \ tainted
               PROVE  s \in open /\ wire[s] = <<>>
    BY DEF IdleIsClean
  <2>1. /\ IInv /\ TypeOK /\ Idle = Objs(deque) /\ s \in live
    BY LiveSockets DEF HttpInv, IInv, InUseIsLive
  <2>2. s \in Objects
    BY <2>1 DEF TypeOK
  <2>3. ASSUME NEW t \in Threads, At(t, "recv") PROVE sock[t] # s
    <3>1. held[t] = {sock[t]}
      BY <2>3 DEF HttpInv, Place
    <3>2. held[t] \cap Idle = {}
      BY <2>1 DEF IInv, Exclusive, LentNotIdle
    <3>3. QED
      BY <3>1, <3>2
  <2>4. wire[s] = <<>>
    BY <2>2, <2>3 DEF HttpInv, Wires, UnaskedIsEmpty
  <2>5. s \in open
    BY <2>1 DEF HttpInv, Sockets, ClosedByOwner
  <2>6. QED
    BY <2>4, <2>5
<1>2. QED
  BY <1>1, HttpInvariant, PTL

(* Every open socket is idle, on its way back to the pool or in the hands  *)
(* of a method that still has to return or close it: none leaks, however   *)
(* requests fail.                                                          *)
THEOREM NoSocketIsLost == HttpSpec => []NoSocketLost
<1>1. HttpInv => NoSocketLost
  <2> SUFFICES ASSUME HttpInv, NEW s \in open
               PROVE  \/ s \in Idle \/ \E t \in Threads : s = entry[t] \/ s = sock[t]
    BY DEF NoSocketLost
  <2>1. /\ IInv /\ s \in live /\ leaked = {} /\ Idle = Objs(deque)
    BY LiveSockets DEF HttpInv, Sockets, InUseIsLive
  <2>2. s \in Objects
    BY <2>1 DEF IInv, TypeOK
  <2>3. \A t \in Threads : held[t] \subseteq {sock[t]}
    <3> SUFFICES ASSUME NEW t \in Threads PROVE held[t] \subseteq {sock[t]}
      OBVIOUS
    <3>1. job[t].at \in {"none", "borrow", "send", "recv", "return", "finally"}
      BY DEF HttpInv, JobTypeOK
    <3>2. QED
      BY <3>1 DEF HttpInv, Place, At
  <2>4. s \in Objs(deque) \/ \E t \in Threads : s \in held[t] \/ s = entry[t]
    BY <2>1, <2>2 DEF IInv, Placed
  <2>5. QED
    BY <2>1, <2>3, <2>4
<1>2. QED
  BY <1>1, HttpInvariant, PTL

=============================================================================
