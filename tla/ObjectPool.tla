----------------------------- MODULE ObjectPool -----------------------------
(***************************************************************************)
(* The lock-free object pool of net/Pool.java: a ConcurrentLinkedDeque of  *)
(* idle entries, the AtomicLong of the last sweep and the volatile flag    *)
(* closed, used by threads that borrow, return, reopen and close with no   *)
(* lock.  One action is one access to that shared state, with the          *)
(* thread-local work that goes with it; pc[t] is where thread t is.        *)
(*                                                                         *)
(* makeObject, activateObject, passivateObject and destroyObject are the   *)
(* hooks a subclass defines.  A hook touches nothing but the object it is  *)
(* given, which its thread alone can reach, so it is part of the step that *)
(* calls it; it may succeed, throw the checked E or throw a                *)
(* RuntimeException, except destroyObject, which ends normally as          *)
(* SocketPool's does.                                                      *)
(***************************************************************************)
EXTENDS Integers, Sequences, FiniteSets

CONSTANTS
  Threads,    \* the threads that use the pool
  Objects,    \* identities of objects; an identity is used again once destroyed
  NoObject,   \* the local variable `entry` or `obj` when it holds nothing
  Timeout,    \* Pool.timeout: how long a returned object stays idle
  Interval,   \* Pool.interval: the pause between two sweeps
  MaxTime     \* bound: the clock stops here

ASSUME PoolAssumption ==
  /\ IsFiniteSet(Threads)
  /\ NoObject \notin Objects
  /\ Timeout \in Nat
  /\ Interval \in Nat
  /\ MaxTime \in Nat

VARIABLES
  clock,      \* System.currentTimeMillis()
  deque,      \* Pool.deque; its front is the first element
  accessed,   \* Pool.accessed
  closed,     \* Pool.closed
  pc,         \* where each thread is
  entry,      \* the object in a thread's local variable
  expire,     \* the expiry time that goes with it
  seenNow,    \* the local `now` of borrowObject
  seenAcc,    \* the local `accessed_` of borrowObject
  held,       \* the objects each thread has borrowed and not given back
  live,       \* the objects made and not yet destroyed
  leaked,     \* live objects nobody can reach: a hook threw a RuntimeException
  drained     \* history: a close found the deque empty, and no reopen since

times == <<expire, seenNow, seenAcc>>
vars == <<clock, deque, accessed, closed, pc, entry, times, held, live, leaked, drained>>

Entry == [obj : Objects, exp : Nat]
First == deque[1]
Last  == deque[Len(deque)]
Idle  == {deque[i].obj : i \in DOMAIN deque}

Go(t, from, to) == pc[t] = from /\ pc' = [pc EXCEPT ![t] = to]

-----------------------------------------------------------------------------
(* The smallest pieces, and what could be written by mistake in their place. *)

PeekFirst == UNCHANGED deque
PollFirst == deque' = Tail(deque)
PollLast  == deque' = SubSeq(deque, 1, Len(deque) - 1)

NotDestroyed(o) == UNCHANGED live
Destroy(o) == live' = live \ {o}

StillHolds(t) == UNCHANGED entry
Drop(t) == entry' = [entry EXCEPT ![t] = NoObject]

\* compareAndSet(accessed_, now), or a plain set.
PlainSet(t) == TRUE
Wins(t) == accessed = seenAcc[t]

\* `if (closed)` in returnObject, or no such test.
NoTest == TRUE
SeenOpen == ~closed

\* The break that leaves the sweep, or a sweep that goes on.
NoBreak == "sweep"
AfterKeep == "take"

\* A method ends: what its local times held does not matter any more.
Forget(t) ==
  /\ expire'  = [expire EXCEPT ![t] = 0]
  /\ seenNow' = [seenNow EXCEPT ![t] = 0]
  /\ seenAcc' = [seenAcc EXCEPT ![t] = 0]

-----------------------------------------------------------------------------
(* borrowObject *)

BorrowStart(t) ==
  /\ Go(t, "idle", IF Timeout > 0 THEN "readAccessed" ELSE "take")
  /\ seenNow' = [seenNow EXCEPT ![t] = IF Timeout > 0 THEN clock ELSE 0]
  /\ UNCHANGED <<clock, deque, accessed, closed, entry, expire, seenAcc, held,
                 live, leaked, drained>>

ReadAccessed(t) ==
  /\ Go(t, "readAccessed", IF seenNow[t] > accessed + Interval THEN "cas" ELSE "take")
  /\ seenAcc' = [seenAcc EXCEPT ![t] = accessed]
  /\ UNCHANGED <<clock, deque, accessed, closed, entry, expire, seenNow, held,
                 live, leaked, drained>>

\* Of the threads that found the last sweep overdue one wins and sweeps.
TrySweep(t) ==
  /\ Go(t, "cas", IF Wins(t) THEN "sweep" ELSE "take")
  /\ accessed' = IF Wins(t) THEN seenNow[t] ELSE accessed
  /\ UNCHANGED <<clock, deque, closed, entry, times, held, live, leaked, drained>>

SweepDestroys(t) ==
  /\ deque # <<>>
  /\ seenNow[t] >= Last.exp
  /\ Go(t, "sweep", "sweep")
  /\ PollLast
  /\ Destroy(Last.obj)
  /\ UNCHANGED <<clock, accessed, closed, entry, times, held, leaked, drained>>

\* The oldest entry has not expired: until OfferBack the sweeper alone has it.
SweepKeeps(t) ==
  /\ deque # <<>>
  /\ seenNow[t] < Last.exp
  /\ Go(t, "sweep", "offerBack")
  /\ PollLast
  /\ entry' = [entry EXCEPT ![t] = Last.obj]
  /\ expire' = [expire EXCEPT ![t] = Last.exp]
  /\ UNCHANGED <<clock, accessed, closed, seenNow, seenAcc, held, live, leaked, drained>>

OfferBack(t) ==
  /\ Go(t, "offerBack", AfterKeep)
  /\ deque' = Append(deque, [obj |-> entry[t], exp |-> expire[t]])
  /\ Drop(t)
  /\ UNCHANGED <<clock, accessed, closed, times, held, live, leaked, drained>>

SweepEnds(t) ==
  /\ deque = <<>>
  /\ Go(t, "sweep", "take")
  /\ UNCHANGED <<clock, deque, accessed, closed, entry, times, held, live, leaked, drained>>

TakeIdle(t) ==
  /\ deque # <<>>
  /\ Go(t, "take", "idle")
  /\ PollFirst
  /\ held' = [held EXCEPT ![t] = @ \cup {First.obj}]
  /\ Forget(t)
  /\ UNCHANGED <<clock, accessed, closed, entry, live, leaked, drained>>

\* activateObject throws E: the idle object is destroyed, the next is tried.
ActivateFails(t) ==
  /\ deque # <<>>
  /\ Go(t, "take", "take")
  /\ PollFirst
  /\ Destroy(First.obj)
  /\ UNCHANGED <<clock, accessed, closed, entry, times, held, leaked, drained>>

\* activateObject throws a RuntimeException: the caller gets the exception and
\* nobody the object.
ActivateBreaks(t) ==
  /\ deque # <<>>
  /\ Go(t, "take", "idle")
  /\ PollFirst
  /\ leaked' = leaked \cup {First.obj}
  /\ Forget(t)
  /\ UNCHANGED <<clock, accessed, closed, entry, held, live, drained>>

Make(t) ==
  /\ deque = <<>>
  /\ Go(t, "take", "idle")
  /\ \E o \in Objects \ live :
       /\ live' = live \cup {o}
       /\ \/ held' = [held EXCEPT ![t] = @ \cup {o}] /\ UNCHANGED leaked
          \/ leaked' = leaked \cup {o} /\ UNCHANGED held   \* activateObject breaks
  /\ Forget(t)
  /\ UNCHANGED <<clock, deque, accessed, closed, entry, drained>>

\* makeObject throws, or activateObject throws E and the object is destroyed.
MakeFails(t) ==
  /\ deque = <<>>
  /\ Go(t, "take", "idle")
  /\ Forget(t)
  /\ UNCHANGED <<clock, deque, accessed, closed, entry, held, live, leaked, drained>>

-----------------------------------------------------------------------------
(* returnObject.  If passivateObject throws a RuntimeException nothing has  *)
(* changed: the caller still has the object.                                *)

ReturnToOpen(t, o) ==
  /\ o \in held[t] /\ SeenOpen
  /\ Go(t, "idle", "stamp")
  /\ held' = [held EXCEPT ![t] = @ \ {o}]
  /\ entry' = [entry EXCEPT ![t] = o]
  /\ UNCHANGED <<clock, deque, accessed, closed, times, live, leaked, drained>>

Stamp(t) ==
  /\ Go(t, "stamp", "offer")
  /\ expire' = [expire EXCEPT ![t] = clock + Timeout]
  /\ UNCHANGED <<clock, deque, accessed, closed, entry, seenNow, seenAcc, held,
                 live, leaked, drained>>

Offer(t) ==
  /\ Go(t, "offer", "idle")
  /\ deque' = <<[obj |-> entry[t], exp |-> expire[t]]>> \o deque
  /\ Drop(t)
  /\ Forget(t)
  /\ UNCHANGED <<clock, accessed, closed, held, live, leaked, drained>>

\* The pool is closed, or passivateObject throws E.
ReturnDestroys(t, o) ==
  /\ o \in held[t] /\ pc[t] = "idle"
  /\ held' = [held EXCEPT ![t] = @ \ {o}]
  /\ Destroy(o)
  /\ UNCHANGED <<clock, deque, accessed, closed, pc, entry, times, leaked, drained>>

-----------------------------------------------------------------------------
(* reopen, close and the clock *)

Reopen(t) ==
  /\ pc[t] = "idle"
  /\ closed' = FALSE
  /\ drained' = FALSE
  /\ UNCHANGED <<clock, deque, accessed, pc, entry, times, held, live, leaked>>

CloseStart(t) ==
  /\ Go(t, "idle", "drain")
  /\ closed' = TRUE
  /\ UNCHANGED <<clock, deque, accessed, entry, times, held, live, leaked, drained>>

Drain(t) ==
  /\ deque # <<>>
  /\ Go(t, "drain", "drain")
  /\ PollFirst
  /\ Destroy(First.obj)
  /\ UNCHANGED <<clock, accessed, closed, entry, times, held, leaked, drained>>

CloseEnds(t) ==
  /\ deque = <<>>
  /\ Go(t, "drain", "idle")
  /\ drained' = closed
  /\ UNCHANGED <<clock, deque, accessed, closed, entry, times, held, live, leaked>>

Tick ==
  /\ clock < MaxTime
  /\ clock' = clock + 1
  /\ UNCHANGED <<deque, accessed, closed, pc, entry, times, held, live, leaked, drained>>

-----------------------------------------------------------------------------

Borrow(t) ==
  \/ ReadAccessed(t) \/ TrySweep(t)
  \/ SweepDestroys(t) \/ SweepKeeps(t) \/ OfferBack(t) \/ SweepEnds(t)
  \/ TakeIdle(t) \/ ActivateFails(t) \/ ActivateBreaks(t) \/ Make(t) \/ MakeFails(t)

\* The steps of a thread inside a method, and the calls it may make.
Method(t) == Borrow(t) \/ Stamp(t) \/ Offer(t) \/ Drain(t) \/ CloseEnds(t)
Call(t) ==
  \/ BorrowStart(t) \/ CloseStart(t) \/ Reopen(t)
  \/ \E o \in Objects : ReturnToOpen(t, o) \/ ReturnDestroys(t, o)

Init ==
  /\ clock = 0 /\ accessed = 0
  /\ deque = <<>> /\ closed = FALSE
  /\ pc = [t \in Threads |-> "idle"]
  /\ entry = [t \in Threads |-> NoObject]
  /\ expire = [t \in Threads |-> 0]
  /\ seenNow = [t \in Threads |-> 0]
  /\ seenAcc = [t \in Threads |-> 0]
  /\ held = [t \in Threads |-> {}]
  /\ live = {} /\ leaked = {} /\ drained = FALSE

Next == Tick \/ \E t \in Threads : Method(t) \/ Call(t)
Spec == Init /\ [][Next]_vars

\* A thread that is inside a method of the pool goes on with it: the methods
\* never block, and the JVM schedules every runnable thread.
FairSpec == Spec /\ \A t \in Threads : WF_vars(Method(t))

-----------------------------------------------------------------------------
(* Properties *)

PC == {"idle", "readAccessed", "cas", "sweep", "offerBack", "take", "stamp", "offer", "drain"}
WithEntry == {"offerBack", "stamp", "offer"}

\* The types of the variables; a thread's local variable holds an object
\* exactly while the method still has to put it into the deque.
TypeOK ==
  /\ clock \in Nat
  /\ deque \in Seq(Entry)
  /\ accessed \in Nat
  /\ closed \in BOOLEAN
  /\ pc \in [Threads -> PC]
  /\ entry \in [Threads -> Objects \cup {NoObject}]
  /\ expire \in [Threads -> Nat]
  /\ seenNow \in [Threads -> Nat]
  /\ seenAcc \in [Threads -> Nat]
  /\ held \in [Threads -> SUBSET Objects]
  /\ live \in SUBSET Objects
  /\ leaked \in SUBSET Objects
  /\ drained \in BOOLEAN
  /\ \A t \in Threads : entry[t] # NoObject <=> pc[t] \in WithEntry

OneEntryEach == \A i, j \in DOMAIN deque : deque[i].obj = deque[j].obj => i = j
OneBorrowerEach == \A t, u \in Threads : t # u => held[t] \cap held[u] = {}
OneMethodEach == \A t, u \in Threads : t # u /\ entry[t] = entry[u] => entry[t] = NoObject
LentNotIdle == \A t \in Threads : held[t] \cap Idle = {} /\ entry[t] \notin Idle
LentNotInMethod == \A t, u \in Threads : entry[t] \notin held[u]
LeakedNotUsed ==
  /\ leaked \cap Idle = {}
  /\ \A t \in Threads : leaked \cap held[t] = {} /\ entry[t] \notin leaked

\* borrowObject and returnObject without a lock: an object is never in two
\* places (two entries, two borrowers, idle and lent, in a method and anywhere
\* else), whatever sweeps, closes and failing hooks run at the same time.
Exclusive ==
  /\ OneEntryEach
  /\ OneBorrowerEach
  /\ OneMethodEach
  /\ LentNotIdle
  /\ LentNotInMethod
  /\ LeakedNotUsed

\* Every object that was made and not destroyed is idle, lent, in a method's
\* hands or leaked by a RuntimeException, and none of these was destroyed: no
\* object is lost and destroyObject never gets one that is still in use.
Conserved ==
  live = Idle \cup leaked \cup (UNION {held[t] : t \in Threads})
           \cup ({entry[t] : t \in Threads} \ {NoObject})

\* Between the test of closed (or the sweep's pollLast) and the offer a close
\* can run to its end; the object then stays idle in the closed pool.  That
\* happens to fewer objects than there are threads until the pool is reopened.
Late == {t \in Threads : pc[t] \in WithEntry}
ResidueBounded == drained => Len(deque) + Cardinality(Late) < Cardinality(Threads)

\* The compare-and-set on accessed: two sweeps start more than Interval apart,
\* however many threads found the last one overdue at the same time.
SweepsApart == [][accessed' # accessed => accessed' > accessed + Interval]_vars

\* The sweep of borrowObject ends while other threads keep returning objects:
\* what they return after it began has not expired by its `now`.
SweepTerminates == \A t \in Threads : pc[t] = "sweep" ~> pc[t] = "take"

\* close ends unless the pool is reopened under it: threads that see closed
\* destroy what they return, so the deque runs empty.
CloseTerminates == \A t \in Threads : pc[t] = "drain" ~> (pc[t] # "drain" \/ ~closed)

=============================================================================
