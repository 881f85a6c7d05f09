------------------------------ MODULE HttpPool ------------------------------
(***************************************************************************)
(* net/http/HttpPool.java over ObjectPool: threads borrow a socket, send   *)
(* requests, read responses and give the socket back for the next request  *)
(* of any thread, or close it.  The hooks of SocketPool do nothing on      *)
(* activate and passivate, connect on make and close on destroy.           *)
(*                                                                         *)
(* What goes over a socket is the sequence of the threads whose requests   *)
(* the server has still to be heard on, in the order they were sent.       *)
(***************************************************************************)
EXTENDS ObjectPool

CONSTANT Depth    \* the requests of one pipeline

ASSUME DepthAssumption == Depth \in Nat \ {0}

VARIABLES
  job,      \* what each thread does in HttpPool: the method, where, responses due
  sock,     \* the local variable `socket`
  wire,     \* per socket, whose responses are unread
  open,     \* the sockets the client has not closed
  tainted   \* history: sockets postWithOutResponse has sent a request on

http == <<job, sock, wire, open, tainted>>

Methods == {"request", "withOutResponse", "pipeline"}
NoJob == [method |-> "none", at |-> "none", due |-> 0]

At(t, place) == job[t].at = place
Copies(t, n) == [i \in 1..n |-> t]

-----------------------------------------------------------------------------
\* makeObject connects a new socket, destroyObject and close() close one; an
\* object that is not live is as good as no socket.
SocketsFollow ==
  /\ open' = (open \cap live') \cup (live' \ live)
  /\ wire' = [s \in Objects |-> IF s \in live \cap live' THEN wire[s] ELSE <<>>]
  /\ tainted' = tainted \cap live'

\* A variant of Ends that leaves the local variable as it was.
EndsHolding(t) ==
  /\ job' = [job EXCEPT ![t] = NoJob]
  /\ UNCHANGED sock

Ends(t) ==
  /\ job' = [job EXCEPT ![t] = NoJob]
  /\ sock' = [sock EXCEPT ![t] = NoObject]

\* The socket a thread has borrowed is closed, not returned.
CloseOwn(t) ==
  /\ held' = [held EXCEPT ![t] = @ \ {sock[t]}]
  /\ Destroy(sock[t])
  /\ SocketsFollow
  /\ Ends(t)
  /\ UNCHANGED <<clock, deque, accessed, closed, pc, entry, times, leaked, drained>>

-----------------------------------------------------------------------------

Start(t, m) ==
  /\ job[t] = NoJob
  /\ BorrowStart(t)
  /\ job' = [job EXCEPT ![t] = [method |-> m, at |-> "borrow",
                                due |-> IF m = "pipeline" THEN Depth ELSE 1]]
  /\ UNCHANGED <<sock, wire, open, tainted>>

\* borrowObject until it has a socket.
Sweeping(t) ==
  /\ At(t, "borrow")
  /\ \/ ReadAccessed(t) \/ TrySweep(t) \/ SweepDestroys(t) \/ SweepKeeps(t)
     \/ OfferBack(t) \/ SweepEnds(t)
  /\ SocketsFollow
  /\ UNCHANGED <<job, sock>>

Borrowed(t) ==
  /\ At(t, "borrow")
  /\ leaked' = leaked                               \* activateObject does nothing
  /\ TakeIdle(t) \/ Make(t)
  /\ \A u \in Threads : sock[u] \notin live' \ live \* a new socket is nobody's yet
  /\ job' = [job EXCEPT ![t].at = "send"]
  /\ sock' = [sock EXCEPT ![t] = CHOOSE s \in held'[t] : TRUE]
  /\ SocketsFollow

ConnectFails(t) ==
  /\ At(t, "borrow")
  /\ MakeFails(t)
  /\ Ends(t)
  /\ UNCHANGED <<wire, open, tainted>>

Send(t) ==
  /\ At(t, "send") /\ sock[t] \in open
  /\ wire' = [wire EXCEPT ![sock[t]] = @ \o Copies(t, job[t].due)]
  /\ IF job[t].method = "withOutResponse"
     THEN job' = [job EXCEPT ![t].at = "return"] /\ tainted' = tainted \cup {sock[t]}
     ELSE job' = [job EXCEPT ![t].at = "recv"] /\ UNCHANGED tainted
  /\ UNCHANGED <<vars, sock, open>>

\* One response is read, and the connection may stay.
RecvKeeps(t) ==
  /\ At(t, "recv") /\ sock[t] \in open /\ wire[sock[t]] # <<>>
  /\ wire' = [wire EXCEPT ![sock[t]] = Tail(@)]
  /\ job' = [job EXCEPT ![t].due = @ - 1,
                        ![t].at = IF job[t].due > 1 THEN "recv" ELSE "return"]
  /\ UNCHANGED <<vars, sock, open, tainted>>

\* Variant: a socket is returned although its server closes the connection.
RecvReturns(t) ==
  /\ At(t, "recv") /\ sock[t] \in open /\ wire[sock[t]] # <<>>
  /\ wire' = [wire EXCEPT ![sock[t]] = Tail(@)]
  /\ job' = [job EXCEPT ![t].at = "return"]
  /\ UNCHANGED <<vars, sock, open, tainted>>

\* `Connection: close` ends the method, a pipeline before its last response.
RecvCloses(t) ==
  /\ At(t, "recv") /\ sock[t] \in open /\ wire[sock[t]] # <<>>
  /\ CloseOwn(t)

\* Variants of an IOException: no finally block, and one that returns the socket.
FailsUnclosed(t) ==
  /\ At(t, "send") \/ At(t, "recv")
  /\ held' = [held EXCEPT ![t] = @ \ {sock[t]}]
  /\ Ends(t)
  /\ UNCHANGED <<clock, deque, accessed, closed, pc, entry, times, live, leaked,
                 drained, wire, open, tainted>>
FailsReturning(t) ==
  /\ At(t, "send") \/ At(t, "recv")
  /\ job' = [job EXCEPT ![t].at = "return"]
  /\ UNCHANGED <<vars, sock, wire, open, tainted>>

\* The socket was closed, the peer is gone or the socket's timeout has passed:
\* the IOException runs through the finally block.
Fails(t) ==
  /\ At(t, "send") \/ At(t, "recv")
  /\ CloseOwn(t)

\* returnObject, up to the end of the method or to the finally block, which
\* closes the socket in requestWithOutResponse since it is not null there.
NeverNulled(t) == job' = [job EXCEPT ![t].at = "finally"] /\ UNCHANGED sock
AfterReturn(t) ==
  IF job[t].method = "withOutResponse"
  THEN job' = [job EXCEPT ![t].at = "finally"] /\ UNCHANGED sock
  ELSE Ends(t)

ReturnStarts(t) ==
  /\ At(t, "return")
  /\ ReturnToOpen(t, sock[t])
  /\ UNCHANGED http

ReturnEnds(t) ==
  /\ At(t, "return")
  /\ \/ Stamp(t) /\ UNCHANGED <<job, sock>>
     \/ Offer(t) /\ AfterReturn(t)
     \/ closed /\ ReturnDestroys(t, sock[t]) /\ AfterReturn(t)
  /\ SocketsFollow

FinallyCloses(t) ==
  /\ At(t, "finally")
  /\ open' = open \ {sock[t]}
  /\ Ends(t)
  /\ UNCHANGED <<vars, wire, tainted>>

\* The pool is closed and reopened by threads that run no request.
Manage(t) ==
  /\ job[t] = NoJob
  /\ CloseStart(t) \/ Reopen(t) \/ Drain(t) \/ CloseEnds(t)
  /\ SocketsFollow
  /\ UNCHANGED <<job, sock>>

-----------------------------------------------------------------------------

HttpInit ==
  /\ Init
  /\ job = [t \in Threads |-> NoJob]
  /\ sock = [t \in Threads |-> NoObject]
  /\ wire = [s \in Objects |-> <<>>]
  /\ open = {} /\ tainted = {}

HttpNext ==
  \/ Tick /\ UNCHANGED http
  \/ \E t \in Threads :
       \/ \E m \in Methods : Start(t, m)
       \/ Sweeping(t) \/ Borrowed(t) \/ ConnectFails(t)
       \/ Send(t) \/ RecvKeeps(t) \/ RecvCloses(t) \/ Fails(t)
       \/ ReturnStarts(t) \/ ReturnEnds(t) \/ FinallyCloses(t)
       \/ Manage(t)

HttpSpec == HttpInit /\ [][HttpNext]_<<vars, http>>

-----------------------------------------------------------------------------
(* Properties *)

\* Types of the added variables; a thread has exactly the socket it borrowed
\* while it uses it, and none while it runs no method.
HttpTypeOK ==
  /\ job \in [Threads -> [method : Methods \cup {"none"},
                         at : {"none", "borrow", "send", "recv", "return", "finally"},
                         due : 0..Depth]]
  /\ sock \in [Threads -> Objects \cup {NoObject}]
  /\ wire \in [Objects -> Seq(Threads)]
  /\ open \subseteq live /\ tainted \subseteq live
  /\ \A t \in Threads :
       /\ job[t].at \in {"none", "borrow"} => held[t] = {} /\ sock[t] = NoObject
       /\ job[t].at \in {"send", "recv"} => held[t] = {sock[t]} /\ pc[t] = "idle"

\* A response goes to the thread that asked for it: what is unread on the
\* socket of a thread that waits for responses is exactly what it is due.
\* (On a socket that postWithOutResponse used an old response comes first.)
OwnResponse ==
  \A t \in Threads :
    At(t, "recv") /\ sock[t] \notin tainted => wire[sock[t]] = Copies(t, job[t].due)

\* A socket goes back to the pool open and with nothing unread, so its next
\* borrower can use it; only postWithOutResponse leaves others behind.
IdleIsClean == \A s \in Idle \ tainted : s \in open /\ wire[s] = <<>>

\* Only the thread that has a socket closes it.  postWithOutResponse alone
\* closes a socket that is idle again or lent to another thread by then.
ClosedByOwner == live \ open \subseteq tainted

\* No open socket is lost: it is idle, on its way back, or the local variable
\* of a method that still has to return or close it.
NoSocketLost ==
  open \subseteq Idle \cup {entry[t] : t \in Threads} \cup {sock[t] : t \in Threads}

=============================================================================
