-------------------------- MODULE DDNSServiceProofs --------------------------
(* What holds of DDNSService for every set of names and addresses. *)
EXTENDS DDNSService, TLAPS

\* Why the service puts no second record: a host it has put one for is in the
\* map from then on, and it resolves only a host it has put none for.
IInv ==
  /\ TypeOK
  /\ \A n \in Names : cached[n] > 0 => dynamic[n] # NoAddr
  /\ service \in {"resolve", "put"} => cached[host] = 0
  /\ CachedOnce

LEMMA InitIInv == Init => IInv
BY DDNSAssumption DEF Init, IInv, TypeOK, CachedOnce, Table, Nothing

\* The updater never touches what the service counts, and removes nothing.
LEMMA UpdaterIInv == IInv /\ Updater => IInv'
<1> SUFFICES ASSUME IInv, Updater PROVE IInv'
  OBVIOUS
<1> USE DDNSAssumption DEF IInv, TypeOK, CachedOnce, Table, Nothing, query
<1>1. ASSUME NEW names \in SUBSET Names, Got(names) PROVE IInv'
  BY <1>1 DEF Got
<1>2. ASSUME NEW n \in Names, Add(n) PROVE IInv'
  BY <1>2 DEF Add, Put
<1>3. ASSUME NEW n \in Names, AddFails(n) PROVE IInv'
  BY <1>3 DEF AddFails
<1>4. CASE UpdateEnds
  BY <1>4 DEF UpdateEnds
<1> QED
  BY <1>1, <1>2, <1>3, <1>4 DEF Updater, PollSucceeds, PollFails, Listed

\* Every step of the service: only PutResolved counts, and it comes after a
\* lookup of the same host that found nothing.
LEMMA ServiceIInv == IInv /\ (Answer \/ Receive) => IInv'
<1> SUFFICES ASSUME IInv, Answer \/ Receive PROVE IInv'
  OBVIOUS
<1> USE DDNSAssumption DEF IInv, TypeOK, CachedOnce, Table, Nothing, update
<1>1. ASSUME NEW n \in Queried, ReceiveQuery(n) PROVE IInv'
  BY <1>1 DEF ReceiveQuery
<1>2. CASE ReceiveOther
  BY <1>2 DEF ReceiveOther
<1>3. CASE ServiceDies
  BY <1>3 DEF ServiceDies
<1>4. CASE Lookup
  BY <1>4 DEF Lookup, Found
<1>5. CASE Resolve
  BY <1>5 DEF Resolve, AfterResolve
<1>6. CASE PutResolved
  <2>1. cached[host] = 0 /\ answer \in Addrs /\ host \in Names
    BY <1>6 DEF PutResolved
  <2>2. dynamic' = [dynamic EXCEPT ![host] = answer] /\ cached' = [cached EXCEPT ![host] = 1]
    BY <1>6, <2>1 DEF PutResolved, Put
  <2> QED
    BY <1>6, <2>1, <2>2 DEF PutResolved
<1>7. CASE Reply
  BY <1>7 DEF Reply
<1> QED
  BY <1>1, <1>2, <1>3, <1>4, <1>5, <1>6, <1>7 DEF Answer, Receive

LEMMA NextIInv == IInv /\ [Next]_vars => IInv'
<1> SUFFICES ASSUME IInv, [Next]_vars PROVE IInv'
  OBVIOUS
<1>1. CASE Updater
  BY <1>1, UpdaterIInv
<1>2. CASE Answer \/ Receive
  BY <1>2, ServiceIInv
<1>3. CASE ApiChanges
  BY <1>3, DDNSAssumption
  DEF ApiChanges, IInv, TypeOK, CachedOnce, Table, Nothing, update, query
<1>4. CASE UNCHANGED vars
  BY <1>4 DEF vars, IInv, TypeOK, CachedOnce, Table, Nothing, update, query
<1> QED
  BY <1>1, <1>2, <1>3, <1>4 DEF Next

\* The types, and what each place of the two threads means for its variables:
\* the service puts only an address it has, and the updater polls only when it
\* has no records left to add.
THEOREM DDNSTypeCorrect == Spec => []TypeOK
<1>1. IInv => TypeOK
  BY DEF IInv
<1> QED
  BY <1>1, InitIInv, NextIInv, PTL DEF Spec

\* The race between the lookup and the put of DDNSService.process overwrites
\* the record of a host at most once, for any hosts and addresses.
THEOREM PutsOnce == Spec => []CachedOnce
<1>1. IInv => CachedOnce
  BY DEF IInv
<1> QED
  BY <1>1, InitIInv, NextIInv, PTL DEF Spec

=============================================================================
