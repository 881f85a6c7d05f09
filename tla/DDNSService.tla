----------------------------- MODULE DDNSService -----------------------------
(***************************************************************************)
(* net/dns/DDNSService.java with net/dns/RemoteDNSUpdater.java: an updater *)
(* thread asks an HTTP API for the addresses of hosts and puts them into   *)
(* the ConcurrentHashMap dynamicRecords; the service thread answers one    *)
(* query after the other from that map, and puts what the public DNS says  *)
(* of a host that is not in it into the same map.  Nothing is ever removed *)
(* from the map.                                                           *)
(***************************************************************************)
EXTENDS Integers, FiniteSets

CONSTANTS
  Names,      \* the spellings of host names in queries and in the API's list
  Queried,    \* the spellings a lookup uses: lower case, no dot at the end
  Addrs,      \* IP addresses
  NoAddr      \* null: no record, no address

ASSUME DDNSAssumption == Queried \subseteq Names /\ NoAddr \notin Addrs

VARIABLES
  api,        \* what the HTTP API lists
  dynamic,    \* DDNSService.dynamicRecords, keyed by spelling
  updater,    \* where the updater thread is
  recs,       \* the records it still has to add
  service,    \* where the service thread is
  host,       \* the host of the query it works on
  answer,     \* the record found for it
  cached      \* history: per name, how often the service put a record (0..2)

update == <<updater, recs>>
query == <<service, host, answer>>
vars == <<api, dynamic, update, query, cached>>

Table == [Names -> Addrs \cup {NoAddr}]
Nothing == [n \in Names |-> NoAddr]
Listed(table) == {n \in Names : table[n] # NoAddr}

-----------------------------------------------------------------------------
(* The updater thread *)

\* A complete answer of the API, or the records before a JSONException, or
\* none after an IOException.
Got(names) ==
  /\ updater = "poll"
  /\ updater' = "add"
  /\ recs' = [n \in Names |-> IF n \in names THEN api[n] ELSE NoAddr]
  /\ UNCHANGED <<api, dynamic, query, cached>>

PollSucceeds == Got(Names)
PollFails == \E names \in SUBSET Listed(api) : Got(names)

\* addIp under the spelling of the API; the variant keeps an older record.
PutIfAbsent(table, n, a) == IF table[n] = NoAddr THEN [table EXCEPT ![n] = a] ELSE table
Put(table, n, a) == [table EXCEPT ![n] = a]

Add(n) ==
  /\ updater = "add" /\ recs[n] # NoAddr
  /\ dynamic' = Put(dynamic, n, recs[n])
  /\ recs' = [recs EXCEPT ![n] = NoAddr]
  /\ UNCHANGED <<api, updater, query, cached>>

\* The text is not an address, or no ARecord can be made: addIp catches it.
AddFails(n) ==
  /\ updater = "add" /\ recs[n] # NoAddr
  /\ recs' = [recs EXCEPT ![n] = NoAddr]
  /\ UNCHANGED <<api, dynamic, updater, query, cached>>

UpdateEnds ==
  /\ updater = "add" /\ recs = Nothing
  /\ updater' = "poll"
  /\ UNCHANGED <<api, dynamic, recs, query, cached>>

-----------------------------------------------------------------------------
(* The service thread.  aRecords, aaaaRecords, nsRecords and mxRecords are  *)
(* never filled, so only dynamicRecords and the public DNS give an answer.  *)

\* A query of type A or ANY.
ReceiveQuery(n) ==
  /\ service = "receive"
  /\ service' = "lookup"
  /\ host' = n
  /\ UNCHANGED <<api, dynamic, update, answer, cached>>

\* A query of another type, opcode or state: an error is sent, or nothing.
ReceiveOther ==
  /\ service = "receive"
  /\ service' = "error"
  /\ UNCHANGED <<api, dynamic, update, host, answer, cached>>

\* A RuntimeException in process, as for a message without a question, leaves
\* the loop: the service is over, the updater thread goes on.
ServiceDies ==
  /\ service = "receive"
  /\ service' = "dead"
  /\ UNCHANGED <<api, dynamic, update, host, answer, cached>>

NeverFound(n) == FALSE
Found(n) == dynamic[n] # NoAddr

Lookup ==
  /\ service = "lookup"
  /\ IF Found(host)
     THEN service' = "reply" /\ answer' = dynamic[host]
     ELSE service' = "resolve" /\ UNCHANGED answer
  /\ UNCHANGED <<api, dynamic, update, host, cached>>

AlwaysPut(a) == "put"
AfterResolve(a) == IF a = NoAddr THEN "reply" ELSE "put"

\* InetAddress.getByName: the public DNS says what it likes, or does not know
\* the host and the answer stays null.
Resolve ==
  /\ service = "resolve"
  /\ answer' \in Addrs \cup {NoAddr}
  /\ service' = AfterResolve(answer')
  /\ UNCHANGED <<api, dynamic, update, host, cached>>

\* The record is put without another look at the map.
PutResolved ==
  /\ service = "put"
  /\ dynamic' = Put(dynamic, host, answer)
  /\ cached' = [cached EXCEPT ![host] = IF @ < 2 THEN @ + 1 ELSE @]
  /\ service' = "reply"
  /\ UNCHANGED <<api, update, host, answer>>

\* The answer, NXDOMAIN for null or another error, is sent or lost.
Reply ==
  /\ service \in {"reply", "error"}
  /\ service' = "receive"
  /\ answer' = NoAddr
  /\ UNCHANGED <<api, dynamic, update, host, cached>>

-----------------------------------------------------------------------------

\* The API is told new addresses and forgets hosts as it likes.
ApiChanges ==
  \E n \in Names, a \in Addrs \cup {NoAddr} :
    /\ api' = [api EXCEPT ![n] = a]
    /\ UNCHANGED <<dynamic, update, query, cached>>

Updater == PollSucceeds \/ PollFails \/ UpdateEnds \/ \E n \in Names : Add(n) \/ AddFails(n)
Answer == Lookup \/ Resolve \/ PutResolved \/ Reply
Receive == ServiceDies \/ ReceiveOther \/ \E n \in Queried : ReceiveQuery(n)

Init ==
  /\ api = Nothing /\ dynamic = Nothing
  /\ updater = "poll" /\ recs = Nothing
  /\ service = "receive" /\ host \in Queried /\ answer = NoAddr
  /\ cached = [n \in Names |-> 0]

Next == Updater \/ Answer \/ Receive \/ ApiChanges

\* Both threads are scheduled; the API does not fail for ever, nor is a record
\* it lists rejected for ever.
Fairness ==
  /\ WF_vars(Answer) /\ WF_vars(Updater)
  /\ SF_vars(PollSucceeds)
  /\ \A n \in Names : SF_vars(Add(n))

Spec == Init /\ [][Next]_vars /\ Fairness

-----------------------------------------------------------------------------
(* Properties *)

\* Types; between two queries no answer is kept, and one that is to be put into
\* the map is an address.
TypeOK ==
  /\ api \in Table /\ dynamic \in Table /\ recs \in Table
  /\ updater \in {"poll", "add"}
  /\ service \in {"receive", "lookup", "resolve", "put", "reply", "error", "dead"}
  /\ host \in Queried
  /\ answer \in Addrs \cup {NoAddr}
  /\ cached \in [Names -> 0..2]
  /\ updater = "poll" => recs = Nothing
  /\ service \in {"receive", "lookup", "resolve", "error"} => answer = NoAddr
  /\ service = "put" => answer # NoAddr

\* process looks into the map and puts into it in two steps, and the updater
\* can put its own record in between and have it overwritten.  That happens at
\* most once to a host: the service puts no second record for it.
CachedOnce == \A n \in Names : cached[n] <= 1

\* The race repairs itself: when the API keeps listing a host at one address,
\* every answer for that host is in the end that address, whatever the service
\* had put into the map before or puts while the updater runs.
AnswersConverge ==
  \A n \in Queried, a \in Addrs :
    <>[](api[n] = a) => <>[](service = "reply" /\ host = n => answer = a)

=============================================================================
