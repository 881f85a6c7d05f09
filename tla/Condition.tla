----------------------------- MODULE Condition -----------------------------
(***************************************************************************)
(* Query conditions of the Mongo DAO: Condition.append links one behind     *)
(* another, MongoUtil.parseCondition turns a chain into a query.  A query   *)
(* is a function from keys to the condition whose value stands there.       *)
(***************************************************************************)
EXTENDS Naturals, Sequences, FiniteSets, FiniteSetsExt

CONSTANTS
  Conditions,     \* the objects
  NoCondition,    \* null
  Offers          \* keys and values: a value is "usable", "empty" (a nested
                  \* condition that parses to null) or "null"; a key may be "null"

ASSUME ConditionsAssumption == IsFiniteSet(Conditions) /\ NoCondition \notin Conditions

VARIABLES
  made,           \* per object: its key and value, once there is one
  link,           \* per object: type and condition
  appending       \* the call of append under way

conditionVars == <<made, link, appending>>

NoAppend == [next |-> NoCondition, this |-> NoCondition]

conditionInit ==
  /\ made = <<>>
  /\ link = [c \in Conditions |-> [type |-> "AND", condition |-> NoCondition]]
  /\ appending = NoAppend

Behind(c) == IF c = NoCondition THEN NoCondition ELSE link[c].condition

newCondition(offer) ==
  /\ appending = NoAppend
  /\ Conditions \ DOMAIN made # {}
  /\ LET c == CHOOSE d \in Conditions \ DOMAIN made : TRUE
     IN  made' = [d \in DOMAIN made \cup {c} |-> IF d = c THEN offer ELSE made[d]]
  /\ UNCHANGED <<link, appending>>

append(this, type, condition) ==
  /\ appending = NoAppend
  /\ appending' = [this |-> this, type |-> type, condition |-> condition, next |-> Behind(this)]
  /\ UNCHANGED <<made, link>>

\* Variant: the new condition is linked to the first one whatever is there.
ToThis == appending.this

MoreLinks == Behind(appending.next) # NoCondition

\* The loop: this.link again, and not that of the condition reached.
Walk ==
  /\ appending # NoAppend /\ MoreLinks
  /\ appending' = [appending EXCEPT !.next = Behind(appending.this)]
  /\ UNCHANGED <<made, link>>

LinkTo == IF appending.next = NoCondition THEN appending.this ELSE appending.next

Link ==
  /\ appending # NoAppend /\ ~MoreLinks
  /\ link' = [link EXCEPT ![LinkTo] = [type |-> appending.type, condition |-> appending.condition]]
  /\ appending' = NoAppend
  /\ UNCHANGED made

\* Bound: no condition is appended to itself.
conditionNext ==
  \/ \E offer \in Offers : newCondition(offer)
  \/ \E this, condition \in DOMAIN made, type \in {"AND", "OR"} :
       this # condition /\ append(this, type, condition)
  \/ Walk \/ Link

-----------------------------------------------------------------------------
(* MongoUtil.                                                               *)

Put(query, c) == [k \in DOMAIN query \cup {made[c].key} |-> IF k = made[c].key THEN c ELSE query[k]]

\* Variant: only the first link is followed.
FirstLink(query, c) ==
  IF Behind(c) # NoCondition /\ link[c].type = "AND" THEN Put(query, Behind(c)) ELSE query

\* A chain that ends has no more conditions than there are: calls for one that
\* does not end are left out.
MaxCalls == Cardinality(Conditions)

\* One call of addLink, up to the call it ends with: the arguments of that.
LinkAdded(args) ==
  LET next == Behind(args.condition)
      query == IF link[args.condition].type = "AND" THEN Put(args.result, next) ELSE args.result
  IN  IF next = NoCondition THEN args ELSE [result |-> query, condition |-> next]

addLink(query, c) ==
  LET call[k \in 0..MaxCalls] ==
        IF k = 0 THEN [result |-> query, condition |-> c] ELSE LinkAdded(call[k - 1])
  IN  call[MaxCalls].result

\* Without a key the value is not looked at.
KeyedValue(c) == IF made[c].key = "null" THEN "null" ELSE made[c].value

\* One call of parseCondition, if the call for the next condition returns
\* inner.  The empty function is null: a query that is no null has an entry.
Parsed(c, inner) ==
  LET query == CASE KeyedValue(c) = "usable" -> Put(<<>>, c)
                 [] KeyedValue(c) = "empty" /\ Behind(c) # NoCondition -> inner
                 [] OTHER -> <<>>
  IN  IF query = <<>> THEN <<>> ELSE addLink(query, c)

parseCondition(c) ==
  LET call[k \in 0..MaxCalls] ==
        [d \in DOMAIN made |->
           Parsed(d, IF k = 0 \/ Behind(d) = NoCondition THEN <<>> ELSE call[k - 1][Behind(d)])]
  IN  call[MaxCalls][c]

-----------------------------------------------------------------------------
(* Properties.                                                              *)

\* The chain from c on; empty if it comes back to itself.
Chain(c) ==
  LET at[i \in 1..Cardinality(Conditions)] == IF i = 1 THEN c ELSE Behind(at[i - 1])
      ends == {i \in DOMAIN at : Behind(at[i]) = NoCondition /\ at[i] # NoCondition}
  IN  [i \in 1..Max(ends \cup {0}) |-> at[i]]
Ends(c) == Chain(c) # <<>>

\* append puts the condition behind the last one of the chain and leaves every
\* other link as it is: nothing that was asked for is lost.
AppendsBehind ==
  [][\A c \in Conditions :
       link'[c] # link[c]
         => /\ Ends(appending.this)
            /\ c = Chain(appending.this)[Len(Chain(appending.this))]
            /\ link'[c].condition = appending.condition]_conditionVars

\* The query of a chain is null unless a condition of it parses that has only
\* empty ones before it, none of them without a key.  It then holds that one and
\* every condition linked by AND, a later one in the place of an earlier one with
\* the same key; what is linked by OR is dropped; but an empty condition linked
\* by AND is there too, with null for its value, also where it was passed over
\* to find the first, and so is one without a key.
QueryIsChain ==
  \A c \in DOMAIN made :
    Ends(c) =>
      LET chain == Chain(c)
          first == {i \in DOMAIN chain :
                      /\ KeyedValue(chain[i]) = "usable"
                      /\ \A j \in 1..(i - 1) : KeyedValue(chain[j]) = "empty"}
          linked == {i \in DOMAIN chain : i > 1 /\ link[chain[i - 1]].type = "AND"}
          asked == IF first = {} THEN {} ELSE first \cup linked
          Holder(k) == LET for == {i \in asked : made[chain[i]].key = k}
                   IN  Max(IF for \cap linked = {} THEN for ELSE for \cap linked)
      IN  parseCondition(c) = [k \in {made[chain[i]].key : i \in asked} |-> chain[Holder(k)]]
=============================================================================
