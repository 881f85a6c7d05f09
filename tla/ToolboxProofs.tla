--------------------------- MODULE ToolboxProofs ----------------------------
(***************************************************************************)
(* Theorems about four of the tools of Toolbox: DigestIsOwn for any threads *)
(* and texts; for any conditions what append does to a chain and what query *)
(* is made of one; for any site what a page reads from its cookies; and for *)
(* any rows what trees are made of them.                                    *)
(***************************************************************************)
EXTENDS MD5Coder, Condition, CookieOperator, TreeNodeHelper, FiniteSetTheorems, SequenceTheorems,
        WellFoundedInduction, TLAPS

-----------------------------------------------------------------------------
(* MD5Coder. *)

md5Spec == md5Init /\ [][md5Next]_md5Vars

Contents == [fed : Seq(Texts), torn : BOOLEAN]
CallType ==
  {NoCall} \cup [steps : {<<"update", "digest">>, <<"digest">>}, text : Texts]
DigestType == {NoDigest} \cup [of : {"MD", "own"}, text : Texts, value : Contents]

md5TypeOK ==
  /\ MD \in Contents /\ raced \in BOOLEAN
  /\ coding \in [Callers -> CallType]
  /\ digest \in [Callers -> DigestType]

\* As long as no two threads have met, one at most is inside, and MD holds what
\* that one has put there.
Alone ==
  /\ \A c, d \in Callers : coding[c] # NoCall /\ coding[d] # NoCall => c = d
  /\ \A c \in Callers : coding[c] # NoCall =>
       MD = IF coding[c].steps = <<"digest">> THEN Fed(Reset, coding[c].text) ELSE Reset
  /\ (\A c \in Callers : coding[c] = NoCall) => MD = Reset

IInv == md5TypeOK /\ (~raced => Alone) /\ DigestIsOwn

\* A call on MD is an update, then a digest, then over.
LEMMA Steps ==
  /\ <<"update", "digest">> # <<"digest">>
  /\ Tail(<<"update", "digest">>) = <<"digest">>
  /\ <<>> # <<"digest">> /\ <<>> # <<"update", "digest">>
  /\ NoCall.steps = <<>>
BY DEF NoCall

\* What may be in the instance ...
LEMMA ContentsType ==
  /\ Reset \in Contents /\ Torn \in Contents
  /\ \A md \in Contents, text \in Texts : Fed(md, text) \in Contents
BY DEF Contents, Reset, Torn, Fed

\* ... stays so, whatever a race does to it.
LEMMA OutcomesType == \A md \in Contents : Outcomes(md) \subseteq Contents
BY ContentsType DEF Outcomes

\* An instance that was reset and fed holds one text.
LEMMA FedReset == \A text : Fed(Reset, text) = [fed |-> <<text>>, torn |-> FALSE]
<1> TAKE text
<1>1. ~Reset.torn /\ Append(Reset.fed, text) = <<text>>
  BY DEF Reset
<1>2. Fed(Reset, text) = [Reset EXCEPT !.fed = Append(Reset.fed, text)]
  BY <1>1, Zenon DEF Fed
<1> QED
  BY <1>1, <1>2 DEF Reset

\* The invariant holds at first.
LEMMA InitIInv == md5Init => IInv
BY ContentsType DEF md5Init, IInv, md5TypeOK, CallType, DigestType, Alone, DigestIsOwn

\* Every step keeps the types ...
LEMMA NextType == md5TypeOK /\ [md5Next]_md5Vars => md5TypeOK'
<1> SUFFICES ASSUME md5TypeOK, [md5Next]_md5Vars PROVE md5TypeOK'
  OBVIOUS
<1> USE DEF md5TypeOK
<1>1. ASSUME NEW c \in Callers, NEW text \in Texts, encode(c, text)
      PROVE  md5TypeOK'
  BY <1>1 DEF encode, CallType
<1>2. ASSUME NEW c \in Callers, NEW text \in Texts, getMD5ByteArray(c, text)
      PROVE  md5TypeOK'
  <2>1. OwnInstance(text) \in Contents
    BY ContentsType DEF OwnInstance
  <2> QED
    BY <1>2, <2>1 DEF getMD5ByteArray, DigestType
<1>3. ASSUME NEW c \in Callers, Update(c) PROVE md5TypeOK'
  <2>1. coding[c] \in CallType /\ coding[c].text \in Texts
    BY <1>3, Steps DEF Update, CallType, NoCall
  <2>2. Fed(MD, coding[c].text) \in Contents
    BY <2>1, ContentsType
  <2>3. MD' \in Contents
    BY <1>3, <2>2, OutcomesType DEF Update
  <2>4. [coding[c] EXCEPT !.steps = Tail(@)] \in CallType
    BY <1>3, <2>1, Steps DEF Update, CallType, NoCall
  <2> QED
    BY <1>3, <2>3, <2>4 DEF Update
<1>4. ASSUME NEW c \in Callers, Digest(c) PROVE md5TypeOK'
  <2>1. coding[c] \in CallType /\ coding[c].text \in Texts
    BY <1>4, Steps DEF Digest, CallType, NoCall
  <2>2. MD' \in Contents
    BY <1>4, ContentsType, OutcomesType DEF Digest
  <2>3. digest' \in [Callers -> DigestType]
    BY <1>4, <2>1, OutcomesType DEF Digest, DigestType
  <2> QED
    BY <1>4, <2>2, <2>3 DEF Digest, CallType
<1>5. ASSUME NEW c \in Callers, DigestFails(c) PROVE md5TypeOK'
  <2>1. coding[c] \in CallType /\ coding[c].text \in Texts
    BY <1>5, Steps DEF DigestFails, CallType, NoCall
  <2> QED
    BY <1>5, <2>1, ContentsType DEF DigestFails, CallType, DigestType
<1>6. CASE UNCHANGED md5Vars
  BY <1>6 DEF md5Vars
<1> QED
  BY <1>1, <1>2, <1>3, <1>4, <1>5, <1>6 DEF md5Next

\* ... and, until two threads have met, that one at most is inside.
LEMMA NextIInv == IInv /\ [md5Next]_md5Vars => IInv'
<1> SUFFICES ASSUME IInv, [md5Next]_md5Vars PROVE (~raced => Alone)' /\ DigestIsOwn'
  BY NextType DEF IInv
<1> USE DEF md5TypeOK, IInv
<1>1. ASSUME NEW c \in Callers, NEW text \in Texts, encode(c, text)
      PROVE  (~raced => Alone)' /\ DigestIsOwn'
  <2>1. ~raced' => Alone'
    <3> SUFFICES ASSUME ~raced' PROVE Alone'
      OBVIOUS
    <3>1. ~raced /\ \A d \in Callers : coding[d] = NoCall
      BY <1>1 DEF encode
    <3>2. MD' = Reset
      BY <1>1, <3>1 DEF encode, Alone
    <3>3. \A d \in Callers :
            coding'[d] = IF d = c THEN [steps |-> <<"update", "digest">>, text |-> text] ELSE NoCall
      BY <1>1, <3>1 DEF encode
    <3> QED
      BY <3>2, <3>3, Steps DEF Alone, NoCall
  <2>2. DigestIsOwn'
    BY <1>1 DEF encode, DigestIsOwn
  <2> QED
    BY <2>1, <2>2
<1>2. ASSUME NEW c \in Callers, NEW text \in Texts, getMD5ByteArray(c, text)
      PROVE  (~raced => Alone)' /\ DigestIsOwn'
  <2>1. OwnInstance(text) = [fed |-> <<text>>, torn |-> FALSE]
    BY FedReset DEF OwnInstance
  <2>2. DigestIsOwn'
    BY <1>2, <2>1 DEF getMD5ByteArray, DigestIsOwn
  <2>3. (~raced => Alone)'
    BY <1>2 DEF getMD5ByteArray, Alone
  <2> QED
    BY <2>2, <2>3
<1>3. ASSUME NEW c \in Callers, Update(c)
      PROVE  (~raced => Alone)' /\ DigestIsOwn'
  <2>1. ~raced' => Alone'
    <3> SUFFICES ASSUME ~raced' PROVE Alone'
      OBVIOUS
    <3>1. ~raced /\ coding[c] # NoCall /\ coding[c].steps # <<"digest">>
      BY <1>3, Steps DEF Update, NoCall
    <3>2. MD = Reset /\ \A d \in Callers : d # c => coding[d] = NoCall
      BY <3>1 DEF Alone
    <3>3. MD' = Fed(Reset, coding[c].text)
      BY <1>3, <3>1, <3>2 DEF Update, Outcomes, Fed, Reset
    <3>4. \A d \in Callers : d # c => coding'[d] = NoCall
      BY <1>3, <3>2 DEF Update
    <3>5. coding'[c].steps = <<"digest">> /\ coding'[c].text = coding[c].text
      BY <1>3, Steps DEF Update, CallType, NoCall
    <3>6. coding'[c] # NoCall
      <4>1. coding'[c].steps # NoCall.steps
        BY <3>5, Steps
      <4> QED
        BY <4>1, Zenon
    <3>7. \A d, e \in Callers : coding'[d] # NoCall /\ coding'[e] # NoCall => d = e
      BY <3>4, Zenon
    <3>8. \A d \in Callers : coding'[d] # NoCall =>
            MD' = IF coding'[d].steps = <<"digest">> THEN Fed(Reset, coding'[d].text) ELSE Reset
      BY <3>3, <3>4, <3>5, Zenon
    <3> QED
      BY <3>6, <3>7, <3>8, Zenon DEF Alone, Fed, Reset, Torn, NoCall
  <2>2. DigestIsOwn'
    BY <1>3 DEF Update, DigestIsOwn
  <2> QED
    BY <2>1, <2>2
<1>4. ASSUME NEW c \in Callers, Digest(c)
      PROVE  (~raced => Alone)' /\ DigestIsOwn'
  <2>1. coding[c] # NoCall /\ raced' = raced
    BY <1>4, Steps DEF Digest, NoCall
  <2>2. ASSUME ~raced
        PROVE  /\ Alone'
               /\ digest'[c] = [of |-> "MD", text |-> coding[c].text, value |-> Fed(Reset, coding[c].text)]
    <3>1. MD = Fed(Reset, coding[c].text) /\ \A d \in Callers : d # c => coding[d] = NoCall
      BY <1>4, <2>1, <2>2 DEF Digest, Alone
    <3>2. ~MD.torn /\ ~Reset.torn
      BY <3>1 DEF Fed, Reset
    <3>3. MD' = Reset
      BY <1>4, <2>2, <3>2 DEF Digest, Outcomes
    <3>4. \A d \in Callers : coding'[d] = NoCall
      BY <1>4, <3>1 DEF Digest
    <3>5. digest'[c] = [of |-> "MD", text |-> coding[c].text, value |-> MD]
      BY <1>4, <2>2, <3>2 DEF Digest, Outcomes
    <3> QED
      BY <3>1, <3>3, <3>4, <3>5 DEF Alone
  <2>3. digest'[c].of = "MD" /\ \A d \in Callers : d # c => digest'[d] = digest[d]
    BY <1>4 DEF Digest
  <2>4. DigestIsOwn'
    <3> SUFFICES ASSUME NEW d \in Callers, digest'[d] # NoDigest, digest'[d].of = "own" \/ ~raced'
                 PROVE  digest'[d].value = [fed |-> <<digest'[d].text>>, torn |-> FALSE]
      BY DEF DigestIsOwn
    <3>1. CASE d = c
      <4>1. digest'[c] = [of |-> "MD", text |-> coding[c].text, value |-> Fed(Reset, coding[c].text)]
        BY <3>1, <2>1, <2>2, <2>3
      <4>2. digest'[d].text = coding[c].text /\ digest'[d].value = Fed(Reset, coding[c].text)
        BY <3>1, <4>1
      <4> QED
        BY <4>2, FedReset, Zenon
    <3>2. CASE d # c
      BY <3>2, <2>1, <2>3 DEF DigestIsOwn
    <3> QED
      BY <3>1, <3>2
  <2> QED
    BY <2>1, <2>2, <2>4
<1>5. ASSUME NEW c \in Callers, DigestFails(c)
      PROVE  (~raced => Alone)' /\ DigestIsOwn'
  BY <1>5 DEF DigestFails, DigestIsOwn
<1>6. CASE UNCHANGED md5Vars
  BY <1>6 DEF md5Vars, Alone, DigestIsOwn
<1> QED
  BY <1>1, <1>2, <1>3, <1>4, <1>5, <1>6 DEF md5Next

\* A digest is of the caller's own text: always where the call has an instance
\* of its own, and with the instance all threads share until two threads have
\* been on it at once.
THEOREM DigestsAreOwn == md5Spec => []DigestIsOwn
<1>1. IInv => DigestIsOwn
  BY DEF IInv
<1> QED
  BY <1>1, InitIInv, NextIInv, PTL DEF md5Spec

-----------------------------------------------------------------------------
(* Condition and the queries made of conditions. *)

conditionSpec == conditionInit /\ [][conditionNext]_conditionVars

Links == [type : {"AND", "OR"}, condition : DOMAIN made \cup {NoCondition}]
Appends ==
  [this : DOMAIN made, type : {"AND", "OR"}, condition : DOMAIN made,
   next : DOMAIN made \cup {NoCondition}]

\* What append reads of this stays true while it runs: there is one caller.
ConditionInv ==
  /\ DOMAIN made \subseteq Conditions
  /\ link \in [Conditions -> Links]
  /\ \/ appending = NoAppend
     \/ appending \in Appends /\ appending.next = Behind(appending.this)

LessThan == {p \in Nat \X Nat : p[1] < p[2]}

\* The order on the numbers has no infinite descent.
LEMMA LessThanIsWellFounded == IsWellFoundedOn(LessThan, Nat)
<1>1. LessThan = OpToRel(<, Nat)
  BY DEF LessThan, OpToRel
<1> QED
  BY <1>1, NatLessThanWellFounded

\* A set with 0 and the successor of each of its numbers has all numbers.
LEMMA Induction ==
  ASSUME NEW S, 0 \in S, \A n \in Nat : n \in S => n + 1 \in S
  PROVE  Nat \subseteq S
<1> SUFFICES ASSUME Nat \ S # {} PROVE FALSE
  OBVIOUS
<1>1. PICK n \in Nat \ S : \A m \in Nat \ S : ~(<<m, n>> \in LessThan)
  BY LessThanIsWellFounded, WFMin
<1>2. n # 0 /\ n - 1 \in Nat
  OBVIOUS
<1>3. <<n - 1, n>> \in LessThan
  BY <1>2 DEF LessThan
<1> QED
  BY <1>1, <1>2, <1>3

\* A set of numbers with a bound has a greatest one.
LEMMA Greatest ==
  ASSUME NEW n \in Nat, NEW S, S \subseteq 0..n, S # {}
  PROVE  Max(S) \in S /\ \A x \in S : x <= Max(S)
<1> DEFINE P == {m \in Nat : (\E x \in S : x >= n - m) => \E x \in S : \A y \in S : y <= x}
<1>1. 0 \in P
  OBVIOUS
<1>2. ASSUME NEW m \in Nat, m \in P PROVE m + 1 \in P
  <2> SUFFICES ASSUME NEW x \in S, x >= n - (m + 1), ~ \E z \in S : z >= n - m
               PROVE  \A y \in S : y <= x
    BY <1>2
  <2> QED
    OBVIOUS
<1> HIDE DEF P
<1>3. Nat \subseteq P
  BY <1>1, <1>2, Induction
<1>4. n \in P /\ \E x \in S : x >= n - n
  <2>1. PICK x : x \in S
    OBVIOUS
  <2>2. x >= n - n
    BY <2>1
  <2> QED
    BY <1>3, <2>1, <2>2
<1>5. PICK x \in S : \A y \in S : y <= x
  BY <1>4 DEF P
<1>6. x >= x /\ \A y \in S : x >= y
  BY <1>5
<1>7. \A y \in S : Max(S) >= y /\ Max(S) \in S
  BY <1>6 DEF Max
<1> QED
  BY <1>7

-----------------------------------------------------------------------------
(* Chains. *)

\* The conditions behind c, one after the other.
Walked(c) ==
  LET at[i \in 1..Cardinality(Conditions)] == IF i = 1 THEN c ELSE Behind(at[i - 1])
  IN  at

WalkOf(w, c, n) == w = [i \in 1..n |-> IF i = 1 THEN c ELSE Behind(w[i - 1])]

\* Such a walk of n steps exists.
LEMMA WalkExists ==
  ASSUME NEW c, NEW n \in Nat
  PROVE  \E w : WalkOf(w, c, n)
<1> DEFINE S == {m \in Nat : \E w : WalkOf(w, c, m)}
<1>1. 0 \in S
  <2>1. WalkOf([i \in 1..0 |-> c], c, 0)
    BY DEF WalkOf
  <2> QED
    BY <2>1
<1>2. ASSUME NEW m \in Nat, m \in S PROVE m + 1 \in S
  <2>1. PICK w : WalkOf(w, c, m)
    BY <1>2
  <2> DEFINE v == [i \in 1..(m + 1) |-> IF i <= m THEN w[i] ELSE IF i = 1 THEN c ELSE Behind(w[m])]
  <2>2. ASSUME NEW i \in 1..(m + 1)
        PROVE  v[i] = IF i = 1 THEN c ELSE Behind(v[i - 1])
    BY <2>1 DEF WalkOf
  <2>3. WalkOf(v, c, m + 1)
    <3> HIDE DEF v
    <3>1. v = [i \in 1..(m + 1) |-> v[i]]
      BY DEF v
    <3> QED
      BY <2>2, <3>1 DEF WalkOf
  <2> HIDE DEF v
  <2> QED
    BY <2>3
<1> HIDE DEF S
<1>3. Nat \subseteq S
  BY <1>1, <1>2, Induction
<1> QED
  BY <1>3 DEF S

\* The walk begins at c, stays among the conditions, and once it is at the end
\* it stays there.
LEMMA WalkedIs ==
  ASSUME ConditionInv, NEW c \in Conditions
  PROVE  /\ MaxCalls \in Nat \ {0}
         /\ DOMAIN Walked(c) = 1..MaxCalls /\ Walked(c)[1] = c
         /\ \A i \in 1..(MaxCalls - 1) : Walked(c)[i + 1] = Behind(Walked(c)[i])
         /\ \A i \in 1..MaxCalls : Walked(c)[i] \in Conditions \cup {NoCondition}
         /\ \A i, j \in 1..MaxCalls : Walked(c)[i] = NoCondition /\ i <= j
                                        => Walked(c)[j] = NoCondition
<1> DEFINE w == Walked(c)
<1>1. MaxCalls \in Nat \ {0}
  BY ConditionsAssumption, FS_CardinalityType, FS_EmptySet DEF MaxCalls
<1>2. w = [i \in 1..MaxCalls |-> IF i = 1 THEN c ELSE Behind(w[i - 1])]
  <2>1. \E v : WalkOf(v, c, MaxCalls)
    BY <1>1, WalkExists
  <2> QED
    BY <2>1, Zenon DEF Walked, MaxCalls, WalkOf
<1> HIDE DEF w
<1>3. DOMAIN w = 1..MaxCalls /\ w[1] = c /\ \A i \in 1..(MaxCalls - 1) : w[i + 1] = Behind(w[i])
  BY <1>1, <1>2
<1>4. ASSUME NEW d \in Conditions \cup {NoCondition}
      PROVE  Behind(d) \in Conditions \cup {NoCondition}
  BY DEF ConditionInv, Links, Behind
<1>5. Behind(NoCondition) = NoCondition
  BY DEF Behind
<1> DEFINE S == {m \in Nat : m + 1 <= MaxCalls => w[m + 1] \in Conditions \cup {NoCondition}}
           T == {m \in Nat : \A i \in 1..MaxCalls :
                               i + m <= MaxCalls /\ w[i] = NoCondition => w[i + m] = NoCondition}
<1>6. Nat \subseteq S
  <2>1. 0 \in S
    BY <1>3
  <2>2. ASSUME NEW m \in Nat, m \in S PROVE m + 1 \in S
    <3> SUFFICES ASSUME m + 2 <= MaxCalls PROVE w[m + 2] \in Conditions \cup {NoCondition}
      OBVIOUS
    <3>1. m + 1 \in 1..(MaxCalls - 1) /\ (m + 1) + 1 = m + 2 /\ m + 1 <= MaxCalls
      BY <1>1
    <3>2. w[m + 2] = Behind(w[m + 1])
      BY <1>3, <3>1
    <3> QED
      BY <2>2, <3>1, <3>2, <1>4
  <2> HIDE DEF S
  <2> QED
    BY <2>1, <2>2, Induction
<1>7. Nat \subseteq T
  <2>1. 0 \in T
    OBVIOUS
  <2>2. ASSUME NEW m \in Nat, m \in T PROVE m + 1 \in T
    <3> SUFFICES ASSUME NEW i \in 1..MaxCalls, i + (m + 1) <= MaxCalls, w[i] = NoCondition
                 PROVE  w[i + (m + 1)] = NoCondition
      OBVIOUS
    <3>1. i + m \in 1..(MaxCalls - 1) /\ i + m <= MaxCalls /\ (i + m) + 1 = i + (m + 1)
      BY <1>1
    <3>2. w[i + m] = NoCondition
      BY <2>2, <3>1
    <3> QED
      BY <1>3, <1>5, <3>1, <3>2
  <2> HIDE DEF T
  <2> QED
    BY <2>1, <2>2, Induction
<1>8. ASSUME NEW i \in 1..MaxCalls PROVE w[i] \in Conditions \cup {NoCondition}
  <2>1. i - 1 \in S /\ (i - 1) + 1 = i /\ i <= MaxCalls
    BY <1>1, <1>6
  <2> QED
    BY <2>1
<1>9. ASSUME NEW i \in 1..MaxCalls, NEW j \in 1..MaxCalls, w[i] = NoCondition, i <= j
      PROVE  w[j] = NoCondition
  <2>1. j - i \in Nat /\ i + (j - i) = j /\ j <= MaxCalls
    BY <1>1, <1>9
  <2>2. j - i \in T
    BY <1>7, <2>1
  <2> QED
    BY <1>9, <2>1, <2>2
<1> QED
  BY <1>1, <1>3, <1>8, <1>9 DEF w

\* A walk that comes to a condition with nothing behind it is a chain up to there.
LEMMA ChainEnds ==
  ASSUME ConditionInv, NEW c \in Conditions, NEW e \in 1..MaxCalls,
         Walked(c)[e] # NoCondition, Behind(Walked(c)[e]) = NoCondition
  PROVE  Chain(c) = [i \in 1..e |-> Walked(c)[i]]
<1> DEFINE w == Walked(c)
           ends == {i \in DOMAIN w : Behind(w[i]) = NoCondition /\ w[i] # NoCondition}
<1>1. Chain(c) = [i \in 1..Max(ends \cup {0}) |-> w[i]]
  BY Zenon DEF Chain, Walked
<1>2. DOMAIN w = 1..MaxCalls /\ MaxCalls \in Nat
  <2>1. MaxCalls \in Nat
    BY WalkedIs
  <2>2. DOMAIN w = 1..MaxCalls
    BY WalkedIs DEF w
  <2> QED
    BY <2>1, <2>2
<1> HIDE DEF w
<1>3. ASSUME NEW i \in 1..MaxCalls, NEW j \in 1..MaxCalls, i < j,
             w[i] # NoCondition, Behind(w[i]) = NoCondition
      PROVE  w[j] = NoCondition
  <2>1. i \in 1..(MaxCalls - 1) /\ i + 1 \in 1..MaxCalls /\ i + 1 <= j
    BY <1>2, <1>3
  <2>2. w[i + 1] = NoCondition
    BY <1>3, <2>1, WalkedIs DEF w
  <2> QED
    BY <2>1, <2>2, WalkedIs DEF w
<1>4. ends = {e}
  <2>1. w[e] # NoCondition /\ Behind(w[e]) = NoCondition
    BY DEF w
  <2>2. ASSUME NEW i \in ends PROVE i = e
    BY <1>2, <1>3, <2>1, <2>2
  <2> QED
    BY <1>2, <2>1, <2>2
<1>5. Max(ends \cup {0}) = e
  <2>1. ends \cup {0} \subseteq 0..e /\ ends \cup {0} # {} /\ e \in Nat
    BY <1>2, <1>4
  <2> HIDE DEF ends
  <2>2. /\ Max(ends \cup {0}) \in ends \cup {0}
        /\ \A x \in ends \cup {0} : x <= Max(ends \cup {0})
    BY <2>1, Greatest
  <2>3. ends \cup {0} = {e, 0}
    BY <1>4
  <2>4. Max(ends \cup {0}) \in {e, 0} /\ e <= Max(ends \cup {0})
    BY <2>2, <2>3, Zenon
  <2> QED
    BY <2>1, <2>4
<1> QED
  BY <1>1, <1>5 DEF w

\* A chain, link by link.
LEMMA ChainIs ==
  ASSUME ConditionInv, NEW c \in Conditions, Ends(c)
  PROVE  /\ Chain(c) \in Seq(Conditions) /\ Chain(c)[1] = c
         /\ Len(Chain(c)) \in 1..MaxCalls /\ MaxCalls \in Nat
         /\ \A i \in 1..(Len(Chain(c)) - 1) : Behind(Chain(c)[i]) = Chain(c)[i + 1]
         /\ Behind(Chain(c)[Len(Chain(c))]) = NoCondition
<1> DEFINE w == Walked(c)
           s == Chain(c)
           ends == {i \in DOMAIN w : Behind(w[i]) = NoCondition /\ w[i] # NoCondition}
<1>1. s = [i \in 1..Max(ends \cup {0}) |-> w[i]]
  BY Zenon DEF Chain, Walked
<1>2. DOMAIN w = 1..MaxCalls /\ MaxCalls \in Nat
  <2>1. MaxCalls \in Nat
    BY WalkedIs
  <2>2. DOMAIN w = 1..MaxCalls
    BY WalkedIs DEF w
  <2> QED
    BY <2>1, <2>2
<1> HIDE DEF w
<1>3. ends # {}
  <2> SUFFICES ASSUME ends = {} PROVE s = <<>>
    BY DEF Ends
  <2>1. Max({0}) = 0
    BY DEF Max
  <2>2. ends \cup {0} = {0}
    OBVIOUS
  <2> HIDE DEF ends
  <2>3. s = [i \in 1..0 |-> w[i]]
    BY <1>1, <2>1, <2>2
  <2>4. DOMAIN s = {}
    BY <2>3
  <2> HIDE DEF s
  <2> QED
    BY <2>3, <2>4
<1>4. PICK e \in 1..MaxCalls : w[e] # NoCondition /\ Behind(w[e]) = NoCondition
  BY <1>2, <1>3
<1>5. s = [i \in 1..e |-> w[i]] /\ e \in Nat
  BY <1>2, <1>4, ChainEnds DEF w
<1>6. ASSUME NEW i \in 1..e PROVE w[i] \in Conditions
  <2>1. i \in 1..MaxCalls /\ i <= e
    BY <1>2, <1>5
  <2> QED
    BY <1>4, <2>1, WalkedIs DEF w
<1> HIDE DEF s
<1>7. s \in Seq(Conditions) /\ Len(s) = e
  BY <1>5, <1>6
<1>8. ASSUME NEW i \in 1..(e - 1) PROVE Behind(s[i]) = s[i + 1]
  <2>1. i \in 1..(MaxCalls - 1) /\ i \in 1..e /\ i + 1 \in 1..e
    BY <1>2, <1>5
  <2> QED
    BY <1>5, <2>1, WalkedIs DEF w
<1>9. s[1] = c /\ s[e] = w[e]
  BY <1>2, <1>5, WalkedIs DEF w
<1> QED
  BY <1>2, <1>4, <1>7, <1>8, <1>9 DEF s

-----------------------------------------------------------------------------
(* append. *)

\* The invariant holds at first ...
LEMMA ConditionInit == conditionInit => ConditionInv
BY DEF conditionInit, ConditionInv, Links

\* ... and every step of newCondition and append keeps it.
LEMMA ConditionNext == ConditionInv /\ [conditionNext]_conditionVars => ConditionInv'
<1> SUFFICES ASSUME ConditionInv, [conditionNext]_conditionVars PROVE ConditionInv'
  OBVIOUS
<1>1. ASSUME NEW offer \in Offers, newCondition(offer) PROVE ConditionInv'
  <2>1. (CHOOSE d \in Conditions \ DOMAIN made : TRUE) \in Conditions
    BY <1>1 DEF newCondition
  <2>2. /\ DOMAIN made \subseteq DOMAIN made' /\ DOMAIN made' \subseteq Conditions
        /\ link' = link /\ appending' = NoAppend
    BY <1>1, <2>1 DEF newCondition, ConditionInv
  <2>3. link' \in [Conditions -> Links']
    BY <2>2 DEF ConditionInv, Links
  <2> QED
    BY <2>2, <2>3 DEF ConditionInv
<1>2. ASSUME NEW this \in DOMAIN made, NEW condition \in DOMAIN made,
             NEW type \in {"AND", "OR"}, append(this, type, condition)
      PROVE  ConditionInv'
  <2>1. made' = made /\ link' = link
    BY <1>2 DEF append
  <2>2. this \in Conditions /\ Behind(this) \in DOMAIN made \cup {NoCondition}
    BY DEF ConditionInv, Links, Behind
  <2>3. appending' \in Appends /\ appending'.next = Behind(appending'.this)
    BY <1>2, <2>2 DEF append, Appends
  <2> QED
    BY <2>1, <2>3 DEF ConditionInv, Links, Appends, Behind
<1>3. CASE Walk
  <2>1. appending \in Appends /\ made' = made /\ link' = link
    BY <1>3 DEF Walk, ConditionInv
  <2>2. Behind(appending.this) \in DOMAIN made \cup {NoCondition}
    BY <2>1 DEF ConditionInv, Links, Appends, Behind
  <2>3. /\ appending' \in Appends
        /\ appending'.next = Behind(appending.this) /\ appending'.this = appending.this
    BY <1>3, <2>1, <2>2 DEF Walk, Appends
  <2> QED
    BY <2>1, <2>3 DEF ConditionInv, Links, Appends, Behind
<1>4. CASE Link
  <2>1. /\ appending \in Appends /\ made' = made /\ appending' = NoAppend
        /\ link' = [link EXCEPT ![LinkTo] = [type |-> appending.type,
                                            condition |-> appending.condition]]
    BY <1>4 DEF Link, ConditionInv
  <2>2. [type |-> appending.type, condition |-> appending.condition] \in Links
    BY <2>1 DEF Appends, Links
  <2>3. link' \in [Conditions -> Links]
    BY <2>1, <2>2 DEF ConditionInv
  <2> QED
    BY <2>1, <2>3 DEF ConditionInv, Links
<1>5. CASE UNCHANGED conditionVars
  BY <1>5 DEF conditionVars, ConditionInv, Links, Appends, Behind
<1> QED
  BY <1>1, <1>2, <1>3, <1>4, <1>5 DEF conditionNext

\* Where append stops the chain of this ends, with one condition or two.
LEMMA LinksToLast ==
  ASSUME ConditionInv, appending # NoAppend, ~MoreLinks
  PROVE  /\ Ends(appending.this)
         /\ LinkTo = Chain(appending.this)[Len(Chain(appending.this))]
<1> DEFINE c == appending.this
           d == appending.next
           w == Walked(c)
<1>1. /\ c \in Conditions /\ d \in Conditions \cup {NoCondition} /\ d = Behind(c)
      /\ Behind(d) = NoCondition /\ NoCondition \notin Conditions
  BY ConditionsAssumption DEF ConditionInv, Appends, MoreLinks
<1> HIDE DEF c, d
<1>2. MaxCalls \in Nat \ {0} /\ w[1] = c
  BY <1>1, WalkedIs
<1>3. CASE d = NoCondition
  <2>1. 1 \in 1..MaxCalls /\ w[1] # NoCondition /\ Behind(w[1]) = NoCondition
    BY <1>1, <1>2, <1>3
  <2>2. Chain(c) = [i \in 1..1 |-> w[i]]
    BY <1>1, <2>1, ChainEnds
  <2> HIDE DEF w
  <2>3. Len(Chain(c)) = 1 /\ Chain(c) # <<>> /\ Chain(c)[1] = c
    BY <1>2, <2>2
  <2>4. LinkTo = c
    BY <1>3 DEF LinkTo, c, d
  <2> QED
    BY <2>3, <2>4 DEF Ends, c
<1>4. CASE d # NoCondition
  <2>1. c # d /\ d \in Conditions
    BY <1>1, <1>4
  <2>2. MaxCalls >= 2
    <3>1. IsFiniteSet({c}) /\ Cardinality({c}) = 1
      BY FS_Singleton
    <3>2. Cardinality({c} \cup {d}) = 2
      BY <2>1, <3>1, FS_AddElement
    <3>3. Cardinality({c} \cup {d}) <= Cardinality(Conditions)
      BY <1>1, <2>1, ConditionsAssumption, FS_Subset
    <3> QED
      BY <3>2, <3>3 DEF MaxCalls
  <2>3. 2 \in 1..MaxCalls /\ w[2] = d
    <3>1. 1 \in 1..(MaxCalls - 1) /\ 1 + 1 = 2
      BY <1>2, <2>2
    <3> QED
      BY <1>1, <1>2, <2>2, <3>1, WalkedIs
  <2>4. Chain(c) = [i \in 1..2 |-> w[i]]
    BY <1>1, <2>1, <2>3, <1>4, ChainEnds
  <2> HIDE DEF w
  <2>5. Len(Chain(c)) = 2 /\ Chain(c) # <<>> /\ Chain(c)[2] = d
    BY <2>3, <2>4
  <2>6. LinkTo = d
    BY <1>4 DEF LinkTo, d
  <2> QED
    BY <2>5, <2>6 DEF Ends, c
<1> QED
  BY <1>3, <1>4

\* Condition.append puts the new condition behind the last one of the chain, and
\* no other link is touched, for any number of conditions.
THEOREM AppendsAlwaysBehind == conditionSpec => AppendsBehind
<1>1. ConditionInv /\ [conditionNext]_conditionVars =>
        [\A c \in Conditions :
           link'[c] # link[c]
             => /\ Ends(appending.this)
                /\ c = Chain(appending.this)[Len(Chain(appending.this))]
                /\ link'[c].condition = appending.condition]_conditionVars
  <2> SUFFICES ASSUME ConditionInv, conditionNext, NEW c \in Conditions, link'[c] # link[c]
               PROVE  /\ Ends(appending.this)
                      /\ c = Chain(appending.this)[Len(Chain(appending.this))]
                      /\ link'[c].condition = appending.condition
    BY Zenon
  <2>1. Link
    BY DEF conditionNext, newCondition, append, Walk
  <2>2. c = LinkTo /\ link'[c].condition = appending.condition
    BY <2>1 DEF Link, ConditionInv
  <2> QED
    BY <2>1, <2>2, LinksToLast DEF Link
<1> QED
  BY <1>1, ConditionInit, ConditionNext, PTL DEF conditionSpec, AppendsBehind

-----------------------------------------------------------------------------
(* MongoUtil.  In what follows s is a chain of n conditions. *)

IsChain(s, n) ==
  /\ s \in Seq(DOMAIN made) /\ n = Len(s) /\ n \in 1..MaxCalls /\ MaxCalls \in Nat
  /\ \A i \in 1..(n - 1) : Behind(s[i]) = s[i + 1]
  /\ Behind(s[n]) = NoCondition
  /\ NoCondition \notin DOMAIN made

IsFunction(q) == q = [k \in DOMAIN q |-> q[k]]

\* The positions behind lo, up to hi, that are linked by AND; those with key k.
LinkedIn(s, lo, hi) == {j \in (lo + 1)..hi : link[s[j - 1]].type = "AND"}
Holding(s, lo, hi, k) == {j \in LinkedIn(s, lo, hi) : made[s[j]].key = k}

\* q is base with the conditions linked behind lo, up to hi, put over it.
Overlaid(q, base, s, lo, hi) ==
  /\ IsFunction(q)
  /\ DOMAIN q = DOMAIN base \cup {made[s[j]].key : j \in LinkedIn(s, lo, hi)}
  /\ \A k \in DOMAIN q :
       /\ Holding(s, lo, hi, k) = {} => q[k] = base[k]
       /\ \A j \in Holding(s, lo, hi, k) :
            (\A i \in Holding(s, lo, hi, k) : i <= j) => q[k] = s[j]

\* Nothing is linked in an empty piece of the chain.
LEMMA OverlaidNone ==
  ASSUME NEW s, NEW i \in Nat, NEW q, IsFunction(q)
  PROVE  Overlaid(q, q, s, i, i)
<1>1. (i + 1)..i = {}
  OBVIOUS
<1>2. LinkedIn(s, i, i) = {} /\ \A k : Holding(s, i, i, k) = {}
  BY <1>1 DEF LinkedIn, Holding
<1> QED
  BY <1>2 DEF Overlaid

\* One link more.
LEMMA OverlaidOne ==
  ASSUME NEW s, NEW i \in Nat, NEW h \in Nat, i <= h, NEW q, NEW base, Overlaid(q, base, s, i, h)
  PROVE  Overlaid(IF link[s[h]].type = "AND" THEN Put(q, s[h + 1]) ELSE q, base, s, i, h + 1)
<1> DEFINE L == LinkedIn(s, i, h)
           M == LinkedIn(s, i, h + 1)
           r == Put(q, s[h + 1])
           key == made[s[h + 1]].key
<1>1. /\ \A j \in L : j <= h /\ j \in Nat
      /\ link[s[h]].type = "AND" => M = L \cup {h + 1}
      /\ link[s[h]].type # "AND" => M = L
  <2>1. (i + 1)..(h + 1) = ((i + 1)..h) \cup {h + 1} /\ (h + 1) - 1 = h /\ h + 1 \notin (i + 1)..h
    OBVIOUS
  <2> QED
    BY <2>1 DEF LinkedIn
<1>2. /\ \A k : Holding(s, i, h, k) = {j \in L : made[s[j]].key = k}
      /\ \A k : Holding(s, i, h + 1, k) = {j \in M : made[s[j]].key = k}
  BY DEF Holding
<1>3. r = [k \in DOMAIN q \cup {key} |-> IF k = key THEN s[h + 1] ELSE q[k]]
  BY DEF Put
<1>4. /\ IsFunction(q) /\ DOMAIN q = DOMAIN base \cup {made[s[j]].key : j \in L}
      /\ \A k \in DOMAIN q :
           /\ Holding(s, i, h, k) = {} => q[k] = base[k]
           /\ \A j \in Holding(s, i, h, k) :
                (\A x \in Holding(s, i, h, k) : x <= j) => q[k] = s[j]
  BY DEF Overlaid
<1> HIDE DEF L, M, r, key
<1>5. CASE link[s[h]].type # "AND"
  <2>1. M = L
    BY <1>1, <1>5
  <2>2. \A k : Holding(s, i, h + 1, k) = Holding(s, i, h, k)
    BY <1>2, <2>1
  <2>3. \A k \in DOMAIN q :
           /\ Holding(s, i, h + 1, k) = {} => q[k] = base[k]
           /\ \A j \in Holding(s, i, h + 1, k) :
                (\A x \in Holding(s, i, h + 1, k) : x <= j) => q[k] = s[j]
    BY <1>4, <2>2
  <2>4. IsFunction(q) /\ DOMAIN q = DOMAIN base \cup {made[s[j]].key : j \in M}
    BY <1>4, <2>1
  <2>5. Overlaid(q, base, s, i, h + 1)
    BY <2>3, <2>4 DEF Overlaid, M
  <2> QED
    BY <1>5, <2>5
<1>6. CASE link[s[h]].type = "AND"
  <2>1. M = L \cup {h + 1}
    BY <1>1, <1>6
  <2>2. Holding(s, i, h + 1, key) = Holding(s, i, h, key) \cup {h + 1}
    BY <1>2, <2>1 DEF key
  <2>3. ASSUME NEW k, k # key PROVE Holding(s, i, h + 1, k) = Holding(s, i, h, k)
    <3>1. made[s[h + 1]].key # k
      BY <2>3 DEF key
    <3>2. {j \in M : made[s[j]].key = k} = {j \in L : made[s[j]].key = k}
      BY <2>1, <3>1
    <3> QED
      BY <1>2, <3>2
  <2>4. \A j \in Holding(s, i, h, key) : j <= h /\ j \in Nat
    BY <1>1, <1>2
  <2>5. IsFunction(r) /\ DOMAIN r = DOMAIN q \cup {key}
    BY <1>3 DEF IsFunction
  <2>6. DOMAIN r = DOMAIN base \cup {made[s[j]].key : j \in M}
    BY <1>4, <2>1, <2>5 DEF key
  <2>7. ASSUME NEW k \in DOMAIN r
        PROVE  /\ Holding(s, i, h + 1, k) = {} => r[k] = base[k]
               /\ \A j \in Holding(s, i, h + 1, k) :
                    (\A x \in Holding(s, i, h + 1, k) : x <= j) => r[k] = s[j]
    <3>1. CASE k = key
      <4>1. r[k] = s[h + 1] /\ h + 1 \in Holding(s, i, h + 1, k)
        BY <1>3, <2>2, <3>1
      <4>2. ASSUME NEW j \in Holding(s, i, h + 1, k), \A x \in Holding(s, i, h + 1, k) : x <= j
            PROVE  j = h + 1
        BY <2>2, <2>4, <3>1, <4>1, <4>2
      <4> QED
        BY <4>1, <4>2
    <3>2. CASE k # key
      <4>1. r[k] = q[k] /\ k \in DOMAIN q
        BY <1>3, <2>5, <3>2
      <4>2. Holding(s, i, h + 1, k) = Holding(s, i, h, k)
        BY <2>3, <3>2
      <4> QED
        BY <1>4, <4>1, <4>2
    <3> QED
      BY <3>1, <3>2
  <2> QED
    BY <1>6, <2>5, <2>6, <2>7 DEF Overlaid, M, r
<1> QED
  BY <1>5, <1>6

CallsOf(call, result, c, n) ==
  call = [k \in 0..n |->
            IF k = 0 THEN [result |-> result, condition |-> c] ELSE LinkAdded(call[k - 1])]

\* The calls of addLink, n of them at most, end.
LEMMA CallsExist ==
  ASSUME NEW result, NEW c, NEW n \in Nat
  PROVE  \E call : CallsOf(call, result, c, n)
<1> DEFINE S == {m \in Nat : \E call : CallsOf(call, result, c, m)}
           first == [result |-> result, condition |-> c]
<1> HIDE DEF first
<1>1. 0 \in S
  <2>1. CallsOf([k \in 0..0 |-> first], result, c, 0)
    BY DEF CallsOf, first
  <2> QED
    BY <2>1
<1>2. ASSUME NEW m \in Nat, m \in S PROVE m + 1 \in S
  <2>1. PICK call : CallsOf(call, result, c, m)
    BY <1>2
  <2> DEFINE more == [k \in 0..(m + 1) |-> IF k <= m THEN call[k] ELSE LinkAdded(call[m])]
  <2>2. \A k \in 0..m : call[k] = IF k = 0 THEN first ELSE LinkAdded(call[k - 1])
    BY <2>1 DEF CallsOf, first
  <2>3. ASSUME NEW k \in 0..(m + 1)
        PROVE  more[k] = IF k = 0 THEN first ELSE LinkAdded(more[k - 1])
    BY <2>2
  <2>4. more = [k \in 0..(m + 1) |-> more[k]]
    OBVIOUS
  <2> HIDE DEF more
  <2>5. CallsOf(more, result, c, m + 1)
    BY <2>3, <2>4 DEF CallsOf, first
  <2> QED
    BY <2>5
<1> HIDE DEF S
<1>3. Nat \subseteq S
  BY <1>1, <1>2, Induction
<1> QED
  BY <1>3 DEF S

\* addLink puts what is linked behind a condition over what there is.
LEMMA addLinkIs ==
  ASSUME NEW s, NEW n, IsChain(s, n), NEW i \in 1..n, NEW base, IsFunction(base)
  PROVE  Overlaid(addLink(base, s[i]), base, s, i, n)
<1>1. PICK call : CallsOf(call, base, s[i], MaxCalls) /\ addLink(base, s[i]) = call[MaxCalls].result
  <2> DEFINE call == CHOOSE f : CallsOf(f, base, s[i], MaxCalls)
  <2>1. CallsOf(call, base, s[i], MaxCalls)
    BY CallsExist, Zenon DEF IsChain
  <2>2. addLink(base, s[i]) = call[MaxCalls].result
    BY Zenon DEF addLink, CallsOf
  <2> QED
    BY <2>1, <2>2, Zenon
<1>2. /\ MaxCalls \in Nat /\ n \in Nat /\ n >= 1 /\ n <= MaxCalls /\ i \in Nat /\ i >= 1 /\ i <= n
      /\ \A h \in 1..(n - 1) : Behind(s[h]) = s[h + 1]
      /\ Behind(s[n]) = NoCondition
      /\ \A h \in 1..n : s[h] # NoCondition
  BY DEF IsChain
<1>3. /\ call[0] = [result |-> base, condition |-> s[i]]
      /\ \A k \in 0..MaxCalls : k + 1 <= MaxCalls => call[k + 1] = LinkAdded(call[k])
  BY <1>1, <1>2 DEF CallsOf
<1> DEFINE At(k, h) ==
             /\ h \in i..n /\ (h = i + k \/ h = n)
             /\ call[k].condition = s[h] /\ Overlaid(call[k].result, base, s, i, h)
           S == {k \in Nat : k <= MaxCalls => \E h \in i..n : At(k, h)}
<1>4. 0 \in S
  <2>1. Overlaid(base, base, s, i, i)
    BY <1>2, OverlaidNone
  <2>2. call[0].condition = s[i] /\ call[0].result = base /\ i \in i..n /\ i = i + 0
    BY <1>2, <1>3
  <2>3. At(0, i)
    BY <2>1, <2>2
  <2> HIDE DEF At
  <2> QED
    BY <2>2, <2>3
<1>5. ASSUME NEW k \in Nat, k \in S PROVE k + 1 \in S
  <2> SUFFICES ASSUME k + 1 <= MaxCalls PROVE \E h \in i..n : At(k + 1, h)
    OBVIOUS
  <2>1. k \in 0..MaxCalls /\ k <= MaxCalls
    BY <1>2
  <2>2. PICK h \in i..n : At(k, h)
    BY <1>5, <2>1
  <2>3. call[k + 1] = LinkAdded(call[k])
    BY <1>3, <2>1
  <2>4. CASE h = n
    <3>1. Behind(call[k].condition) = NoCondition
      BY <1>2, <2>2, <2>4
    <3>2. call[k + 1] = call[k]
      BY <2>3, <3>1 DEF LinkAdded
    <3>3. At(k + 1, n)
      BY <2>2, <2>4, <3>2
    <3> HIDE DEF At
    <3> QED
      BY <2>2, <2>4, <3>3
  <2>5. CASE h # n
    <3>1. /\ h \in 1..(n - 1) /\ h \in Nat /\ i <= h /\ h + 1 \in i..n /\ h + 1 \in 1..n
          /\ h + 1 = i + (k + 1)
      BY <1>2, <2>2, <2>5
    <3>2. Behind(call[k].condition) = s[h + 1] /\ s[h + 1] # NoCondition
      BY <1>2, <2>2, <3>1
    <3> DEFINE q == IF link[s[h]].type = "AND" THEN Put(call[k].result, s[h + 1]) ELSE call[k].result
    <3>3. call[k + 1] = [result |-> q, condition |-> s[h + 1]]
      BY <2>2, <2>3, <3>2 DEF LinkAdded
    <3>4. Overlaid(q, base, s, i, h + 1)
      BY <1>2, <2>2, <3>1, OverlaidOne
    <3> HIDE DEF q
    <3>5. At(k + 1, h + 1)
      BY <3>1, <3>3, <3>4
    <3> HIDE DEF At
    <3> QED
      BY <3>1, <3>5
  <2> QED
    BY <2>4, <2>5
<1> HIDE DEF S
<1>6. Nat \subseteq S
  BY <1>4, <1>5, Induction
<1>7. PICK h \in i..n : At(MaxCalls, h)
  BY <1>2, <1>6 DEF S
<1>8. h = n
  BY <1>2, <1>7
<1> QED
  BY <1>1, <1>7, <1>8

\* What is put over the same once more gives what is put over it at once.
LEMMA OverlaidTwice ==
  ASSUME NEW s, NEW i \in Nat, NEW n \in Nat, NEW q, NEW inner, NEW base,
         Overlaid(inner, base, s, i + 1, n), Overlaid(q, inner, s, i, n)
  PROVE  Overlaid(q, base, s, i, n)
<1>1. LinkedIn(s, i + 1, n) \subseteq LinkedIn(s, i, n)
  <2>1. ((i + 1) + 1)..n \subseteq (i + 1)..n
    OBVIOUS
  <2> QED
    BY <2>1 DEF LinkedIn
<1>2. \A k : Holding(s, i + 1, n, k) \subseteq Holding(s, i, n, k)
  BY <1>1 DEF Holding
<1>3. DOMAIN q = DOMAIN base \cup {made[s[j]].key : j \in LinkedIn(s, i, n)}
  BY <1>1 DEF Overlaid
<1>4. ASSUME NEW k \in DOMAIN q, Holding(s, i, n, k) = {}
      PROVE  q[k] = base[k]
  <2>1. q[k] = inner[k] /\ Holding(s, i + 1, n, k) = {}
    BY <1>2, <1>4 DEF Overlaid
  <2>2. k \in DOMAIN inner
    <3>1. k \notin {made[s[j]].key : j \in LinkedIn(s, i, n)}
      BY <1>4 DEF Holding
    <3> QED
      BY <3>1 DEF Overlaid
  <2> QED
    BY <2>1, <2>2 DEF Overlaid
<1> QED
  BY <1>3, <1>4 DEF Overlaid

\* What one call of parseCondition gives for each condition, at most k deep, if
\* calls one less deep give below.
Level(k, below) ==
  [d \in DOMAIN made |->
     Parsed(d, IF k = 0 \/ Behind(d) = NoCondition THEN <<>> ELSE below[Behind(d)])]
LevelsOf(call, n) == call = [k \in 0..n |-> Level(k, call[k - 1])]

\* The calls of parseCondition, n deep at most, end.
LEMMA LevelsExist ==
  ASSUME NEW n \in Nat
  PROVE  \E call : LevelsOf(call, n)
<1> DEFINE S == {m \in Nat : \E call : LevelsOf(call, m)}
<1>1. \A x, y : Level(0, x) = Level(0, y)
  BY DEF Level
<1>2. 0 \in S
  <2> DEFINE none == [k \in 0..0 |-> Level(0, <<>>)]
  <2>1. \A k \in 0..0 : none[k] = Level(k, none[k - 1])
    BY <1>1
  <2>2. none = [k \in 0..0 |-> none[k]]
    OBVIOUS
  <2> HIDE DEF none
  <2>3. LevelsOf(none, 0)
    BY <2>1, <2>2 DEF LevelsOf
  <2> QED
    BY <2>3
<1>3. ASSUME NEW m \in Nat, m \in S PROVE m + 1 \in S
  <2>1. PICK call : LevelsOf(call, m)
    BY <1>3
  <2> DEFINE more == [k \in 0..(m + 1) |-> IF k <= m THEN call[k] ELSE Level(k, call[m])]
  <2>2. \A k \in 0..m : call[k] = Level(k, call[k - 1])
    BY <2>1 DEF LevelsOf
  <2>3. ASSUME NEW k \in 0..(m + 1)
        PROVE  more[k] = Level(k, more[k - 1])
    BY <1>1, <2>2
  <2>4. more = [k \in 0..(m + 1) |-> more[k]]
    OBVIOUS
  <2> HIDE DEF more
  <2>5. LevelsOf(more, m + 1)
    BY <2>3, <2>4 DEF LevelsOf
  <2> QED
    BY <2>5
<1> HIDE DEF S
<1>4. Nat \subseteq S
  BY <1>2, <1>3, Induction
<1> QED
  BY <1>4 DEF S

\* One condition at one level.
LEMMA LevelAt ==
  ASSUME NEW k, NEW below, NEW d \in DOMAIN made
  PROVE  /\ k = 0 => Level(k, below)[d] = Parsed(d, <<>>)
         /\ k # 0 /\ Behind(d) = NoCondition => Level(k, below)[d] = Parsed(d, <<>>)
         /\ k # 0 /\ Behind(d) # NoCondition => Level(k, below)[d] = Parsed(d, below[Behind(d)])
<1>1. Level(k, below)[d]
        = Parsed(d, IF k = 0 \/ Behind(d) = NoCondition THEN <<>> ELSE below[Behind(d)])
  BY DEF Level
<1> QED
  BY <1>1

Value(s, i) == KeyedValue(s[i])

\* f is the first condition from i on that parses; all before it are empty.
First(s, n, i, f) ==
  f \in i..n /\ Value(s, f) = "usable" /\ \A j \in i..(f - 1) : Value(s, j) = "empty"

\* What parseCondition is to return from the i-th condition on.
RightFrom(q, s, n, i) ==
  /\ \A f \in 1..n : First(s, n, i, f) => Overlaid(q, Put(<<>>, s[f]), s, i, n)
  /\ (\A f \in 1..n : ~First(s, n, i, f)) => q = <<>>

\* A query with a key is not null.
LEMMA PutIs ==
  ASSUME NEW c
  PROVE  /\ IsFunction(Put(<<>>, c)) /\ DOMAIN Put(<<>>, c) = {made[c].key}
         /\ Put(<<>>, c)[made[c].key] = c /\ Put(<<>>, c) # <<>>
<1>1. Put(<<>>, c) = [k \in {made[c].key} |-> c]
  BY DEF Put
<1>2. DOMAIN <<>> = {}
  OBVIOUS
<1>3. made[c].key \in DOMAIN Put(<<>>, c)
  BY <1>1
<1>4. Put(<<>>, c) # <<>>
  BY <1>2, <1>3
<1> QED
  BY <1>1, <1>4 DEF IsFunction

\* One call of parseCondition is right if the one for the next condition is.
LEMMA ParsedRight ==
  ASSUME NEW s, NEW n, IsChain(s, n), NEW i \in 1..n, NEW inner,
         i < n => RightFrom(inner, s, n, i + 1)
  PROVE  RightFrom(Parsed(s[i], inner), s, n, i)
<1> DEFINE q == Parsed(s[i], inner)
<1>1. /\ n \in Nat /\ i \in Nat /\ i <= n /\ i >= 1
      /\ i < n => i + 1 \in 1..n /\ Behind(s[i]) = s[i + 1] /\ s[i + 1] # NoCondition
      /\ i = n => Behind(s[i]) = NoCondition
  BY DEF IsChain
<1>2. CASE Value(s, i) = "usable"
  <2> DEFINE base == Put(<<>>, s[i])
  <2>a. IsFunction(base) /\ base # <<>>
    BY PutIs
  <2>1. q = addLink(base, s[i])
    BY <1>2, <2>a DEF Parsed, Value
  <2> HIDE DEF base, q
  <2>b. Overlaid(q, base, s, i, n)
    BY <2>a, <2>1, addLinkIs
  <2>2. Overlaid(q, Put(<<>>, s[i]), s, i, n)
    BY <2>b DEF base
  <2>3. First(s, n, i, i)
    BY <1>1, <1>2 DEF First
  <2>4. ASSUME NEW f \in 1..n, First(s, n, i, f) PROVE f = i
    <3> SUFFICES ASSUME f # i PROVE FALSE
      OBVIOUS
    <3>1. i \in i..(f - 1)
      BY <1>1, <2>4 DEF First
    <3> QED
      BY <1>2, <2>4, <3>1 DEF First
  <2> QED
    BY <2>2, <2>3, <2>4 DEF RightFrom, q
<1>3. CASE Value(s, i) = "empty" /\ i < n
  <2>1. q = IF inner = <<>> THEN <<>> ELSE addLink(inner, s[i])
    BY <1>1, <1>3 DEF Parsed, Value
  <2>2. ASSUME NEW f \in 1..n
        PROVE  First(s, n, i, f) <=> First(s, n, i + 1, f)
    <3>1. ASSUME First(s, n, i, f) PROVE First(s, n, i + 1, f)
      <4>1. f # i
        BY <1>3, <3>1 DEF First
      <4> QED
        BY <1>1, <3>1, <4>1 DEF First
    <3>2. ASSUME First(s, n, i + 1, f) PROVE First(s, n, i, f)
      <4>1. \A j \in i..(f - 1) : j = i \/ j \in (i + 1)..(f - 1)
        BY <1>1
      <4> QED
        BY <1>1, <1>3, <3>2, <4>1 DEF First
    <3> QED
      BY <3>1, <3>2
  <2>3. ASSUME NEW f \in 1..n, First(s, n, i, f)
        PROVE  Overlaid(q, Put(<<>>, s[f]), s, i, n)
    <3>1. Overlaid(inner, Put(<<>>, s[f]), s, i + 1, n)
      BY <1>3, <2>2, <2>3 DEF RightFrom
    <3>2. inner # <<>> /\ IsFunction(inner)
      <4>1. made[s[f]].key \in DOMAIN inner /\ IsFunction(inner)
        BY <3>1, PutIs DEF Overlaid
      <4>2. DOMAIN <<>> = {}
        OBVIOUS
      <4> QED
        BY <4>1, <4>2
    <3>3. Overlaid(q, inner, s, i, n)
      BY <2>1, <3>2, addLinkIs
    <3> HIDE DEF q
    <3> QED
      BY <1>1, <3>1, <3>3, OverlaidTwice
  <2>4. ASSUME \A f \in 1..n : ~First(s, n, i, f) PROVE q = <<>>
    BY <1>3, <2>1, <2>2, <2>4 DEF RightFrom
  <2> HIDE DEF q
  <2> QED
    BY <2>3, <2>4 DEF RightFrom, q
<1>4. CASE Value(s, i) # "usable" /\ ~(Value(s, i) = "empty" /\ i < n)
  <2>1. q = <<>>
    BY <1>1, <1>4 DEF Parsed, Value
  <2>2. ASSUME NEW f \in 1..n, First(s, n, i, f) PROVE FALSE
    <3>1. f # i
      BY <1>4, <2>2 DEF First
    <3>2. i \in i..(f - 1) /\ i < n
      BY <1>1, <2>2, <3>1 DEF First
    <3> QED
      BY <1>4, <2>2, <3>2 DEF First
  <2> HIDE DEF q
  <2> QED
    BY <2>1, <2>2 DEF RightFrom, q
<1> QED
  BY <1>2, <1>3, <1>4

\* parseCondition is right for a chain.
LEMMA parseConditionIs ==
  ASSUME NEW s, NEW n, IsChain(s, n)
  PROVE  RightFrom(parseCondition(s[1]), s, n, 1)
<1>1. PICK call : LevelsOf(call, MaxCalls) /\ parseCondition(s[1]) = call[MaxCalls][s[1]]
  <2> DEFINE call == CHOOSE f : LevelsOf(f, MaxCalls)
  <2>1. LevelsOf(call, MaxCalls)
    BY LevelsExist, Zenon DEF IsChain
  <2>2. parseCondition(s[1]) = call[MaxCalls][s[1]]
    BY Zenon DEF parseCondition, LevelsOf, Level
  <2> QED
    BY <2>1, <2>2, Zenon
<1>2. /\ MaxCalls \in Nat /\ n \in Nat /\ n >= 1 /\ n <= MaxCalls
      /\ \A i \in 1..n : s[i] \in DOMAIN made
      /\ \A i \in 1..(n - 1) : Behind(s[i]) = s[i + 1]
      /\ NoCondition \notin DOMAIN made
  BY DEF IsChain
<1>3. \A k \in 0..MaxCalls : call[k] = Level(k, call[k - 1])
  BY <1>1 DEF LevelsOf
<1> DEFINE S == {k \in Nat : k <= MaxCalls =>
                   \A i \in 1..n : n - i <= k => RightFrom(call[k][s[i]], s, n, i)}
<1>4. 0 \in S
  <2> SUFFICES ASSUME NEW i \in 1..n, n - i <= 0 PROVE RightFrom(call[0][s[i]], s, n, i)
    OBVIOUS
  <2>1. call[0][s[i]] = Parsed(s[i], <<>>)
    <3>1. call[0] = Level(0, call[0 - 1])
      BY <1>2, <1>3
    <3> QED
      BY <1>2, <3>1, LevelAt
  <2>2. ~(i < n)
    BY <1>2
  <2> QED
    BY <2>1, <2>2, ParsedRight
<1>5. ASSUME NEW k \in Nat, k \in S PROVE k + 1 \in S
  <2> SUFFICES ASSUME k + 1 <= MaxCalls, NEW i \in 1..n, n - i <= k + 1
               PROVE  RightFrom(call[k + 1][s[i]], s, n, i)
    OBVIOUS
  <2> DEFINE inner == IF Behind(s[i]) = NoCondition THEN <<>> ELSE call[k][Behind(s[i])]
  <2>1. call[k + 1][s[i]] = Parsed(s[i], inner)
    <3>1. k + 1 \in 0..MaxCalls /\ (k + 1) - 1 = k /\ k + 1 # 0
      BY <1>2
    <3>2. call[k + 1] = Level(k + 1, call[k])
      BY <1>3, <3>1
    <3> QED
      BY <1>2, <3>1, <3>2, LevelAt
  <2>2. ASSUME i < n PROVE RightFrom(inner, s, n, i + 1)
    <3>1. i \in 1..(n - 1) /\ i + 1 \in 1..n /\ n - (i + 1) <= k /\ k <= MaxCalls
      BY <1>2, <2>2
    <3>2. inner = call[k][s[i + 1]]
      BY <1>2, <3>1
    <3> QED
      BY <1>5, <3>1, <3>2
  <2> HIDE DEF inner
  <2> QED
    BY <2>1, <2>2, ParsedRight
<1> HIDE DEF S
<1>6. Nat \subseteq S
  BY <1>4, <1>5, Induction
<1>7. MaxCalls \in S /\ 1 \in 1..n /\ n - 1 <= MaxCalls /\ MaxCalls <= MaxCalls
  BY <1>2, <1>6
<1> QED
  BY <1>1, <1>7 DEF S

\* The chain from c on is one of conditions that were made.
LEMMA ChainIsMade ==
  ASSUME ConditionInv, NEW c \in DOMAIN made, Ends(c)
  PROVE  IsChain(Chain(c), Len(Chain(c)))
<1> DEFINE s == Chain(c)
           n == Len(s)
<1>1. c \in Conditions /\ NoCondition \notin DOMAIN made /\ NoCondition \notin Conditions
  BY ConditionsAssumption DEF ConditionInv
<1>2. /\ s \in Seq(Conditions) /\ s[1] = c /\ n \in 1..MaxCalls /\ MaxCalls \in Nat
      /\ \A i \in 1..(n - 1) : Behind(s[i]) = s[i + 1]
      /\ Behind(s[n]) = NoCondition
  BY <1>1, ChainIs
<1> HIDE DEF s
<1>3. ASSUME NEW i \in 1..n PROVE s[i] \in DOMAIN made
  <2>1. CASE i = 1
    BY <1>2, <2>1
  <2>2. CASE i # 1
    <3>1. i - 1 \in 1..(n - 1) /\ (i - 1) + 1 = i /\ i - 1 \in 1..n
      BY <1>2, <2>2
    <3>2. s[i] = Behind(s[i - 1]) /\ s[i] \in Conditions /\ s[i - 1] \in Conditions
      BY <1>2, <3>1
    <3> QED
      BY <1>1, <3>2 DEF ConditionInv, Links, Behind
  <2> QED
    BY <2>1, <2>2
<1>4. s \in Seq(DOMAIN made)
  BY <1>2, <1>3
<1> QED
  BY <1>1, <1>2, <1>4 DEF IsChain, s

\* Functions on the same set with the same values are the same.
LEMMA SameFunction ==
  ASSUME NEW q, IsFunction(q), NEW S, DOMAIN q = S, NEW g, IsFunction(g), DOMAIN g = S,
         \A k \in S : q[k] = g[k]
  PROVE  q = g
BY DEF IsFunction

\* The query of a chain is what was asked for.
LEMMA QueryIs == ConditionInv => QueryIsChain
<1> SUFFICES ASSUME ConditionInv, NEW c \in DOMAIN made, Ends(c)
             PROVE
      LET chain == Chain(c)
          first == {i \in DOMAIN chain :
                      /\ KeyedValue(chain[i]) = "usable"
                      /\ \A j \in 1..(i - 1) : KeyedValue(chain[j]) = "empty"}
          linked == {i \in DOMAIN chain : i > 1 /\ link[chain[i - 1]].type = "AND"}
          asked == IF first = {} THEN {} ELSE first \cup linked
          Holder(k) == LET for == {i \in asked : made[chain[i]].key = k}
                   IN  Max(IF for \cap linked = {} THEN for ELSE for \cap linked)
      IN  parseCondition(c) = [k \in {made[chain[i]].key : i \in asked} |-> chain[Holder(k)]]
  BY Zenon DEF QueryIsChain
<1> DEFINE s == Chain(c)
           n == Len(s)
           first == {i \in DOMAIN s : /\ KeyedValue(s[i]) = "usable"
                                      /\ \A j \in 1..(i - 1) : KeyedValue(s[j]) = "empty"}
           linked == {i \in DOMAIN s : i > 1 /\ link[s[i - 1]].type = "AND"}
           asked == IF first = {} THEN {} ELSE first \cup linked
           For(k) == {i \in asked : made[s[i]].key = k}
           Holder(k) == Max(IF For(k) \cap linked = {} THEN For(k) ELSE For(k) \cap linked)
           keys == {made[s[i]].key : i \in asked}
           wanted == [k \in keys |-> s[Holder(k)]]
           q == parseCondition(c)
<1> SUFFICES q = wanted
  OBVIOUS
<1>1. IsChain(s, n) /\ s[1] = c
  <2>1. c \in Conditions
    BY DEF ConditionInv
  <2> QED
    BY <2>1, ChainIsMade, ChainIs
<1> HIDE DEF s
<1>2. n \in Nat /\ DOMAIN s = 1..n
  BY <1>1 DEF IsChain
<1>3. RightFrom(q, s, n, 1)
  BY <1>1, parseConditionIs
<1>4. \A f : f \in first <=> f \in 1..n /\ First(s, n, 1, f)
  BY <1>2 DEF First, Value
<1>5. \A k : Holding(s, 1, n, k) = {i \in linked : made[s[i]].key = k}
  BY <1>2 DEF Holding, LinkedIn
<1>6. LinkedIn(s, 1, n) = linked /\ linked \subseteq 0..n /\ first \subseteq 0..n
  BY <1>2 DEF LinkedIn
<1> HIDE DEF q, first, linked
<1>7. IsFunction(wanted) /\ DOMAIN wanted = keys
  BY DEF IsFunction
<1>8. CASE first = {}
  <2>1. q = <<>>
    BY <1>3, <1>4, <1>8 DEF RightFrom
  <2>2. keys = {}
    BY <1>8
  <2>3. IsFunction(q) /\ DOMAIN q = {}
    BY <2>1 DEF IsFunction
  <2> HIDE DEF wanted, keys
  <2> QED
    BY <1>7, <2>2, <2>3, SameFunction
<1>9. CASE first # {}
  <2>1. PICK f \in first : TRUE
    BY <1>9
  <2>2. f \in 1..n /\ First(s, n, 1, f)
    BY <1>4, <2>1
  <2>3. ASSUME NEW g \in first PROVE g = f
    <3>1. g \in 1..n /\ First(s, n, 1, g)
      BY <1>4
    <3>2. ~(g < f) /\ ~(f < g)
      BY <1>2, <2>2, <3>1 DEF First
    <3> QED
      BY <1>2, <2>2, <3>1, <3>2
  <2>4. first = {f} /\ asked = {f} \cup linked
    BY <1>9, <2>1, <2>3
  <2> DEFINE base == Put(<<>>, s[f])
  <2>5. Overlaid(q, base, s, 1, n)
    BY <1>3, <2>2 DEF RightFrom
  <2>6. DOMAIN base = {made[s[f]].key} /\ base[made[s[f]].key] = s[f]
    BY PutIs
  <2> HIDE DEF base
  <2>7. IsFunction(q) /\ DOMAIN q = keys
    <3>1. keys = {made[s[f]].key} \cup {made[s[j]].key : j \in linked}
      BY <2>4
    <3> QED
      BY <1>6, <2>5, <2>6, <3>1 DEF Overlaid
  <2>8. ASSUME NEW k \in keys PROVE q[k] = wanted[k]
    <3>1. wanted[k] = s[Holder(k)]
      OBVIOUS
    <3>2. For(k) \cap linked = Holding(s, 1, n, k)
      BY <1>5, <2>4
    <3>3. CASE Holding(s, 1, n, k) = {}
      <4>1. For(k) = {f} /\ made[s[f]].key = k
        <5>1. For(k) # {}
          OBVIOUS
        <5> QED
          BY <2>4, <3>2, <3>3, <5>1
      <4>2. Holder(k) = f
        <5>1. {f} \subseteq 0..n /\ {f} # {}
          BY <1>2, <2>2
        <5>a. Max({f}) \in {f}
          BY <1>2, <5>1, Greatest, Zenon
        <5>2. Max({f}) = f
          BY <5>a
        <5> HIDE DEF For
        <5> QED
          BY <3>2, <3>3, <4>1, <5>2
      <4>3. q[k] = base[k]
        BY <2>5, <2>7, <3>3 DEF Overlaid
      <4> QED
        BY <2>6, <3>1, <4>1, <4>2, <4>3
    <3>4. CASE Holding(s, 1, n, k) # {}
      <4> DEFINE H == Holding(s, 1, n, k)
      <4>1. H \subseteq 0..n /\ H # {}
        BY <1>5, <1>6, <3>4
      <4>2. Max(H) \in H /\ \A x \in H : x <= Max(H)
        <5> HIDE DEF H
        <5> QED
          BY <1>2, <4>1, Greatest
      <4>3. q[k] = s[Max(H)]
        BY <2>5, <2>7, <4>2 DEF Overlaid
      <4>4. Holder(k) = Max(H)
        <5> HIDE DEF For
        <5> QED
          BY <3>2, <3>4
      <4> QED
        BY <3>1, <4>3, <4>4
    <3> QED
      BY <3>3, <3>4
  <2> HIDE DEF wanted, keys
  <2> QED
    BY <1>7, <2>7, <2>8, SameFunction
<1> QED
  BY <1>8, <1>9

\* MongoUtil.parseCondition makes of a chain, however long and however it was put
\* together, the query that its conditions and links ask for.
THEOREM QueryIsAlwaysChain == conditionSpec => []QueryIsChain
BY ConditionInit, ConditionNext, QueryIs, PTL DEF conditionSpec

-----------------------------------------------------------------------------
(* Cookies.  A jar is what the browser keeps for one directory. *)

cookieSpec == cookieInit /\ [][cookieNext]_cookieVars

Cookie == [name : Names, value : Seq(Characters \cup {"%3B"})]
IsJar(jar) ==
  /\ jar \in Seq(Cookie)
  /\ \A i, j \in DOMAIN jar : jar[i].name = jar[j].name => i = j

Lacks(jar, name) == \A i \in DOMAIN jar : jar[i].name # name
Has(jar, name, value) == \E i \in DOMAIN jar : jar[i] = [name |-> name, value |-> value]

\* A jar has what was meant for its directory, as it was sent.
Holds(jar, name, value) ==
  /\ value = NoValue => Lacks(jar, name)
  /\ value # NoValue => Has(jar, name, encodeURIComponent(value))

CookieInv ==
  /\ cookies \in [Pages -> Seq(Cookie)] /\ \A p \in Pages : IsJar(cookies[p])
  /\ meant \in [Pages -> [Names -> Values \cup {NoValue}]]
  /\ options \in [DOMAIN Objects -> Options]
  /\ spoiled \in BOOLEAN
  /\ ~spoiled => \A p \in Pages, n \in Names : Holds(cookies[p], n, meant[p][n])

\* A set of positive numbers has a least one.
LEMMA Least ==
  ASSUME NEW S, S \subseteq Nat, S # {}
  PROVE  Min(S) \in S /\ \A x \in S : Min(S) <= x
<1> DEFINE P == {m \in Nat : \A k \in 0..m : k \notin S}
<1>1. PICK x \in S : \A y \in S : x <= y
  <2> SUFFICES ASSUME \A x \in S : \E y \in S : ~(x <= y) PROVE FALSE
    OBVIOUS
  <2>1. 0 \in P
    OBVIOUS
  <2>2. ASSUME NEW m \in Nat, m \in P PROVE m + 1 \in P
    <3>1. \A k \in 0..(m + 1) : k \in 0..m \/ k = m + 1
      OBVIOUS
    <3>2. m + 1 \notin S
      <4> SUFFICES ASSUME m + 1 \in S PROVE FALSE
        OBVIOUS
      <4>1. PICK y \in S : ~(m + 1 <= y)
        OBVIOUS
      <4>2. y \in 0..m
        BY <4>1
      <4> QED
        BY <2>2, <4>2
    <3> QED
      BY <2>2, <3>1, <3>2
  <2> HIDE DEF P
  <2>3. Nat \subseteq P
    BY <2>1, <2>2, Induction
  <2>4. PICK x : x \in S
    OBVIOUS
  <2>5. x \in 0..x /\ x \in P
    BY <2>3, <2>4
  <2> QED
    BY <2>4, <2>5 DEF P
<1>2. \A y \in S : x <= y
  BY <1>1
<1>3. Min(S) \in S /\ \A y \in S : Min(S) <= y
  BY <1>2, Zenon DEF Min
<1> QED
  BY <1>3

\* The first cookie with a name.
LEMMA MatchIs ==
  ASSUME NEW S, NEW s \in Seq(S), NEW n
  PROVE  /\ Match(s, n) = 0 <=> Lacks(s, n)
         /\ Match(s, n) # 0 =>
              /\ Match(s, n) \in DOMAIN s /\ s[Match(s, n)].name = n
              /\ \A i \in DOMAIN s : s[i].name = n => Match(s, n) <= i
         /\ Match(s, n) \in Nat
<1> DEFINE I == {i \in 1..Len(s) : s[i].name = n}
<1>1. Match(s, n) = IF I # {} THEN Min(I) ELSE 0
  BY DEF Match, SelectInSeq
<1>2. DOMAIN s = 1..Len(s) /\ Len(s) \in Nat
  OBVIOUS
<1>3. I # {} => Min(I) \in I /\ \A x \in I : Min(I) <= x
  <2>1. I \subseteq Nat
    BY <1>2
  <2> HIDE DEF I
  <2> QED
    BY <2>1, Least
<1>4. I = {} <=> Lacks(s, n)
  BY <1>2 DEF Lacks
<1>5. CASE I = {}
  BY <1>1, <1>4, <1>5
<1>6. CASE I # {}
  <2>1. Match(s, n) \in I /\ \A x \in I : Match(s, n) <= x
    BY <1>1, <1>3, <1>6
  <2>2. Match(s, n) # 0 /\ Match(s, n) \in DOMAIN s /\ s[Match(s, n)].name = n
    BY <1>2, <2>1
  <2>3. \A i \in DOMAIN s : s[i].name = n => i \in I
    BY <1>2
  <2> HIDE DEF I
  <2> QED
    BY <1>2, <1>4, <1>6, <2>1, <2>2, <2>3
<1> QED
  BY <1>5, <1>6

\* What stands where in two sequences one after the other.
LEMMA ConcatIs ==
  ASSUME NEW S, NEW s \in Seq(S), NEW t \in Seq(S)
  PROVE  /\ s \o t \in Seq(S) /\ Len(s \o t) = Len(s) + Len(t)
         /\ \A k \in 1..Len(s) : (s \o t)[k] = s[k]
         /\ \A k \in 1..Len(t) : (s \o t)[Len(s) + k] = t[k]
<1>1. /\ s \o t \in Seq(S) /\ Len(s \o t) = Len(s) + Len(t)
      /\ \A i \in 1..(Len(s) + Len(t)) : (s \o t)[i] = IF i <= Len(s) THEN s[i] ELSE t[i - Len(s)]
  BY ConcatProperties
<1>2. Len(s) \in Nat /\ Len(t) \in Nat
  OBVIOUS
<1>3. ASSUME NEW k \in 1..Len(t) PROVE (s \o t)[Len(s) + k] = t[k]
  <2>1. /\ Len(s) + k \in 1..(Len(s) + Len(t)) /\ ~(Len(s) + k <= Len(s))
        /\ (Len(s) + k) - Len(s) = k
    BY <1>2
  <2> QED
    BY <1>1, <2>1
<1> QED
  BY <1>1, <1>2, <1>3

\* A jar without its i-th cookie.
LEMMA Removed ==
  ASSUME NEW jar, IsJar(jar), NEW i \in DOMAIN jar
  PROVE  /\ IsJar(RemoveAt(jar, i)) /\ Lacks(RemoveAt(jar, i), jar[i].name)
         /\ \A n : n # jar[i].name =>
              /\ Lacks(jar, n) => Lacks(RemoveAt(jar, i), n)
              /\ \A v : Has(jar, n, v) => Has(RemoveAt(jar, i), n, v)
<1> DEFINE t == RemoveAt(jar, i)
           l == Len(jar)
<1>1. jar \in Seq(Cookie) /\ l \in Nat /\ DOMAIN jar = 1..l /\ i \in 1..l
  BY DEF IsJar
<1>2. /\ t \in Seq(Cookie) /\ Len(t) = l - 1
      /\ \A j \in 1..(l - 1) : t[j] = IF j < i THEN jar[j] ELSE jar[j + 1]
  <2> DEFINE a == SubSeq(jar, 1, i - 1)
             b == SubSeq(jar, i + 1, l)
  <2>1. /\ a \in Seq(Cookie) /\ Len(a) = i - 1
        /\ \A j \in 1..(i - 1) : a[j] = jar[j]
    BY <1>1
  <2>2. /\ b \in Seq(Cookie) /\ Len(b) = l - i
        /\ \A j \in 1..(l - i) : b[j] = jar[i + j]
    BY <1>1
  <2>3. t = a \o b
    BY DEF RemoveAt
  <2> HIDE DEF a, b, t
  <2>4. /\ t \in Seq(Cookie) /\ Len(t) = (i - 1) + (l - i)
        /\ \A j \in 1..(i - 1) : t[j] = a[j]
        /\ \A j \in 1..(l - i) : t[(i - 1) + j] = b[j]
    <3>1. /\ t \in Seq(Cookie) /\ Len(t) = Len(a) + Len(b)
          /\ \A j \in 1..Len(a) : t[j] = a[j]
          /\ \A j \in 1..Len(b) : t[Len(a) + j] = b[j]
      <4>1. a \in Seq(Cookie) /\ b \in Seq(Cookie)
        BY <2>1, <2>2
      <4> QED
        BY <4>1, <2>3, ConcatIs
    <3>2. Len(a) = i - 1 /\ Len(b) = l - i
      BY <2>1, <2>2
    <3> QED
      BY <3>1, <3>2, Zenon
  <2>5. ASSUME NEW j \in 1..(l - 1), ~(j < i) PROVE t[j] = jar[j + 1]
    <3> DEFINE k == j - (i - 1)
    <3>1. k \in 1..(l - i) /\ (i - 1) + k = j /\ i + k = j + 1
      BY <1>1, <2>5
    <3> HIDE DEF k
    <3>2. t[(i - 1) + k] = b[k] /\ b[k] = jar[i + k]
      BY <2>2, <2>4, <3>1
    <3> QED
      BY <3>1, <3>2
  <2>6. ASSUME NEW j \in 1..(l - 1), j < i PROVE t[j] = jar[j]
    <3>1. j \in 1..(i - 1)
      BY <1>1, <2>6
    <3> QED
      BY <2>1, <2>4, <3>1
  <2> QED
    BY <1>1, <2>4, <2>5, <2>6
<1> HIDE DEF t
<1>3. DOMAIN t = 1..(l - 1)
  BY <1>1, <1>2
<1>4. \A j \in 1..(l - 1) : \E k \in 1..l : k # i /\ t[j] = jar[k]
  <2> TAKE j \in 1..(l - 1)
  <2>1. CASE j < i
    BY <1>1, <1>2, <2>1
  <2>2. CASE ~(j < i)
    <3>1. j + 1 \in 1..l /\ j + 1 # i /\ t[j] = jar[j + 1]
      BY <1>1, <1>2, <2>2
    <3> QED
      BY <3>1
  <2> QED
    BY <2>1, <2>2
<1>5. ASSUME NEW j \in 1..(l - 1), NEW k \in 1..(l - 1), t[j].name = t[k].name PROVE j = k
  <2> DEFINE At(x) == IF x < i THEN x ELSE x + 1
  <2>1. At(j) \in 1..l /\ At(k) \in 1..l /\ t[j] = jar[At(j)] /\ t[k] = jar[At(k)]
    BY <1>1, <1>2
  <2>2. At(j) = At(k)
    BY <1>1, <1>5, <2>1 DEF IsJar
  <2> QED
    BY <1>1, <2>2
<1>6. IsJar(t)
  BY <1>2, <1>3, <1>5 DEF IsJar
<1>7. Lacks(t, jar[i].name)
  <2> SUFFICES ASSUME NEW j \in 1..(l - 1) PROVE t[j].name # jar[i].name
    BY <1>3 DEF Lacks
  <2>1. PICK k \in 1..l : k # i /\ t[j] = jar[k]
    BY <1>4
  <2> QED
    BY <1>1, <2>1 DEF IsJar
<1>8. ASSUME NEW n, Lacks(jar, n) PROVE Lacks(t, n)
  BY <1>1, <1>3, <1>4, <1>8 DEF Lacks
<1>9. ASSUME NEW n, n # jar[i].name, NEW v, Has(jar, n, v) PROVE Has(t, n, v)
  <2>1. PICK k \in 1..l : jar[k] = [name |-> n, value |-> v]
    BY <1>1, <1>9 DEF Has
  <2>2. k # i
    BY <1>9, <2>1
  <2>3. CASE k < i
    <3>1. k \in 1..(l - 1) /\ t[k] = jar[k]
      BY <1>1, <1>2, <2>3
    <3> QED
      BY <1>3, <2>1, <3>1 DEF Has
  <2>4. CASE k > i
    <3>1. k - 1 \in 1..(l - 1) /\ t[k - 1] = jar[k]
      BY <1>1, <1>2, <2>4
    <3> QED
      BY <1>3, <2>1, <3>1 DEF Has
  <2> QED
    BY <1>1, <2>2, <2>3, <2>4
<1> QED
  BY <1>6, <1>7, <1>8, <1>9 DEF t

\* A jar with a new cookie.
LEMMA Appended ==
  ASSUME NEW jar, IsJar(jar), NEW c \in Cookie, Lacks(jar, c.name)
  PROVE  /\ IsJar(Append(jar, c)) /\ Has(Append(jar, c), c.name, c.value)
         /\ \A n : n # c.name =>
              /\ Lacks(jar, n) => Lacks(Append(jar, c), n)
              /\ \A v : Has(jar, n, v) => Has(Append(jar, c), n, v)
<1> DEFINE t == Append(jar, c)
           l == Len(jar)
<1>1. jar \in Seq(Cookie) /\ l \in Nat /\ DOMAIN jar = 1..l
  BY DEF IsJar
<1>2. /\ t \in Seq(Cookie) /\ DOMAIN t = 1..(l + 1) /\ t[l + 1] = c
      /\ \A j \in 1..l : t[j] = jar[j]
  BY <1>1
<1>3. c = [name |-> c.name, value |-> c.value]
  BY DEF Cookie
<1> HIDE DEF t
<1>4. \A j \in 1..(l + 1) : j \in 1..l \/ j = l + 1
  BY <1>1
<1>5. IsJar(t)
  BY <1>1, <1>2, <1>4 DEF IsJar, Lacks
<1>6. Has(t, c.name, c.value)
  BY <1>1, <1>2, <1>3 DEF Has
<1>7. ASSUME NEW n, n # c.name, Lacks(jar, n) PROVE Lacks(t, n)
  BY <1>1, <1>2, <1>4, <1>7 DEF Lacks
<1>8. ASSUME NEW n, NEW v, Has(jar, n, v) PROVE Has(t, n, v)
  BY <1>1, <1>2, <1>8 DEF Has
<1> QED
  BY <1>5, <1>6, <1>7, <1>8 DEF t

\* A jar with another value in the place of an old one.
LEMMA Replaced ==
  ASSUME NEW jar, IsJar(jar), NEW c \in Cookie, NEW i \in DOMAIN jar, jar[i].name = c.name
  PROVE  /\ IsJar(ReplaceAt(jar, i, c)) /\ Has(ReplaceAt(jar, i, c), c.name, c.value)
         /\ \A n : n # c.name =>
              /\ Lacks(jar, n) => Lacks(ReplaceAt(jar, i, c), n)
              /\ \A v : Has(jar, n, v) => Has(ReplaceAt(jar, i, c), n, v)
<1> DEFINE t == ReplaceAt(jar, i, c)
<1>1. jar \in Seq(Cookie)
  BY DEF IsJar
<1>2. t \in Seq(Cookie) /\ DOMAIN t = DOMAIN jar /\ t[i] = c
      /\ \A j \in DOMAIN jar : j # i => t[j] = jar[j]
  BY <1>1 DEF ReplaceAt
<1>3. c = [name |-> c.name, value |-> c.value]
  BY DEF Cookie
<1> HIDE DEF t
<1>4. \A j \in DOMAIN jar : t[j].name = jar[j].name
  BY <1>2
<1>5. IsJar(t)
  BY <1>2, <1>4 DEF IsJar
<1>6. Has(t, c.name, c.value)
  BY <1>2, <1>3 DEF Has
<1>7. ASSUME NEW n, Lacks(jar, n) PROVE Lacks(t, n)
  BY <1>2, <1>4, <1>7 DEF Lacks
<1>8. ASSUME NEW n, n # c.name, NEW v, Has(jar, n, v) PROVE Has(t, n, v)
  <2>1. PICK k \in DOMAIN jar : jar[k] = [name |-> n, value |-> v]
    BY <1>8 DEF Has
  <2>2. k # i
    BY <1>8, <2>1
  <2> QED
    BY <1>2, <2>1, <2>2 DEF Has
<1> QED
  BY <1>5, <1>6, <1>7, <1>8 DEF t

\* What SetCookie makes of a jar.
JarOf(jar, name, value, expired) ==
  LET cookie == [name |-> name, value |-> value]
      same == SelectInSeq(jar, LAMBDA c : c.name = name)
  IN  CASE expired /\ same = 0 -> jar
        [] expired /\ same # 0 -> RemoveAt(jar, same)
        [] ~expired /\ same = 0 -> Append(jar, cookie)
        [] ~expired /\ same # 0 -> ReplaceAt(jar, same, cookie)

\* Of that name the jar then has the cookie, or none; the others stay.
LEMMA JarIs ==
  ASSUME NEW jar, IsJar(jar), NEW name, NEW value,
         NEW c \in Cookie, c = [name |-> name, value |-> value], NEW expired \in BOOLEAN
  PROVE  /\ IsJar(JarOf(jar, name, value, expired))
         /\ expired => Lacks(JarOf(jar, name, value, expired), name)
         /\ ~expired => Has(JarOf(jar, name, value, expired), name, value)
         /\ \A n : n # name =>
              /\ Lacks(jar, n) => Lacks(JarOf(jar, name, value, expired), n)
              /\ \A v : Has(jar, n, v) => Has(JarOf(jar, name, value, expired), n, v)
<1> DEFINE same == Match(jar, name)
<1>1. /\ same = 0 <=> Lacks(jar, name)
      /\ same # 0 => same \in DOMAIN jar /\ jar[same].name = name
  BY MatchIs DEF IsJar
<1>2. JarOf(jar, name, value, expired) =
        IF expired THEN IF same = 0 THEN jar ELSE RemoveAt(jar, same)
                   ELSE IF same = 0 THEN Append(jar, c) ELSE ReplaceAt(jar, same, c)
  BY DEF JarOf, Match
<1>3. c.name = name /\ c.value = value
  OBVIOUS
<1> HIDE DEF same
<1>4. CASE expired /\ same = 0
  BY <1>1, <1>2, <1>4
<1>5. CASE expired /\ same # 0
  BY <1>1, <1>2, <1>5, Removed
<1>6. CASE ~expired /\ same = 0
  BY <1>1, <1>2, <1>3, <1>6, Appended
<1>7. CASE ~expired /\ same # 0
  BY <1>1, <1>2, <1>3, <1>7, Replaced
<1> QED
  BY <1>4, <1>5, <1>6, <1>7

\* A value is sent as it was encoded, and read as it was written.
LEMMA EncodedIs ==
  ASSUME NEW v \in Values
  PROVE  /\ encodeURIComponent(v) \in Seq(Characters \cup {"%3B"})
         /\ \A i \in DOMAIN encodeURIComponent(v) : encodeURIComponent(v)[i] # ";"
         /\ decodeURIComponent(encodeURIComponent(v)) = v
<1> DEFINE e == encodeURIComponent(v)
           d == decodeURIComponent(e)
<1>1. v \in Seq(Characters) /\ Len(v) \in Nat /\ DOMAIN v = 1..Len(v)
      /\ \A i \in DOMAIN v : v[i] \in Characters /\ v[i] # "%3B"
  BY CookiesAssumption
<1>2. e = [i \in 1..Len(v) |-> IF v[i] = ";" THEN "%3B" ELSE v[i]]
  BY <1>1 DEF encodeURIComponent
<1>3. \A i \in 1..Len(v) : e[i] \in Characters \cup {"%3B"} /\ e[i] # ";"
  BY <1>1, <1>2
<1>4. e \in Seq(Characters \cup {"%3B"}) /\ DOMAIN e = 1..Len(v)
  <2> HIDE DEF e
  <2>1. e \in [1..Len(v) -> Characters \cup {"%3B"}] /\ DOMAIN e = 1..Len(v)
    BY <1>2, <1>3
  <2> QED
    BY <1>1, <2>1
<1>5. d = [i \in 1..Len(v) |-> IF e[i] = "%3B" THEN ";" ELSE e[i]]
  BY <1>4 DEF decodeURIComponent
<1>6. \A i \in 1..Len(v) : d[i] = v[i]
  BY <1>1, <1>2, <1>5
<1>7. d = v
  <2>1. d = [i \in 1..Len(v) |-> d[i]]
    BY <1>5
  <2>2. v = [i \in 1..Len(v) |-> v[i]]
    BY <1>1
  <2> HIDE DEF d
  <2> QED
    BY <1>6, <2>1, <2>2
<1> QED
  BY <1>3, <1>4, <1>7

\* A sequence up to the first x.
UpTo(s, x) == SubSeq(s, 1, SelectInSeq(s \o <<x>>, LAMBDA y : y = x) - 1)

\* A sequence without x, up to the first x behind it, is all of it.
LEMMA UpToIs ==
  ASSUME NEW S, NEW s \in Seq(S), NEW x, \A i \in DOMAIN s : s[i] # x
  PROVE  UpTo(s, x) = s
<1> DEFINE t == s \o <<x>>
           I == {i \in 1..Len(t) : t[i] = x}
           l == Len(s)
           k == IF I # {} THEN Min(I) ELSE 0
<1>1. l \in Nat /\ DOMAIN s = 1..l /\ Len(t) = l + 1
  OBVIOUS
<1>2. \A i \in 1..l : t[i] = s[i] /\ t[i] # x
  OBVIOUS
<1>3. t[l + 1] = x
  OBVIOUS
<1>4. I = {l + 1}
  <2> HIDE DEF t
  <2>1. \A i \in 1..(l + 1) : i \in 1..l \/ i = l + 1
    BY <1>1
  <2>2. l + 1 \in 1..(l + 1)
    BY <1>1
  <2> QED
    BY <1>1, <1>2, <1>3, <2>1, <2>2
<1>5. UpTo(s, x) = SubSeq(s, 1, k - 1)
  BY Zenon DEF UpTo, SelectInSeq
<1> HIDE DEF I
<1>6. I \subseteq Nat /\ I # {}
  BY <1>1, <1>4
<1>7. Min(I) \in I
  BY <1>6, Least
<1>8. k - 1 = l
  BY <1>1, <1>4, <1>6, <1>7
<1> HIDE DEF k
<1>9. UpTo(s, x) = SubSeq(s, 1, l)
  BY <1>5, <1>8, Zenon
<1> QED
  BY <1>9

LEMMA UpToNone == \A x : UpTo(<<>>, x) = <<>>
<1> TAKE x
<1>1. <<>> \in Seq({}) /\ \A i \in DOMAIN <<>> : <<>>[i] # x
  OBVIOUS
<1> QED
  BY <1>1, UpToIs

\* What is sent of an encoded value is all of it.
LEMMA SentIs ==
  ASSUME NEW v \in Values
  PROVE  UpTo(encodeURIComponent(v), ";") = encodeURIComponent(v)
BY EncodedIs, UpToIs

LEMMA CookieInit == cookieInit => CookieInv
<1> SUFFICES ASSUME cookieInit PROVE CookieInv
  OBVIOUS
<1>1. IsJar(<<>>) /\ \A n : Lacks(<<>>, n)
  BY DEF IsJar, Lacks
<1> QED
  BY <1>1, CookiesAssumption DEF cookieInit, CookieInv, Holds, IsJar

\* One jar changes, and what is meant for one name in it.
LEMMA OneChanges ==
  ASSUME CookieInv, NEW page \in Pages, NEW name \in Names, NEW value \in Values \cup {NoValue},
         NEW jar, IsJar(jar), cookies' = [cookies EXCEPT ![page] = jar],
         meant' = [meant EXCEPT ![page][name] = value],
         options' \in [DOMAIN Objects -> Options], spoiled' \in BOOLEAN, spoiled => spoiled',
         ~spoiled' => Holds(jar, name, value),
         \A n : n # name =>
              /\ Lacks(cookies[page], n) => Lacks(jar, n)
              /\ \A v : Has(cookies[page], n, v) => Has(jar, n, v)
  PROVE  CookieInv'
<1>1. cookies' \in [Pages -> Seq(Cookie)] /\ \A p \in Pages : IsJar(cookies'[p])
  BY DEF CookieInv, IsJar
<1>2. meant' \in [Pages -> [Names -> Values \cup {NoValue}]]
      /\ \A p \in Pages, n \in Names :
           meant'[p][n] = IF p = page /\ n = name THEN value ELSE meant[p][n]
  BY DEF CookieInv
<1>3. \A p \in Pages : cookies'[p] = IF p = page THEN jar ELSE cookies[p]
  BY DEF CookieInv
<1>4. ASSUME ~spoiled', NEW p \in Pages, NEW n \in Names PROVE Holds(cookies'[p], n, meant'[p][n])
  <2>1. Holds(cookies[p], n, meant[p][n])
    BY <1>4 DEF CookieInv
  <2>2. CASE p # page
    <3>1. cookies'[p] = cookies[p] /\ meant'[p][n] = meant[p][n]
      BY <1>2, <1>3, <2>2
    <3> QED
      BY <2>1, <3>1
  <2>3. CASE p = page /\ n # name
    <3>1. cookies'[p] = jar /\ meant'[p][n] = meant[p][n]
      BY <1>2, <1>3, <2>3
    <3> QED
      BY <2>1, <2>3, <3>1 DEF Holds
  <2>4. CASE p = page /\ n = name
    <3>1. cookies'[p] = jar /\ meant'[p][n] = value
      BY <1>2, <1>3, <2>4
    <3> QED
      BY <1>4, <2>4, <3>1
  <2> QED
    BY <2>2, <2>3, <2>4
<1>5. spoiled' \in BOOLEAN /\ options' \in [DOMAIN Objects -> Options]
  OBVIOUS
<1> QED
  BY <1>1, <1>2, <1>4, <1>5 DEF CookieInv

\* A cookie that is set.
LEMMA SetCookieIs ==
  ASSUME CookieInv, NEW name, NEW page \in Pages, NEW value, UpTo(value, ";") = value,
         [name |-> name, value |-> value] \in Cookie,
         NEW expired \in BOOLEAN, SetCookie(name, page, value, expired)
  PROVE  \E jar :
           /\ IsJar(jar) /\ cookies' = [cookies EXCEPT ![page] = jar]
           /\ expired => Lacks(jar, name)
           /\ ~expired => Has(jar, name, value)
           /\ \A n : n # name =>
                /\ Lacks(cookies[page], n) => Lacks(jar, n)
                /\ \A v : Has(cookies[page], n, v) => Has(jar, n, v)
<1> DEFINE jar == JarOf(cookies[page], name, value, expired)
<1>1. cookies' = [cookies EXCEPT ![page] = jar]
  <2>1. cookies' = [cookies EXCEPT ![page] = JarOf(cookies[page], name, UpTo(value, ";"), expired)]
    BY Zenon DEF SetCookie, UpTo, JarOf
  <2> QED
    BY <2>1
<1>2. IsJar(cookies[page])
  BY DEF CookieInv
<1>3. /\ IsJar(jar) /\ (expired => Lacks(jar, name)) /\ (~expired => Has(jar, name, value))
      /\ \A n : n # name =>
           /\ Lacks(cookies[page], n) => Lacks(jar, n)
           /\ \A v : Has(cookies[page], n, v) => Has(jar, n, v)
  BY <1>2, JarIs
<1> HIDE DEF jar
<1> QED
  BY <1>1, <1>3

\* The options a call goes by.
LEMMA OptionIs ==
  ASSUME CookieInv, NEW object \in DOMAIN options \cup {"none"}, NEW page \in Pages, NEW option,
         option = IF object = "none" THEN Undefined ELSE options[object]
  PROVE  /\ option \in Options /\ option.expires \in Int
         /\ PathOf(option, page) \in Pages
<1>1. option \in Options
  <2>1. CASE object = "none"
    BY <2>1 DEF Options, Undefined
  <2>2. CASE object # "none"
    <3>1. object \in DOMAIN Objects /\ options \in [DOMAIN Objects -> Options]
      BY <2>2 DEF CookieInv
    <3> QED
      BY <2>2, <3>1
  <2> QED
    BY <2>1, <2>2
<1>2. option.expires \in Int
  BY <1>1 DEF Options
<1>3. PathOf(option, page) \in Pages
  <2>1. CASE option.path = {}
    BY <2>1 DEF PathOf
  <2>2. CASE option.path # {}
    <3>1. PICK p \in Pages : option.path = {p}
      BY <1>1, <2>2 DEF Options
    <3> QED
      BY <3>1 DEF PathOf
  <2> QED
    BY <2>1, <2>2
<1> QED
  BY <1>1, <1>2, <1>3

LEMMA WriteKeeps ==
  ASSUME CookieInv, NEW page \in Pages, NEW name \in Names, NEW value \in Values,
         NEW object \in DOMAIN options \cup {"none"}, write(page, name, value, object)
  PROVE  CookieInv'
<1> DEFINE option == IF object = "none" THEN Undefined ELSE options[object]
           P == PathOf(option, page)
<1>1. P \in Pages /\ option.expires \in Int
  BY OptionIs
<1>2. /\ SetCookie(name, P, encodeURIComponent(value), option.expires < 0)
      /\ meant' = [meant EXCEPT ![P][name] = value]
      /\ spoiled' = (spoiled \/ option.expires < 0) /\ options' = options
  BY DEF write
<1> HIDE DEF option, P
<1>3. UpTo(encodeURIComponent(value), ";") = encodeURIComponent(value)
  BY SentIs
<1>4. [name |-> name, value |-> encodeURIComponent(value)] \in Cookie
  BY EncodedIs DEF Cookie
<1>5. PICK jar :
        /\ IsJar(jar) /\ cookies' = [cookies EXCEPT ![P] = jar]
        /\ ~(option.expires < 0) => Has(jar, name, encodeURIComponent(value))
        /\ \A n : n # name =>
             /\ Lacks(cookies[P], n) => Lacks(jar, n)
             /\ \A v : Has(cookies[P], n, v) => Has(jar, n, v)
  <2> DEFINE e == encodeURIComponent(value)
             x == option.expires < 0
  <2>1. /\ [name |-> name, value |-> e] \in Cookie /\ UpTo(e, ";") = e
        /\ SetCookie(name, P, e, x)
    BY <1>2, <1>3, <1>4
  <2> HIDE DEF e
  <2>2. CASE option.expires < 0
    <3>1. x = TRUE
      BY <2>2
    <3>2. SetCookie(name, P, e, TRUE)
      BY <2>1, <3>1, Zenon
    <3> QED
      BY <1>1, <2>1, <2>2, <3>2, SetCookieIs
  <2>3. CASE ~(option.expires < 0)
    <3>1. x = FALSE
      BY <2>3
    <3>2. SetCookie(name, P, e, FALSE)
      BY <2>1, <3>1, Zenon
    <3>3. \E jar :
           /\ IsJar(jar) /\ cookies' = [cookies EXCEPT ![P] = jar]
           /\ Has(jar, name, e)
           /\ \A n : n # name =>
                /\ Lacks(cookies[P], n) => Lacks(jar, n)
                /\ \A v : Has(cookies[P], n, v) => Has(jar, n, v)
      BY <1>1, <2>1, <3>2, SetCookieIs
    <3> QED
      BY <3>3 DEF e
  <2> QED
    BY <2>2, <2>3
<1>6. ~spoiled' => Holds(jar, name, value)
  BY <1>2, <1>5, CookiesAssumption DEF Holds
<1>7. spoiled' \in BOOLEAN /\ (spoiled => spoiled')
  BY <1>2 DEF CookieInv
<1>8. options' \in [DOMAIN Objects -> Options]
  BY <1>2 DEF CookieInv
<1> QED
  BY <1>1, <1>2, <1>5, <1>6, <1>7, <1>8, OneChanges

LEMMA RemoveKeeps ==
  ASSUME CookieInv, NEW page \in Pages, NEW name \in Names,
         NEW object \in DOMAIN options \cup {"none"}, remove(page, name, object)
  PROVE  CookieInv'
<1> DEFINE option == IF object = "none" THEN Undefined ELSE options[object]
           P == PathOf(option, page)
<1>1. P \in Pages
  BY OptionIs
<1>2. /\ options' = IF object = "none" THEN options ELSE [options EXCEPT ![object].expires = -1]
      /\ SetCookie(name, P, <<>>, TRUE)
      /\ meant' = [meant EXCEPT ![P][name] = NoValue]
      /\ spoiled' = spoiled
  BY DEF remove
<1> HIDE DEF option, P
<1>3. TRUE \in BOOLEAN /\ UpTo(<<>>, ";") = <<>> /\ [name |-> name, value |-> <<>>] \in Cookie
  <2>1. UpTo(<<>>, ";") = <<>>
    BY UpToNone
  <2>2. <<>> \in Seq(Characters \cup {"%3B"})
    OBVIOUS
  <2> QED
    BY <2>1, <2>2 DEF Cookie
<1>4. PICK jar :
        /\ IsJar(jar) /\ cookies' = [cookies EXCEPT ![P] = jar] /\ Lacks(jar, name)
        /\ \A n : n # name =>
             /\ Lacks(cookies[P], n) => Lacks(jar, n)
             /\ \A v : Has(cookies[P], n, v) => Has(jar, n, v)
  BY <1>1, <1>2, <1>3, SetCookieIs
<1>5. Holds(jar, name, NoValue)
  BY <1>4 DEF Holds
<1>6. spoiled' \in BOOLEAN /\ (spoiled => spoiled')
  BY <1>2 DEF CookieInv
<1>7. options' \in [DOMAIN Objects -> Options]
  <2>1. options \in [DOMAIN Objects -> Options]
    BY DEF CookieInv
  <2>2. CASE object = "none"
    BY <1>2, <2>1, <2>2
  <2>3. CASE object # "none"
    <3>1. object \in DOMAIN Objects
      BY <2>1, <2>3
    <3>2. [options[object] EXCEPT !.expires = -1] \in Options
      BY <2>1, <3>1 DEF Options
    <3>3. options' = [options EXCEPT ![object] = [options[object] EXCEPT !.expires = -1]]
      BY <1>2, <2>3
    <3> QED
      BY <2>1, <3>1, <3>2, <3>3
  <2> QED
    BY <2>2, <2>3
<1>8. NoValue \in Values \cup {NoValue}
  OBVIOUS
<1> QED
  BY <1>1, <1>2, <1>4, <1>5, <1>6, <1>7, <1>8, OneChanges

LEMMA ForgetKeeps ==
  ASSUME CookieInv, Forget
  PROVE  CookieInv'
<1>1. PICK page \in Pages : \E i \in DOMAIN cookies[page] :
        /\ cookies' = [cookies EXCEPT ![page] = RemoveAt(@, i)]
        /\ meant' = [meant EXCEPT ![page][cookies[page][i].name] = NoValue]
  BY DEF Forget
<1>2. PICK i \in DOMAIN cookies[page] :
        /\ cookies' = [cookies EXCEPT ![page] = RemoveAt(@, i)]
        /\ meant' = [meant EXCEPT ![page][cookies[page][i].name] = NoValue]
  BY <1>1
<1> DEFINE jar == RemoveAt(cookies[page], i)
           name == cookies[page][i].name
<1>3. IsJar(cookies[page]) /\ cookies[page] \in Seq(Cookie) /\ cookies \in [Pages -> Seq(Cookie)]
  BY DEF CookieInv
<1>4. name \in Names
  <2>1. cookies[page][i] \in Cookie
    BY <1>3
  <2> QED
    BY <2>1 DEF Cookie
<1>5. /\ IsJar(jar) /\ Lacks(jar, name)
      /\ \A n : n # name =>
           /\ Lacks(cookies[page], n) => Lacks(jar, n)
           /\ \A v : Has(cookies[page], n, v) => Has(jar, n, v)
  BY <1>3, Removed
<1>6. cookies' = [cookies EXCEPT ![page] = jar] /\ meant' = [meant EXCEPT ![page][name] = NoValue]
  BY <1>2
<1>7. options' \in [DOMAIN Objects -> Options] /\ spoiled' \in BOOLEAN /\ (spoiled => spoiled')
  BY DEF CookieInv, Forget
<1> HIDE DEF jar, name
<1>8. Holds(jar, name, NoValue)
  BY <1>5 DEF Holds
<1>9. NoValue \in Values \cup {NoValue}
  OBVIOUS
<1> QED
  BY <1>4, <1>5, <1>6, <1>7, <1>8, <1>9, OneChanges

LEMMA CookieNext == CookieInv /\ [cookieNext]_cookieVars => CookieInv'
<1> SUFFICES ASSUME CookieInv, [cookieNext]_cookieVars PROVE CookieInv'
  OBVIOUS
<1>1. CASE \E page \in Pages, name \in Names, object \in DOMAIN options \cup {"none"} :
             remove(page, name, object)
  BY <1>1, RemoveKeeps
<1>2. CASE \E page \in Pages, name \in Names, object \in DOMAIN options \cup {"none"} :
             \E value \in Values : write(page, name, value, object)
  BY <1>2, WriteKeeps
<1>3. CASE Forget
  BY <1>3, ForgetKeeps
<1>4. CASE UNCHANGED cookieVars
  BY <1>4 DEF cookieVars, CookieInv
<1> QED
  BY <1>1, <1>2, <1>3, <1>4 DEF cookieNext

-----------------------------------------------------------------------------
(* What a page reads. *)

\* The first cookie with a name is that of the first part that has one.
FirstOf(s, name) == s[Match(s, name)]

LEMMA ConcatMatch ==
  ASSUME NEW s \in Seq(Cookie), NEW t \in Seq(Cookie), NEW name
  PROVE  /\ s \o t \in Seq(Cookie)
         /\ Lacks(s \o t, name) <=> Lacks(s, name) /\ Lacks(t, name)
         /\ ~Lacks(s, name) => FirstOf(s \o t, name) = FirstOf(s, name)
         /\ Lacks(s, name) /\ ~Lacks(t, name) => FirstOf(s \o t, name) = FirstOf(t, name)
<1> DEFINE u == s \o t
           l == Len(s)
           m == Len(t)
<1>1. /\ u \in Seq(Cookie) /\ Len(u) = l + m /\ l \in Nat /\ m \in Nat
      /\ DOMAIN s = 1..l /\ DOMAIN t = 1..m /\ DOMAIN u = 1..(l + m)
      /\ \A k \in 1..l : u[k] = s[k]
      /\ \A k \in 1..m : u[l + k] = t[k]
  BY ConcatIs
<1> HIDE DEF u, l, m
<1>2. \A i \in 1..(l + m) : i \in 1..l \/ \E k \in 1..m : i = l + k
  <2> TAKE i \in 1..(l + m)
  <2>1. CASE i <= l
    BY <1>1, <2>1
  <2>2. CASE ~(i <= l)
    <3>1. i - l \in 1..m /\ i = l + (i - l)
      BY <1>1, <2>2
    <3> QED
      BY <3>1
  <2> QED
    BY <2>1, <2>2
<1>3. \A k \in 1..l : k \in 1..(l + m)
  BY <1>1
<1>4. \A k \in 1..m : l + k \in 1..(l + m)
  BY <1>1
<1>5. Lacks(u, name) <=> Lacks(s, name) /\ Lacks(t, name)
  <2>1. ASSUME Lacks(u, name) PROVE Lacks(s, name) /\ Lacks(t, name)
    <3>1. \A i \in 1..(l + m) : u[i].name # name
      BY <1>1, <2>1 DEF Lacks
    <3>2. \A k \in 1..l : s[k].name # name
      BY <1>1, <1>3, <3>1
    <3>3. \A k \in 1..m : t[k].name # name
      BY <1>1, <1>4, <3>1
    <3> QED
      BY <1>1, <3>2, <3>3 DEF Lacks
  <2>2. ASSUME Lacks(s, name), Lacks(t, name) PROVE Lacks(u, name)
    <3>1. \A i \in 1..(l + m) : u[i].name # name
      <4> TAKE i \in 1..(l + m)
      <4>1. CASE i \in 1..l
        BY <1>1, <2>2, <4>1 DEF Lacks
      <4>2. CASE i \notin 1..l
        <5>1. PICK k \in 1..m : i = l + k
          BY <1>2, <4>2
        <5>2. u[i] = t[k]
          BY <1>1, <5>1
        <5> QED
          BY <1>1, <2>2, <5>2 DEF Lacks
      <4> QED
        BY <4>1, <4>2
    <3> QED
      BY <1>1, <3>1 DEF Lacks
  <2> QED
    BY <2>1, <2>2
<1>6. ASSUME ~Lacks(s, name) PROVE FirstOf(u, name) = FirstOf(s, name)
  <2> DEFINE i == Match(s, name)
             j == Match(u, name)
  <2>1. i \in 1..l /\ s[i].name = name /\ i \in Nat
    BY <1>1, <1>6, MatchIs
  <2>2. /\ j \in 1..(l + m) /\ u[j].name = name
        /\ \A k \in 1..(l + m) : u[k].name = name => j <= k
    BY <1>1, <1>5, <1>6, MatchIs
  <2>3. \A k \in 1..l : s[k].name = name => i <= k
    BY <1>1, <1>6, MatchIs
  <2> HIDE DEF i, j
  <2>4. j <= i
    BY <1>1, <1>3, <2>1, <2>2
  <2>5. j \in 1..l
    BY <1>1, <2>1, <2>2, <2>4
  <2>6. i <= j
    BY <1>1, <2>2, <2>3, <2>5
  <2>7. i = j
    BY <1>1, <2>1, <2>5, <2>4, <2>6
  <2> QED
    BY <1>1, <2>1, <2>7 DEF FirstOf, i, j
<1>7. ASSUME Lacks(s, name), ~Lacks(t, name) PROVE FirstOf(u, name) = FirstOf(t, name)
  <2> DEFINE i == Match(t, name)
             j == Match(u, name)
  <2>1. i \in 1..m /\ t[i].name = name /\ i \in Nat
    BY <1>1, <1>7, MatchIs
  <2>2. /\ j \in 1..(l + m) /\ u[j].name = name
        /\ \A k \in 1..(l + m) : u[k].name = name => j <= k
    BY <1>1, <1>5, <1>7, MatchIs
  <2>3. \A k \in 1..m : t[k].name = name => i <= k
    BY <1>1, <1>7, MatchIs
  <2> HIDE DEF i, j
  <2>4. j <= l + i
    BY <1>1, <1>4, <2>1, <2>2
  <2>5. j \notin 1..l
    BY <1>1, <1>7, <2>2 DEF Lacks
  <2>6. PICK k \in 1..m : j = l + k
    BY <1>2, <2>2, <2>5
  <2>7. i <= k
    BY <1>1, <2>2, <2>3, <2>6
  <2>8. i = k
    BY <1>1, <2>1, <2>4, <2>6, <2>7
  <2>9. u[j] = t[i]
    BY <1>1, <2>6, <2>8
  <2> QED
    BY <2>9 DEF FirstOf, i, j
<1> QED
  BY <1>1, <1>5, <1>6, <1>7 DEF u

\* The function by which FlattenSeq puts n sequences one after the other ...
Joined(g, seqs, n) ==
  g = [k \in 1..n |-> IF k = 1 THEN seqs[k] ELSE g[k - 1] \o seqs[k]]

\* ... exists.
LEMMA JoinedExists ==
  ASSUME NEW seqs, NEW n \in Nat
  PROVE  \E g : Joined(g, seqs, n)
<1> DEFINE S == {m \in Nat : \E g : Joined(g, seqs, m)}
<1>1. 0 \in S
  <2>1. Joined([k \in 1..0 |-> 0], seqs, 0)
    BY DEF Joined
  <2> QED
    BY <2>1
<1>2. ASSUME NEW m \in Nat, m \in S PROVE m + 1 \in S
  <2>1. PICK g : Joined(g, seqs, m)
    BY <1>2
  <2> DEFINE h == [k \in 1..(m + 1) |-> IF k <= m THEN g[k]
                                        ELSE IF k = 1 THEN seqs[k] ELSE g[m] \o seqs[k]]
  <2>2. ASSUME NEW k \in 1..(m + 1)
        PROVE  h[k] = IF k = 1 THEN seqs[k] ELSE h[k - 1] \o seqs[k]
    <3>1. CASE k = m + 1
      <4>1. m # 0 => m \in 1..(m + 1) /\ (m + 1) - 1 = m /\ h[m] = g[m]
        OBVIOUS
      <4> QED
        BY <3>1, <4>1
    <3>2. CASE k # m + 1
      <4>1. k \in 1..m /\ h[k] = g[k] /\ (k # 1 => h[k - 1] = g[k - 1])
        BY <3>2
      <4>2. g[k] = IF k = 1 THEN seqs[k] ELSE g[k - 1] \o seqs[k]
        BY <2>1, <4>1 DEF Joined
      <4> QED
        BY <4>1, <4>2
    <3> QED
      BY <3>1, <3>2
  <2>3. Joined(h, seqs, m + 1)
    <3> HIDE DEF h
    <3>1. h = [k \in 1..(m + 1) |-> h[k]]
      BY DEF h
    <3> QED
      BY <2>2, <3>1 DEF Joined
  <2> QED
    BY <2>3
<1> HIDE DEF S
<1>3. Nat \subseteq S
  BY <1>1, <1>2, Induction
<1> QED
  BY <1>3 DEF S

\* Of jars one after the other, the first with a name has the first cookie.
LEMMA FlattenedMatch ==
  ASSUME NEW n \in Nat, n # 0, NEW jars \in [1..n -> Seq(Cookie)], NEW name
  PROVE  /\ FlattenSeq(jars) \in Seq(Cookie)
         /\ (\A k \in 1..n : Lacks(jars[k], name)) => Lacks(FlattenSeq(jars), name)
         /\ \A k \in 1..n :
              (\A j \in 1..(k - 1) : Lacks(jars[j], name)) /\ ~Lacks(jars[k], name)
                => /\ ~Lacks(FlattenSeq(jars), name)
                   /\ FirstOf(FlattenSeq(jars), name) = FirstOf(jars[k], name)
<1> DEFINE g == CHOOSE h : Joined(h, jars, n)
           None(m) == \A k \in 1..m : Lacks(jars[k], name)
           At(m, k) == k \in 1..m /\ None(k - 1) /\ ~Lacks(jars[k], name)
           T == {m \in Nat : m \in 1..n =>
                   /\ g[m] \in Seq(Cookie)
                   /\ None(m) => Lacks(g[m], name)
                   /\ \A k \in 1..m : At(m, k) =>
                        ~Lacks(g[m], name) /\ FirstOf(g[m], name) = FirstOf(jars[k], name)}
<1>1. Joined(g, jars, n)
  BY JoinedExists
<1>2. FlattenSeq(jars) = g[n]
  <2>1. Len(jars) = n
    OBVIOUS
  <2> QED
    BY <2>1 DEF FlattenSeq, Joined
<1> HIDE DEF g
<1>3. 0 \in T
  OBVIOUS
<1>4. ASSUME NEW m \in Nat, m \in T PROVE m + 1 \in T
  <2> SUFFICES ASSUME m + 1 \in 1..n
               PROVE  /\ g[m + 1] \in Seq(Cookie)
                      /\ None(m + 1) => Lacks(g[m + 1], name)
                      /\ \A k \in 1..(m + 1) : At(m + 1, k) =>
                           /\ ~Lacks(g[m + 1], name)
                           /\ FirstOf(g[m + 1], name) = FirstOf(jars[k], name)
    OBVIOUS
  <2>1. CASE m = 0
    <3>1. g[1] = jars[1]
      BY <1>1, <2>1 DEF Joined
    <3>2. jars[1] \in Seq(Cookie)
      BY <2>1
    <3> QED
      BY <2>1, <3>1, <3>2
  <2>2. CASE m # 0
    <3> DEFINE s == g[m]
               t == jars[m + 1]
    <3>1. g[m + 1] = s \o t
      <4>1. m + 1 \in 1..n /\ m + 1 # 1 /\ (m + 1) - 1 = m
        BY <2>2
      <4> QED
        BY <1>1, <4>1 DEF Joined
    <3>2. /\ s \in Seq(Cookie) /\ (None(m) => Lacks(s, name))
          /\ \A k \in 1..m : At(m, k) =>
               ~Lacks(s, name) /\ FirstOf(s, name) = FirstOf(jars[k], name)
      BY <1>4, <2>2
    <3>3. t \in Seq(Cookie)
      OBVIOUS
    <3> HIDE DEF s, T
    <3>4. /\ s \o t \in Seq(Cookie)
          /\ Lacks(s \o t, name) <=> Lacks(s, name) /\ Lacks(t, name)
          /\ ~Lacks(s, name) => FirstOf(s \o t, name) = FirstOf(s, name)
          /\ Lacks(s, name) /\ ~Lacks(t, name) => FirstOf(s \o t, name) = FirstOf(t, name)
      BY <3>2, <3>3, ConcatMatch
    <3>5. None(m + 1) => None(m) /\ Lacks(t, name)
      OBVIOUS
    <3>6. ASSUME NEW k \in 1..(m + 1), At(m + 1, k)
          PROVE  ~Lacks(s \o t, name) /\ FirstOf(s \o t, name) = FirstOf(jars[k], name)
      <4>1. CASE k = m + 1
        <5>1. None(m) /\ ~Lacks(t, name)
          <6>1. (m + 1) - 1 = m
            OBVIOUS
          <6> QED
            BY <3>6, <4>1, <6>1
        <5> HIDE DEF None, At
        <5> QED
          BY <3>2, <3>4, <4>1, <5>1
      <4>2. CASE k # m + 1
        <5>1. k \in 1..m /\ At(m, k)
          BY <3>6, <4>2
        <5> HIDE DEF None, At
        <5> QED
          BY <3>2, <3>4, <5>1
      <4> QED
        BY <4>1, <4>2
    <3> HIDE DEF None, At, t
    <3> QED
      BY <3>1, <3>2, <3>4, <3>5, <3>6
  <2> QED
    BY <2>1, <2>2
<1>5. n \in T
  <2> HIDE DEF T
  <2>1. Nat \subseteq T
    BY <1>3, <1>4, Induction
  <2> QED
    BY <2>1
<1>6. n \in 1..n
  OBVIOUS
<1> QED
  BY <1>2, <1>5, <1>6

\* A jar that has a cookie gives that one.
LEMMA FirstOfJar ==
  ASSUME NEW jar, IsJar(jar), NEW name, NEW value, Has(jar, name, value)
  PROVE  ~Lacks(jar, name) /\ FirstOf(jar, name).value = value
<1>1. PICK i \in DOMAIN jar : jar[i] = [name |-> name, value |-> value]
  BY DEF Has
<1>2. jar[i].name = name /\ jar[i].value = value
  BY <1>1
<1>3. ~Lacks(jar, name)
  BY <1>2 DEF Lacks
<1>4. Match(jar, name) \in DOMAIN jar /\ jar[Match(jar, name)].name = name
  BY <1>3, MatchIs DEF IsJar
<1>5. Match(jar, name) = i
  BY <1>2, <1>4 DEF IsJar
<1> QED
  BY <1>2, <1>3, <1>5 DEF FirstOf

\* The directory k levels up.
Above(page, k) == SubSeq(page, 1, Len(page) - k)

LEMMA AboveIs ==
  ASSUME NEW page \in Seq(Folders), NEW k \in 0..Len(page)
  PROVE  /\ Above(page, k) \in Seq(Folders) /\ Len(Above(page, k)) = Len(page) - k
         /\ IsPrefix(Above(page, k), page)
<1> DEFINE l == Len(page) - k
           p == Above(page, k)
<1>1. l \in 0..Len(page) /\ p = SubSeq(page, 1, l)
  BY DEF Above
<1> HIDE DEF l, p
<1>2. p \in Seq(Folders) /\ Len(p) = l
  BY <1>1
<1>3. SubSeq(p, 1, l) = p
  BY <1>1, <1>2
<1>4. IsPrefix(p, page)
  BY <1>1, <1>2, <1>3 DEF IsPrefix
<1> QED
  BY <1>2, <1>4 DEF l, p

\* A prefix is a directory above.
LEMMA PrefixIs ==
  ASSUME NEW page \in Seq(Folders), NEW p \in Seq(Folders), IsPrefix(p, page)
  PROVE  Len(page) - Len(p) \in 0..Len(page) /\ p = Above(page, Len(page) - Len(p))
<1>1. Len(p) <= Len(page) /\ SubSeq(p, 1, Len(p)) = SubSeq(page, 1, Len(p))
  BY DEF IsPrefix
<1>2. SubSeq(p, 1, Len(p)) = p
  OBVIOUS
<1>3. Len(page) - (Len(page) - Len(p)) = Len(p)
  OBVIOUS
<1> QED
  BY <1>1, <1>2, <1>3 DEF Above

\* The directories whose cookies a page may read a name from, and the nearest.
Found(page, name) == {p \in Pages : IsPrefix(p, page) /\ meant[p][name] # NoValue}
Nearest(page, name) ==
  CHOOSE p \in Found(page, name) : \A q \in Found(page, name) : Len(q) <= Len(p)

LEMMA NearestIs ==
  ASSUME NEW page \in Pages, NEW name, Found(page, name) # {}
  PROVE  /\ Nearest(page, name) \in Found(page, name)
         /\ \A q \in Found(page, name) : Len(q) <= Len(Nearest(page, name))
<1> DEFINE F == Found(page, name)
           S == {Len(p) : p \in F}
<1>1. Pages \subseteq Seq(Folders)
  BY CookiesAssumption
<1>2. F \subseteq Pages /\ Len(page) \in Nat
  BY <1>1 DEF Found
<1>3. \A p \in F : Len(p) \in 0..Len(page)
  BY <1>1, PrefixIs DEF Found
<1> HIDE DEF F
<1>4. S \subseteq 0..Len(page) /\ S # {}
  <2>1. F # {}
    BY DEF F
  <2> QED
    BY <1>3, <2>1
<1>5. Max(S) \in S /\ \A x \in S : x <= Max(S)
  <2> HIDE DEF S
  <2> QED
    BY <1>2, <1>4, Greatest
<1>6. PICK p \in F : Len(p) = Max(S)
  BY <1>5
<1>7. \A q \in F : Len(q) <= Len(p)
  BY <1>5, <1>6
<1>8. \E x \in F : \A q \in F : Len(q) <= Len(x)
  BY <1>7
<1> QED
  BY <1>8, Zenon DEF Nearest, F

LEMMA ReadIs == CookieInv => ReadsWhatWasMeant
<1> SUFFICES ASSUME CookieInv, ~spoiled, NEW page \in Pages, NEW name \in Names
             PROVE  read(page, name) = IF Found(page, name) = {} THEN NoValue
                                       ELSE meant[Nearest(page, name)][name]
  BY Zenon DEF ReadsWhatWasMeant, Found, Nearest
<1> DEFINE n == Len(page) + 1
           jars == [k \in 1..n |-> IF Above(page, k - 1) \in Pages
                                   THEN cookies[Above(page, k - 1)] ELSE <<>>]
           shown == FlattenSeq(jars)
<1>1. Pages \subseteq Seq(Folders) /\ page \in Seq(Folders) /\ Len(page) \in Nat
  BY CookiesAssumption
<1>2. n \in Nat /\ n # 0 /\ \A k \in 1..n : k - 1 \in 0..Len(page)
  BY <1>1
<1>3. DocumentCookie(page) = shown
  BY DEF DocumentCookie, Above
<1>4. /\ cookies \in [Pages -> Seq(Cookie)]
      /\ \A p \in Pages : IsJar(cookies[p]) /\ Holds(cookies[p], name, meant[p][name])
  BY DEF CookieInv
<1>5. jars \in [1..n -> Seq(Cookie)]
  BY <1>4
<1>6. \A k \in 1..n : Above(page, k - 1) \in Pages => jars[k] = cookies[Above(page, k - 1)]
  OBVIOUS
<1>7. ASSUME NEW k \in 1..n, Above(page, k - 1) \notin Found(page, name)
      PROVE  Lacks(jars[k], name)
  <2>1. CASE Above(page, k - 1) \in Pages
    <3>1. IsPrefix(Above(page, k - 1), page)
      BY <1>1, <1>2, AboveIs
    <3>2. meant[Above(page, k - 1)][name] = NoValue
      BY <1>7, <2>1, <3>1 DEF Found
    <3> QED
      BY <1>4, <1>6, <2>1, <3>2 DEF Holds
  <2>2. CASE Above(page, k - 1) \notin Pages
    <3>1. jars[k] = <<>>
      BY <2>2
    <3> QED
      BY <3>1 DEF Lacks
  <2> QED
    BY <2>1, <2>2
<1>8. /\ shown \in Seq(Cookie)
      /\ (\A k \in 1..n : Lacks(jars[k], name)) => Lacks(shown, name)
      /\ \A k \in 1..n :
           (\A j \in 1..(k - 1) : Lacks(jars[j], name)) /\ ~Lacks(jars[k], name)
             => ~Lacks(shown, name) /\ FirstOf(shown, name) = FirstOf(jars[k], name)
  <2> HIDE DEF n, jars
  <2> QED
    BY <1>2, <1>5, FlattenedMatch
<1> HIDE DEF n, jars, shown
<1>9. read(page, name) = IF Lacks(shown, name) THEN NoValue
                         ELSE decodeURIComponent(FirstOf(shown, name).value)
  <2>1. Match(shown, name) = 0 <=> Lacks(shown, name)
    BY <1>8, MatchIs
  <2>2. read(page, name) = IF Match(shown, name) = 0 THEN NoValue
                           ELSE decodeURIComponent(shown[Match(shown, name)].value)
    BY <1>3, Zenon DEF read
  <2> QED
    BY <2>1, <2>2 DEF FirstOf
<1>10. CASE Found(page, name) = {}
  <2>1. \A k \in 1..n : Lacks(jars[k], name)
    BY <1>7, <1>10
  <2> QED
    BY <1>8, <1>9, <1>10, <2>1
<1>11. CASE Found(page, name) # {}
  <2> DEFINE p == Nearest(page, name)
             k == Len(page) - Len(p) + 1
  <2>1. p \in Found(page, name) /\ \A q \in Found(page, name) : Len(q) <= Len(p)
    BY <1>11, NearestIs
  <2> HIDE DEF p
  <2>2. p \in Pages /\ IsPrefix(p, page) /\ meant[p][name] # NoValue /\ p \in Seq(Folders)
    BY <1>1, <2>1 DEF Found
  <2>3. Len(page) - Len(p) \in 0..Len(page) /\ p = Above(page, Len(page) - Len(p)) /\ Len(p) \in Nat
    BY <1>1, <2>2, PrefixIs
  <2>4. k \in 1..n /\ k - 1 = Len(page) - Len(p)
    BY <1>1, <2>3 DEF n
  <2> HIDE DEF k
  <2>5. jars[k] = cookies[p]
    BY <1>6, <2>2, <2>3, <2>4
  <2>6. meant[p][name] \in Values
    BY <2>2 DEF CookieInv
  <2>7. Has(jars[k], name, encodeURIComponent(meant[p][name]))
    BY <1>4, <2>2, <2>5 DEF Holds
  <2>8. ~Lacks(jars[k], name) /\ FirstOf(jars[k], name).value = encodeURIComponent(meant[p][name])
    BY <1>4, <2>2, <2>5, <2>7, FirstOfJar
  <2>9. ASSUME NEW j \in 1..(k - 1) PROVE Lacks(jars[j], name)
    <3>1. j \in 1..n /\ j - 1 \in 0..Len(page) /\ j - 1 < Len(page) - Len(p)
      BY <1>1, <2>3, <2>4 DEF n
    <3>2. Len(Above(page, j - 1)) = Len(page) - (j - 1)
      BY <1>1, <3>1, AboveIs
    <3>3. ~(Len(Above(page, j - 1)) <= Len(p))
      BY <1>1, <2>3, <3>1, <3>2
    <3>4. Above(page, j - 1) \notin Found(page, name)
      BY <2>1, <3>3
    <3> QED
      BY <1>7, <3>1, <3>4
  <2>10. ~Lacks(shown, name) /\ FirstOf(shown, name) = FirstOf(jars[k], name)
    BY <1>8, <2>4, <2>8, <2>9
  <2>11. read(page, name) = decodeURIComponent(encodeURIComponent(meant[p][name]))
    BY <1>9, <2>8, <2>10
  <2>12. read(page, name) = meant[p][name]
    BY <2>6, <2>11, EncodedIs
  <2> QED
    BY <1>11, <2>12 DEF p
<1> QED
  BY <1>10, <1>11

\* base.js:84: for any directories, names, values and option objects, a page
\* reads what was last written for its directory, or else for the nearest above.
THEOREM ReadsAlwaysWhatWasMeant == cookieSpec => []ReadsWhatWasMeant
BY CookieInit, CookieNext, ReadIs, PTL DEF cookieSpec

-----------------------------------------------------------------------------
(* TreeNodeHelper: lists. *)

treeSpec == treeInit /\ [][treeNext]_treeVars

\* Before in a list, as the sort has it.
Precedes(s, i, j) == s[i] < s[j] \/ (s[i] = s[j] /\ i <= j)

\* The rank of what is at i: what is at j before it has a lower one.
LEMMA Ranks ==
  ASSUME NEW s \in Seq(Int)
  PROVE  /\ \A i \in DOMAIN s : Rank(s, i) \in DOMAIN s
         /\ \A i, j \in DOMAIN s : Precedes(s, i, j) /\ i # j => Rank(s, i) < Rank(s, j)
<1> DEFINE D == 1..Len(s)
           UpToAt(i) == {j \in D : s[j] < s[i] \/ (s[j] = s[i] /\ j <= i)}
<1>1. DOMAIN s = D /\ Len(s) \in Nat /\ \A i \in D : s[i] \in Int
  OBVIOUS
<1>2. IsFiniteSet(D) /\ Cardinality(D) = Len(s)
  <2> DEFINE N == Len(s)
  <2>1. 1 \in Int /\ N \in Int /\ N >= 0
    OBVIOUS
  <2> HIDE DEF N
  <2>2. IsFiniteSet(1..N) /\ Cardinality(1..N) = IF 1 > N THEN 0 ELSE N - 1 + 1
    BY <2>1, FS_Interval
  <2>3. Cardinality(1..N) = N
    BY <2>1, <2>2
  <2> QED
    BY <2>2, <2>3 DEF N
<1>3. \A i \in D : Rank(s, i) = Cardinality(UpToAt(i))
  BY <1>1 DEF Rank
<1>4. ASSUME NEW i \in D PROVE IsFiniteSet(UpToAt(i)) /\ Cardinality(UpToAt(i)) \in D
  <2>1. IsFiniteSet(UpToAt(i)) /\ Cardinality(UpToAt(i)) <= Len(s)
    BY <1>2, FS_Subset
  <2>2. i \in UpToAt(i)
    BY <1>1
  <2>3. UpToAt(i) # {}
    BY <2>2
  <2> HIDE DEF UpTo
  <2>4. Cardinality(UpToAt(i)) \in Nat /\ Cardinality(UpToAt(i)) # 0
    BY <2>1, <2>3, FS_CardinalityType, FS_EmptySet
  <2> QED
    BY <1>1, <2>1, <2>4
<1>5. ASSUME NEW i \in D, NEW j \in D, Precedes(s, i, j), i # j
      PROVE  Cardinality(UpToAt(i)) < Cardinality(UpToAt(j))
  <2>1. s[i] \in Int /\ s[j] \in Int /\ i \in Int /\ j \in Int
    BY <1>1
  <2>2. ASSUME NEW k \in UpToAt(i) PROVE k \in UpToAt(j)
    <3>1. k \in D /\ s[k] \in Int
      BY <1>1
    <3> QED
      BY <1>5, <2>1, <3>1 DEF Precedes
  <2>3. j \in UpToAt(j) /\ j \notin UpToAt(i)
    BY <1>5, <2>1 DEF Precedes
  <2>4. UpToAt(i) \subseteq UpToAt(j) /\ UpToAt(i) # UpToAt(j)
    BY <2>2, <2>3
  <2>5. IsFiniteSet(UpToAt(j)) /\ Cardinality(UpToAt(j)) \in D /\ Cardinality(UpToAt(i)) \in D
    BY <1>4
  <2> HIDE DEF UpTo
  <2>6. Cardinality(UpToAt(i)) <= Cardinality(UpToAt(j)) /\ Cardinality(UpToAt(i)) # Cardinality(UpToAt(j))
    BY <2>4, <2>5, FS_Subset
  <2> QED
    BY <2>5, <2>6
<1> HIDE DEF D, UpTo
<1> QED
  BY <1>1, <1>3, <1>4, <1>5

\* Each rank is that of one place.
LEMMA RanksReach ==
  ASSUME NEW s \in Seq(Int)
  PROVE  /\ \A i, j \in DOMAIN s : i # j => Rank(s, i) # Rank(s, j)
         /\ \A k \in DOMAIN s : \E i \in DOMAIN s : Rank(s, i) = k
<1> DEFINE D == DOMAIN s
           rank == [i \in D |-> Rank(s, i)]
<1>1. D = 1..Len(s) /\ Len(s) \in Nat /\ \A i \in D : s[i] \in Int
  OBVIOUS
<1>2. IsFiniteSet(D)
  BY <1>1, FS_Interval
<1>3. \A i, j \in D : i # j => Rank(s, i) # Rank(s, j)
  <2> TAKE i, j \in D
  <2> HAVE i # j
  <2>1. Rank(s, i) \in Int /\ Rank(s, j) \in Int
    BY <1>1, Ranks
  <2>2. Precedes(s, i, j) \/ Precedes(s, j, i)
    BY <1>1 DEF Precedes
  <2> QED
    BY <2>1, <2>2, Ranks
<1>4. rank \in Injection(D, D)
  <2>1. rank \in [D -> D]
    BY Ranks
  <2> QED
    BY <1>3, <2>1 DEF Injection, IsInjective
<1>5. rank \in Surjection(D, D)
  BY <1>2, <1>4, FS_Injection
<1>6. \A k \in D : \E i \in D : rank[i] = k
  BY <1>5, Zenon DEF Surjection
<1> QED
  BY <1>3, <1>6

\* The sort gives a list of the same ...
LEMMA SortedType == ASSUME NEW s \in Seq(Nodes) PROVE Sorted(s) \in Seq(Nodes)
<1> DEFINE D == DOMAIN s
           At(k) == CHOOSE i \in D : Rank(s, i) = k
<1>1. D = 1..Len(s) /\ Len(s) \in Nat /\ \A i \in D : s[i] \in Nodes
  OBVIOUS
<1>2. s \in Seq(Int)
  <2>1. \A i \in D : s[i] \in Int
    BY <1>1, RowsAssumption
  <2> QED
    BY <1>1, <2>1
<1>3. \A k \in D : At(k) \in D
  BY <1>2, RanksReach
<1>4. Sorted(s) = [k \in D |-> s[At(k)]]
  BY DEF Sorted
<1> HIDE DEF At
<1> QED
  BY <1>1, <1>3, <1>4

\* ... and what is in it once in ascending order.
LEMMA SortedIs ==
  ASSUME NEW s \in Seq(Int), IsInjective(s)
  PROVE  /\ Sorted(s) \in Seq(Int) /\ Len(Sorted(s)) = Len(s) /\ ToSet(Sorted(s)) = ToSet(s)
         /\ \A k, l \in DOMAIN s : k < l => Sorted(s)[k] < Sorted(s)[l]
<1> DEFINE D == DOMAIN s
           At(k) == CHOOSE i \in D : Rank(s, i) = k
<1>1. D = 1..Len(s) /\ Len(s) \in Nat /\ \A i \in D : s[i] \in Int
  OBVIOUS
<1>2. \A k \in D : At(k) \in D /\ Rank(s, At(k)) = k
  BY RanksReach
<1>3. Sorted(s) = [k \in D |-> s[At(k)]]
  BY DEF Sorted
<1> HIDE DEF At
<1>4. Sorted(s) \in Seq(Int) /\ DOMAIN Sorted(s) = D /\ Len(Sorted(s)) = Len(s)
  BY <1>1, <1>2, <1>3
<1>5. \A i \in D : At(Rank(s, i)) = i
  <2> TAKE i \in D
  <2>1. Rank(s, i) \in D
    BY Ranks
  <2> QED
    BY <1>2, <2>1, RanksReach
<1>6. ToSet(Sorted(s)) = ToSet(s)
  <2>1. \A x \in ToSet(Sorted(s)) : x \in ToSet(s)
    BY <1>2, <1>3 DEF ToSet
  <2>2. ASSUME NEW i \in D PROVE s[i] \in ToSet(Sorted(s))
    <3>1. Rank(s, i) \in D /\ Sorted(s)[Rank(s, i)] = s[i]
      BY <1>3, <1>5, Ranks
    <3> QED
      BY <1>4, <3>1 DEF ToSet
  <2> QED
    BY <2>1, <2>2 DEF ToSet
<1>7. ASSUME NEW k \in D, NEW l \in D, k < l PROVE s[At(k)] < s[At(l)]
  <2>1. At(k) \in D /\ At(l) \in D /\ Rank(s, At(k)) = k /\ Rank(s, At(l)) = l
    BY <1>2
  <2>2. At(k) # At(l) /\ ~(Rank(s, At(l)) < Rank(s, At(k)))
    BY <1>1, <1>7, <2>1
  <2>3. ~Precedes(s, At(l), At(k))
    BY <2>1, <2>2, Ranks
  <2>4. s[At(k)] # s[At(l)]
    BY <2>1, <2>2 DEF IsInjective
  <2> QED
    BY <1>1, <2>1, <2>3, <2>4 DEF Precedes
<1> QED
  BY <1>3, <1>4, <1>6, <1>7

\* A list of what is there once is as long as there is.
LEMMA LenOfInjective ==
  ASSUME NEW S, NEW s \in Seq(S), IsInjective(s)
  PROVE  Len(s) = Cardinality(ToSet(s))
<1> DEFINE N == Len(s)
<1>1. N \in Nat /\ DOMAIN s = 1..N /\ s = [i \in 1..N |-> s[i]]
  OBVIOUS
<1>2. s \in [1..N -> ToSet(s)] /\ \A x \in ToSet(s) : \E i \in 1..N : s[i] = x
  BY <1>1 DEF ToSet
<1>3. s \in Bijection(1..N, ToSet(s))
  <2>1. s \in Injection(1..N, ToSet(s))
    BY <1>2, Zenon DEF Injection
  <2>2. s \in Surjection(1..N, ToSet(s))
    BY <1>2, Zenon DEF Surjection
  <2> QED
    BY <2>1, <2>2 DEF Bijection
<1> HIDE DEF N
<1>4. IsFiniteSet(1..N) /\ Cardinality(1..N) = N
  <2>1. 1 \in Int /\ N \in Int
    BY <1>1
  <2>2. IsFiniteSet(1..N) /\ Cardinality(1..N) = IF 1 > N THEN 0 ELSE N - 1 + 1
    BY <2>1, FS_Interval
  <2> QED
    BY <1>1, <2>2
<1>5. Cardinality(ToSet(s)) = N
  BY <1>3, <1>4, FS_Bijection DEF ExistsBijection
<1> QED
  BY <1>5 DEF N

AddedOf(added, root, n) ==
  added = [i \in 0..n |->
             IF i = 0 THEN <<>>
             ELSE IF parentNodeId[rows[i]] = root THEN Append(added[i - 1], rows[i]) ELSE added[i - 1]]

LEMMA AddedExists ==
  ASSUME NEW root, NEW n \in Nat
  PROVE  \E added : AddedOf(added, root, n)
<1> DEFINE S == {m \in Nat : \E added : AddedOf(added, root, m)}
           Next1(list, i) == IF parentNodeId[rows[i]] = root THEN Append(list, rows[i]) ELSE list
<1>1. 0 \in S
  <2>1. AddedOf([i \in 0..0 |-> <<>>], root, 0)
    BY DEF AddedOf
  <2> QED
    BY <2>1
<1>2. ASSUME NEW m \in Nat, m \in S PROVE m + 1 \in S
  <2>1. PICK added : AddedOf(added, root, m)
    BY <1>2
  <2> DEFINE more == [i \in 0..(m + 1) |-> IF i <= m THEN added[i] ELSE Next1(added[m], i)]
  <2>2. \A i \in 0..m : added[i] = IF i = 0 THEN <<>> ELSE Next1(added[i - 1], i)
    BY <2>1 DEF AddedOf
  <2> HIDE DEF Next1
  <2>3. ASSUME NEW i \in 0..(m + 1)
        PROVE  more[i] = IF i = 0 THEN <<>> ELSE Next1(more[i - 1], i)
    BY <2>2
  <2>4. more = [i \in 0..(m + 1) |-> more[i]]
    OBVIOUS
  <2> HIDE DEF more
  <2>5. AddedOf(more, root, m + 1)
    BY <2>3, <2>4 DEF AddedOf, Next1
  <2> QED
    BY <2>5
<1> HIDE DEF S
<1>3. Nat \subseteq S
  BY <1>1, <1>2, Induction
<1> QED
  BY <1>3 DEF S

\* What a call adds: the rows with the root for their parent, in the order of
\* the rows.
LEMMA AddedIs ==
  ASSUME rows \in Seq(Nodes), IsInjective(rows), NEW root
  PROVE  /\ Added(root) \in Seq(Nodes) /\ ToSet(Added(root)) = Children(root)
         /\ \A i, j \in DOMAIN Added(root) : i < j => Before(FALSE, Added(root)[i], Added(root)[j])
<1> DEFINE N == Len(rows)
<1>1. N \in Nat /\ DOMAIN rows = 1..N /\ \A i \in 1..N : rows[i] \in Nodes
  OBVIOUS
<1>2. PICK added : AddedOf(added, root, N) /\ Added(root) = added[N]
  <2> DEFINE g == CHOOSE h : AddedOf(h, root, N)
  <2>1. AddedOf(g, root, N)
    BY AddedExists, <1>1, Zenon
  <2>2. Added(root) = g[N]
    BY Zenon DEF Added, AddedOf
  <2> QED
    BY <2>1, <2>2, Zenon
<1> DEFINE Right(list, i) ==
             /\ list \in Seq(Nodes)
             /\ \A a \in 1..Len(list) : \E k \in 1..i : rows[k] = list[a]
             /\ \A k \in 1..i : parentNodeId[rows[k]] = root <=> \E a \in 1..Len(list) : list[a] = rows[k]
             /\ \A a, b \in 1..Len(list) : a < b =>
                  \E k, l \in 1..i : k < l /\ rows[k] = list[a] /\ rows[l] = list[b]
           S == {i \in Nat : i <= N => Right(added[i], i)}
<1>3. /\ added[0] = <<>>
      /\ \A i \in Nat : i + 1 <= N =>
           added[i + 1] = IF parentNodeId[rows[i + 1]] = root THEN Append(added[i], rows[i + 1]) ELSE added[i]
  <2>1. \A i \in 0..N :
          added[i] = IF i = 0 THEN <<>>
                     ELSE IF parentNodeId[rows[i]] = root THEN Append(added[i - 1], rows[i]) ELSE added[i - 1]
    BY <1>2, Zenon DEF AddedOf
  <2>2. \A i \in Nat : i + 1 <= N => i + 1 \in 0..N /\ i + 1 # 0 /\ (i + 1) - 1 = i
    BY <1>1
  <2>3. 0 \in 0..N
    BY <1>1
  <2> HIDE DEF N
  <2> QED
    BY <2>1, <2>2, <2>3
<1> HIDE DEF N
<1>4. 0 \in S
  <2>1. <<>> \in Seq(Nodes) /\ Len(<<>>) = 0
    OBVIOUS
  <2>2. Right(<<>>, 0)
    BY <2>1
  <2> HIDE DEF Right
  <2> QED
    BY <1>3, <2>2
<1>5. ASSUME NEW i \in Nat, i \in S PROVE i + 1 \in S
  <2> SUFFICES ASSUME i + 1 <= N PROVE Right(added[i + 1], i + 1)
    OBVIOUS
  <2> DEFINE x == rows[i + 1]
             list == added[i]
  <2>1. Right(list, i) /\ i + 1 \in 1..N /\ x \in Nodes
    <3>1. i <= N /\ i + 1 \in 1..N
      BY <1>1
    <3> QED
      BY <1>1, <1>5, <3>1
  <2>2. added[i + 1] = IF parentNodeId[x] = root THEN Append(list, x) ELSE list
    BY <1>3
  <2>3. \A k \in 1..i : rows[k] # x
    <3>1. \A k \in 1..i : k \in DOMAIN rows /\ i + 1 \in DOMAIN rows /\ k # i + 1
      BY <1>1, <2>1
    <3> QED
      BY <3>1 DEF IsInjective
  <2>4. \A k \in 1..(i + 1) : k \in 1..i \/ k = i + 1
    OBVIOUS
  <2>5. \A k \in 1..i : k \in 1..(i + 1) /\ k < i + 1
    OBVIOUS
  <2> HIDE DEF list, x
  <2>6. CASE parentNodeId[x] # root
    <3>1. added[i + 1] = list
      BY <2>2, <2>6
    <3>2. \A a \in 1..Len(list) : list[a] # x
      BY <2>1, <2>3
    <3>3. list \in Seq(Nodes) /\ \A a \in 1..Len(list) : \E k \in 1..(i + 1) : rows[k] = list[a]
      BY <2>1, <2>5
    <3>4. ASSUME NEW k \in 1..(i + 1)
          PROVE  parentNodeId[rows[k]] = root <=> \E a \in 1..Len(list) : list[a] = rows[k]
      <4>1. CASE k \in 1..i
        BY <2>1, <4>1
      <4>2. CASE k = i + 1
        BY <2>6, <3>2, <4>2 DEF x
      <4> QED
        BY <2>4, <4>1, <4>2
    <3>5. ASSUME NEW a \in 1..Len(list), NEW b \in 1..Len(list), a < b
          PROVE  \E k, l \in 1..(i + 1) : k < l /\ rows[k] = list[a] /\ rows[l] = list[b]
      <4>1. PICK k \in 1..i, l \in 1..i : k < l /\ rows[k] = list[a] /\ rows[l] = list[b]
        BY <2>1, <3>5
      <4> QED
        BY <2>5, <4>1
    <3>6. Right(list, i + 1)
      BY <3>3, <3>4, <3>5
    <3> HIDE DEF Right
    <3> QED
      BY <3>1, <3>6
  <2>7. CASE parentNodeId[x] = root
    <3> DEFINE new == Append(list, x)
    <3>1. /\ list \in Seq(Nodes) /\ Len(list) \in Nat /\ new \in Seq(Nodes) /\ Len(new) = Len(list) + 1
          /\ new[Len(list) + 1] = x /\ \A a \in 1..Len(list) : new[a] = list[a]
      BY <2>1
    <3>2. \A a \in 1..Len(new) : a \in 1..Len(list) \/ a = Len(list) + 1
      BY <3>1
    <3>3. \A a \in 1..Len(list) : a \in 1..Len(new) /\ a < Len(list) + 1
      BY <3>1
    <3>4. Len(list) + 1 \in 1..Len(new) /\ i + 1 \in 1..(i + 1)
      BY <3>1
    <3>5. added[i + 1] = new
      BY <2>2, <2>7
    <3> HIDE DEF new
    <3>6. \A a \in 1..Len(new) : \E k \in 1..(i + 1) : rows[k] = new[a]
      <4> TAKE a \in 1..Len(new)
      <4>1. CASE a \in 1..Len(list)
        <5>1. PICK k \in 1..i : rows[k] = list[a]
          BY <2>1, <4>1
        <5> QED
          BY <2>5, <3>1, <4>1, <5>1
      <4>2. CASE a = Len(list) + 1
        BY <3>1, <3>4, <4>2 DEF x
      <4> QED
        BY <3>2, <4>1, <4>2
    <3>7. \A k \in 1..(i + 1) : parentNodeId[rows[k]] = root <=> \E a \in 1..Len(new) : new[a] = rows[k]
      <4> TAKE k \in 1..(i + 1)
      <4>1. CASE k = i + 1
        BY <2>7, <3>1, <3>4, <4>1 DEF x
      <4>2. CASE k \in 1..i
        <5>1. rows[k] # x
          BY <2>3, <4>2
        <5>2. (\E a \in 1..Len(new) : new[a] = rows[k]) <=> \E a \in 1..Len(list) : list[a] = rows[k]
          BY <3>1, <3>2, <3>3, <5>1
        <5> QED
          BY <2>1, <4>2, <5>2
      <4> QED
        BY <2>4, <4>1, <4>2
    <3>8. ASSUME NEW a \in 1..Len(new), NEW b \in 1..Len(new), a < b
          PROVE  \E k, l \in 1..(i + 1) : k < l /\ rows[k] = new[a] /\ rows[l] = new[b]
      <4>1. a \in 1..Len(list) /\ new[a] = list[a]
        BY <3>1, <3>8
      <4>2. CASE b \in 1..Len(list)
        <5>1. PICK k \in 1..i, l \in 1..i : k < l /\ rows[k] = list[a] /\ rows[l] = list[b]
          BY <2>1, <3>8, <4>1, <4>2
        <5> QED
          BY <2>5, <3>1, <4>1, <4>2, <5>1
      <4>3. CASE b = Len(list) + 1
        <5>1. PICK k \in 1..i : rows[k] = list[a]
          BY <2>1, <4>1
        <5> QED
          BY <2>5, <3>1, <3>4, <4>1, <4>3, <5>1 DEF x
      <4> QED
        BY <3>2, <4>2, <4>3
    <3>9. Right(new, i + 1)
      BY <3>1, <3>6, <3>7, <3>8
    <3> HIDE DEF Right
    <3> QED
      BY <3>5, <3>9
  <2> HIDE DEF Right
  <2> QED
    BY <2>6, <2>7
<1> HIDE DEF S
<1>6. Nat \subseteq S
  BY <1>4, <1>5, Induction
<1>7. Right(added[N], N)
  <2> HIDE DEF Right
  <2> QED
    BY <1>1, <1>6 DEF S
<1> DEFINE list == added[N]
<1>8. list \in Seq(Nodes) /\ DOMAIN list = 1..Len(list)
  BY <1>7
<1> HIDE DEF list
<1>9. Right(list, N)
  BY <1>7 DEF list
<1>10. ToSet(list) = Children(root)
  <2>1. ASSUME NEW a \in 1..Len(list) PROVE list[a] \in Children(root)
    <3>1. PICK k \in 1..N : rows[k] = list[a]
      BY <1>9
    <3>2. parentNodeId[rows[k]] = root /\ rows[k] \in ToSet(rows)
      BY <1>1, <1>9, <3>1 DEF ToSet
    <3> QED
      BY <3>1, <3>2 DEF Children
  <2>2. ASSUME NEW y \in Children(root) PROVE \E a \in 1..Len(list) : list[a] = y
    <3>1. PICK k \in 1..N : rows[k] = y
      BY <1>1 DEF Children, ToSet
    <3>2. parentNodeId[rows[k]] = root
      BY <3>1 DEF Children
    <3> QED
      BY <1>9, <3>1, <3>2
  <2> HIDE DEF Right
  <2> QED
    BY <1>8, <2>1, <2>2 DEF ToSet
<1>11. ASSUME NEW a \in 1..Len(list), NEW b \in 1..Len(list), a < b
      PROVE  Before(FALSE, list[a], list[b])
  <2>1. PICK k \in 1..N, l \in 1..N : k < l /\ rows[k] = list[a] /\ rows[l] = list[b]
    BY <1>9, <1>11
  <2> HIDE DEF Right
  <2> QED
    BY <1>1, <2>1 DEF Before
<1> HIDE DEF Right
<1> QED
  BY <1>2, <1>8, <1>10, <1>11 DEF list

-----------------------------------------------------------------------------
(* TreeNodeHelper: what is below a node. *)

LEMMA BelowClosed ==
  \A r : /\ Below(r) \subseteq ToSet(rows) /\ Children(r) \subseteq Below(r)
         /\ \A n \in Below(r) : Children(n) \subseteq Below(r)
<1> TAKE r
<1> DEFINE closed == {s \in SUBSET ToSet(rows) :
                        Children(r) \subseteq s /\ \A n \in s : Children(n) \subseteq s}
<1>1. Below(r) = {n \in ToSet(rows) : \A s \in closed : n \in s}
  BY DEF Below
<1>2. \A n : Children(n) \subseteq ToSet(rows)
  BY DEF Children
<1>3. \A s \in closed : Children(r) \subseteq s /\ \A n \in s : Children(n) \subseteq s
  OBVIOUS
<1> HIDE DEF closed
<1> QED
  BY <1>1, <1>2, <1>3

LEMMA BelowLeast ==
  ASSUME NEW r, NEW S, S \subseteq ToSet(rows), Children(r) \subseteq S,
         \A n \in S : Children(n) \subseteq S
  PROVE  Below(r) \subseteq S
BY DEF Below

\* What is below a node has its parent there, or is its child.
LEMMA ParentBelow ==
  \A r : \A n \in Below(r) : parentNodeId[n] = r \/ parentNodeId[n] \in Below(r)
<1> TAKE r
<1> DEFINE S == {n \in Below(r) : parentNodeId[n] = r \/ parentNodeId[n] \in Below(r)}
<1>1. \A n : \A m \in Children(n) : parentNodeId[m] = n
  BY DEF Children
<1>2. S \subseteq ToSet(rows) /\ Children(r) \subseteq S /\ \A n \in S : Children(n) \subseteq S
  BY <1>1, BelowClosed
<1> HIDE DEF S
<1>3. Below(r) \subseteq S
  BY <1>2, BelowLeast
<1> QED
  BY <1>3 DEF S

LEMMA BelowBelow == \A r : \A n \in Below(r) : Below(n) \subseteq Below(r)
<1> TAKE r
<1> TAKE n \in Below(r)
<1> QED
  BY BelowClosed, BelowLeast

\* What is below a node is in the trees of its children.
LEMMA BelowIs == \A r : Below(r) = UNION {Tree(m) : m \in Children(r)}
<1> TAKE r
<1> DEFINE S == UNION {Tree(m) : m \in Children(r)}
<1>1. S \subseteq Below(r)
  BY BelowClosed, BelowBelow DEF Tree
<1>2. Children(r) \subseteq S
  BY DEF Tree
<1>3. ASSUME NEW n \in S PROVE Children(n) \subseteq S
  <2>1. PICK m \in Children(r) : n \in Tree(m)
    OBVIOUS
  <2>2. Children(n) \subseteq Tree(m)
    BY <2>1, BelowClosed DEF Tree
  <2> QED
    BY <2>2
<1>4. S \subseteq ToSet(rows)
  BY <1>1, BelowClosed
<1> HIDE DEF S
<1>5. Below(r) \subseteq S
  BY <1>2, <1>3, <1>4, BelowLeast
<1> QED
  BY <1>1, <1>5 DEF S

\* Two trees meet only when one has the root of the other.
LEMMA TreesApart ==
  ASSUME NEW r, NEW q, r \notin Tree(q), q \notin Tree(r)
  PROVE  Tree(r) \cap Tree(q) = {}
<1> DEFINE S == {n \in Below(r) : n \notin Tree(q)}
<1>1. ASSUME NEW n \in Tree(r), n \notin Tree(q), NEW m \in Children(n)
      PROVE  m \in S
  <2>1. m \in Below(r) /\ parentNodeId[m] = n
    BY BelowClosed DEF Tree, Children
  <2>2. m # q
    BY <2>1 DEF Tree
  <2>3. m \notin Below(q)
    BY <1>1, <2>1, ParentBelow DEF Tree
  <2> QED
    BY <2>1, <2>2, <2>3 DEF Tree
<1>2. S \subseteq ToSet(rows) /\ Children(r) \subseteq S /\ \A n \in S : Children(n) \subseteq S
  <2>1. S \subseteq ToSet(rows)
    BY BelowClosed
  <2>2. r \in Tree(r) /\ \A n \in S : n \in Tree(r) /\ n \notin Tree(q)
    BY DEF Tree
  <2> HIDE DEF S
  <2> QED
    BY <1>1, <2>1, <2>2
<1> HIDE DEF S
<1>3. Below(r) \subseteq S
  BY <1>2, BelowLeast
<1> QED
  BY <1>3 DEF S, Tree

\* Below a node that is not below itself there are such nodes only ...
LEMMA NoCycle ==
  ASSUME NEW r, r \notin Below(r)
  PROVE  \A n \in Tree(r) : n \notin Below(n)
<1> DEFINE S == {n \in Below(r) : n \notin Below(n)}
<1>1. ASSUME NEW n \in Tree(r), n \notin Below(n), NEW m \in Children(n)
      PROVE  m \in S
  <2>1. m \in Below(r) /\ parentNodeId[m] = n /\ m \in Below(n)
    BY BelowClosed DEF Tree, Children
  <2>2. SUFFICES ASSUME m \in Below(m) PROVE FALSE
    BY <2>1
  <2>3. n = m \/ n \in Below(m)
    BY <2>1, <2>2, ParentBelow
  <2>4. n \in Below(n)
    BY <2>1, <2>2, <2>3, BelowBelow
  <2> QED
    BY <1>1, <2>4
<1>2. S \subseteq ToSet(rows) /\ Children(r) \subseteq S /\ \A n \in S : Children(n) \subseteq S
  <2>1. S \subseteq ToSet(rows)
    BY BelowClosed
  <2>2. r \in Tree(r) /\ \A n \in S : n \in Tree(r) /\ n \notin Below(n)
    BY DEF Tree
  <2> HIDE DEF S
  <2> QED
    BY <1>1, <2>1, <2>2
<1> HIDE DEF S
<1>3. Below(r) \subseteq S
  BY <1>2, BelowLeast
<1> QED
  BY <1>3 DEF S, Tree

\* ... and the trees of the children of such a node do not meet.
LEMMA ChildrenApart ==
  ASSUME NEW r, r \notin Below(r), NEW m \in Children(r), NEW n \in Children(r), m # n
  PROVE  Tree(m) \cap Tree(n) = {}
<1>1. ASSUME NEW a \in Children(r), NEW b \in Children(r), a # b PROVE a \notin Tree(b)
  <2>1. parentNodeId[a] = r /\ b \in Below(r)
    BY BelowClosed DEF Children
  <2>2. SUFFICES ASSUME a \in Below(b) PROVE FALSE
    BY <1>1 DEF Tree
  <2>3. r = b \/ r \in Below(b)
    BY <2>1, <2>2, ParentBelow
  <2> QED
    BY <2>1, <2>3, BelowBelow
<1> QED
  BY <1>1, TreesApart

\* A tree is its root and the trees of the children, which are smaller.
LEMMA TreeIs ==
  ASSUME NEW r, r \notin Below(r)
  PROVE  /\ Tree(r) = {r} \cup UNION {Tree(m) : m \in Children(r)}
         /\ \A m \in Children(r) : r \notin Tree(m) /\ Tree(m) \subseteq Tree(r)
<1>1. Below(r) = UNION {Tree(m) : m \in Children(r)}
  BY BelowIs
<1>2. ASSUME NEW m \in Children(r) PROVE Tree(m) \subseteq Below(r)
  BY <1>1
<1> QED
  BY <1>1, <1>2 DEF Tree

-----------------------------------------------------------------------------
(* TreeNodeHelper: leaves. *)

Leaves(r) == {n \in Tree(r) : Children(n) = {}}

\* The list of a node is its children, each once.
Listed(n) ==
  /\ tree.subs[n] \in Seq(Nodes) /\ IsInjective(tree.subs[n])
  /\ ToSet(tree.subs[n]) = Children(n)

CountedOf(counted, prev, subs, c, n) ==
  counted = [i \in 0..n |-> IF i = 0 THEN c ELSE prev[subs[i]][counted[i - 1]]]

CountLevel(k, prev) ==
  [n \in Nodes |-> [c \in Nat |->
     LET subs == tree.subs[n]
         counted[i \in 0..Len(subs)] == IF i = 0 THEN c ELSE prev[subs[i]][counted[i - 1]]
     IN  IF k = 0 \/ subs = <<>> THEN c + 1 ELSE counted[Len(subs)]]]

CountsOf(call, n) == call = [k \in 0..n |-> CountLevel(k, call[k - 1])]

LEMMA CountedExists ==
  ASSUME NEW prev, NEW subs, NEW c, NEW n \in Nat
  PROVE  \E counted : CountedOf(counted, prev, subs, c, n)
<1> DEFINE S == {m \in Nat : \E counted : CountedOf(counted, prev, subs, c, m)}
<1>1. 0 \in S
  <2>1. CountedOf([i \in 0..0 |-> c], prev, subs, c, 0)
    BY DEF CountedOf
  <2> QED
    BY <2>1
<1>2. ASSUME NEW m \in Nat, m \in S PROVE m + 1 \in S
  <2>1. PICK counted : CountedOf(counted, prev, subs, c, m)
    BY <1>2
  <2> DEFINE more == [i \in 0..(m + 1) |-> IF i <= m THEN counted[i] ELSE prev[subs[i]][counted[m]]]
  <2>2. \A i \in 0..m : counted[i] = IF i = 0 THEN c ELSE prev[subs[i]][counted[i - 1]]
    BY <2>1 DEF CountedOf
  <2>3. ASSUME NEW i \in 0..(m + 1)
        PROVE  more[i] = IF i = 0 THEN c ELSE prev[subs[i]][more[i - 1]]
    BY <2>2
  <2>4. more = [i \in 0..(m + 1) |-> more[i]]
    OBVIOUS
  <2> HIDE DEF more
  <2>5. CountedOf(more, prev, subs, c, m + 1)
    BY <2>3, <2>4 DEF CountedOf
  <2> QED
    BY <2>5
<1> HIDE DEF S
<1>3. Nat \subseteq S
  BY <1>1, <1>2, Induction
<1> QED
  BY <1>3 DEF S

LEMMA CountsExist ==
  ASSUME NEW n \in Nat
  PROVE  \E call : CountsOf(call, n)
<1> DEFINE S == {m \in Nat : \E call : CountsOf(call, m)}
<1>1. 0 \in S
  <2> DEFINE none == [i \in {} |-> 0]
             call == [k \in 0..0 |-> CountLevel(0, none)]
  <2>1. CountLevel(0, none) = CountLevel(0, call[0 - 1])
    BY DEF CountLevel
  <2>2. \A k \in 0..0 : k = 0
    OBVIOUS
  <2> HIDE DEF none
  <2>3. CountsOf(call, 0)
    BY <2>1, <2>2 DEF CountsOf
  <2> QED
    BY <2>3
<1>2. ASSUME NEW m \in Nat, m \in S PROVE m + 1 \in S
  <2>1. PICK call : CountsOf(call, m)
    BY <1>2
  <2> DEFINE more == [k \in 0..(m + 1) |-> IF k <= m THEN call[k] ELSE CountLevel(m + 1, call[m])]
  <2>2. \A k \in 0..m : call[k] = CountLevel(k, call[k - 1])
    BY <2>1, Zenon DEF CountsOf
  <2>3. ASSUME NEW k \in 0..(m + 1) PROVE more[k] = CountLevel(k, more[k - 1])
    <3>1. CASE k = 0
      <4>1. CountLevel(0, call[0 - 1]) = CountLevel(0, more[0 - 1])
        BY Zenon DEF CountLevel
      <4> QED
        BY <2>2, <3>1, <4>1
    <3>2. CASE k \in 1..m
      <4>1. more[k] = call[k] /\ more[k - 1] = call[k - 1] /\ k \in 0..m
        BY <3>2
      <4> HIDE DEF more
      <4> QED
        BY <2>2, <4>1
    <3>3. CASE k = m + 1
      <4>1. more[k] = CountLevel(m + 1, call[m]) /\ more[k - 1] = call[m]
        BY <3>3
      <4> HIDE DEF more
      <4> QED
        BY <3>3, <4>1
    <3> QED
      BY <3>1, <3>2, <3>3
  <2>4. more = [k \in 0..(m + 1) |-> more[k]]
    OBVIOUS
  <2> HIDE DEF more
  <2>5. CountsOf(more, m + 1)
    BY <2>3, <2>4, Zenon DEF CountsOf
  <2> QED
    BY <2>5
<1> HIDE DEF S
<1>3. Nat \subseteq S
  BY <1>1, <1>2, Induction
<1> QED
  BY <1>3 DEF S

LEMMA FiniteTrees ==
  ASSUME ToSet(rows) \subseteq Nodes, NEW r \in Nodes
  PROVE  /\ IsFiniteSet(Below(r)) /\ IsFiniteSet(Leaves(r)) /\ Tree(r) \subseteq Nodes
         /\ Cardinality(Below(r)) \in Nat /\ Cardinality(Leaves(r)) \in Nat
         /\ Cardinality(Below(r)) <= Cardinality(Nodes)
<1>1. Below(r) \subseteq Nodes /\ Leaves(r) \subseteq Nodes /\ Tree(r) \subseteq Nodes
  BY BelowClosed DEF Leaves, Tree
<1>2. IsFiniteSet(Nodes)
  BY RowsAssumption
<1> QED
  BY <1>1, <1>2, FS_Subset, FS_CardinalityType

\* A level of the recursion counts the leaves of a tree if the next one counts
\* those of its children.
LEMMA LevelIs ==
  ASSUME ToSet(rows) \subseteq Nodes, NEW r \in Nodes, r \notin Below(r), Listed(r), NEW k, NEW prev,
         tree.subs[r] = <<>> \/ k # 0,
         \A m \in Children(r), c \in Nat : k # 0 => prev[m][c] = c + Cardinality(Leaves(m)),
         NEW c \in Nat
  PROVE  CountLevel(k, prev)[r][c] = c + Cardinality(Leaves(r))
<1> DEFINE subs == tree.subs[r]
           n == Len(subs)
<1>1. subs \in Seq(Nodes) /\ IsInjective(subs) /\ ToSet(subs) = Children(r)
  BY DEF Listed
<1>2. CountLevel(k, prev)[r][c] =
        LET counted[i \in 0..n] == IF i = 0 THEN c ELSE prev[subs[i]][counted[i - 1]]
        IN  IF k = 0 \/ subs = <<>> THEN c + 1 ELSE counted[n]
  BY Zenon DEF CountLevel
<1> HIDE DEF subs
<1>3. n \in Nat /\ DOMAIN subs = 1..n /\ \A i \in 1..n : subs[i] \in Nodes /\ subs[i] \in Children(r)
  <2>1. n \in Nat /\ DOMAIN subs = 1..n /\ \A i \in 1..n : subs[i] \in Nodes
    BY <1>1
  <2> QED
    BY <1>1, <2>1 DEF ToSet
<1>4. Tree(r) = {r} \cup UNION {Tree(m) : m \in Children(r)}
  BY TreeIs
<1>5. CASE subs = <<>>
  <2>1. n = 0
    BY <1>5
  <2>2. ToSet(subs) = {}
    BY <1>3, <2>1 DEF ToSet
  <2>3. Leaves(r) = {r}
    BY <1>1, <1>4, <2>2 DEF Leaves
  <2>4. CountLevel(k, prev)[r][c] = c + 1
    BY <1>2, <1>5
  <2> QED
    BY <2>3, <2>4, FS_Singleton
<1>6. CASE subs # <<>>
  <2>1. k # 0 /\ Children(r) # {}
    <3>1. n # 0
      BY <1>1, <1>6
    <3>2. subs[1] \in Children(r)
      BY <1>3, <3>1
    <3>3. k # 0
      BY <1>6 DEF subs
    <3> QED
      BY <3>2, <3>3
  <2>2. PICK counted : CountedOf(counted, prev, subs, c, n) /\ CountLevel(k, prev)[r][c] = counted[n]
    <3> DEFINE g == CHOOSE h : CountedOf(h, prev, subs, c, n)
    <3>1. CountedOf(g, prev, subs, c, n)
      BY CountedExists, <1>3, Zenon
    <3>2. CountLevel(k, prev)[r][c] = g[n]
      BY <1>2, <1>6, <2>1, Zenon DEF CountedOf
    <3> QED
      BY <3>1, <3>2, Zenon
  <2>3. \A i \in 0..n : counted[i] = IF i = 0 THEN c ELSE prev[subs[i]][counted[i - 1]]
    BY <2>2, Zenon DEF CountedOf
  <2> DEFINE Up(i) == UNION {Leaves(subs[j]) : j \in 1..i}
             Counts(i) == IsFiniteSet(Up(i)) /\ counted[i] \in Nat /\ counted[i] = c + Cardinality(Up(i))
             S == {i \in Nat : i <= n => Counts(i)}
  <2>4. 0 \in S
    <3>1. Up(0) = {} /\ counted[0] = c
      BY <1>3, <2>3
    <3>2. Counts(0)
      BY <3>1, FS_EmptySet
    <3> HIDE DEF Counts
    <3> QED
      BY <3>2
  <2>5. ASSUME NEW i \in Nat, i \in S PROVE i + 1 \in S
    <3> SUFFICES ASSUME i + 1 <= n PROVE Counts(i + 1)
      OBVIOUS
    <3> DEFINE x == subs[i + 1]
    <3>1. i <= n /\ i + 1 \in 1..n /\ i + 1 \in 0..n /\ (i + 1) - 1 = i /\ i + 1 # 0
      BY <1>3
    <3>2. Counts(i)
      BY <2>5, <3>1
    <3>3. x \in Nodes /\ x \in Children(r)
      BY <1>3, <3>1
    <3>4. Up(i + 1) = Up(i) \cup Leaves(x)
      <4>1. \A j \in 1..(i + 1) : j \in 1..i \/ j = i + 1
        OBVIOUS
      <4>2. \A j \in 1..i : j \in 1..(i + 1)
        OBVIOUS
      <4>3. i + 1 \in 1..(i + 1)
        OBVIOUS
      <4> QED
        BY <4>1, <4>2, <4>3
    <3>5. Up(i) \cap Leaves(x) = {}
      <4> SUFFICES ASSUME NEW j \in 1..i PROVE Leaves(subs[j]) \cap Leaves(x) = {}
        OBVIOUS
      <4>1. j \in 1..n /\ j # i + 1
        BY <1>3, <3>1
      <4>2. subs[j] # x /\ subs[j] \in Children(r)
        BY <1>1, <1>3, <3>1, <4>1 DEF IsInjective
      <4>3. Tree(subs[j]) \cap Tree(x) = {}
        BY <3>3, <4>2, ChildrenApart
      <4> QED
        BY <4>3 DEF Leaves
    <3>6. IsFiniteSet(Leaves(x)) /\ Cardinality(Leaves(x)) \in Nat
      BY <3>3, FiniteTrees
    <3>7. counted[i + 1] = counted[i] + Cardinality(Leaves(x))
      <4>1. counted[i + 1] = prev[x][counted[i]]
        BY <2>3, <3>1
      <4> QED
        BY <2>1, <3>2, <3>3, <4>1
    <3> HIDE DEF Up, x
    <3>8. /\ IsFiniteSet(Up(i + 1)) /\ Cardinality(Up(i)) \in Nat
          /\ Cardinality(Up(i + 1)) = Cardinality(Up(i)) + Cardinality(Leaves(x))
      <4>1. /\ IsFiniteSet(Up(i) \cup Leaves(x))
            /\ Cardinality(Up(i) \cup Leaves(x)) =
                 Cardinality(Up(i)) + Cardinality(Leaves(x)) - Cardinality(Up(i) \cap Leaves(x))
        BY <3>2, <3>6, FS_Union
      <4>2. Cardinality(Up(i)) \in Nat /\ Cardinality(Up(i) \cap Leaves(x)) = 0
        BY <3>2, <3>5, FS_CardinalityType, FS_EmptySet
      <4>3. Cardinality(Up(i) \cup Leaves(x)) = Cardinality(Up(i)) + Cardinality(Leaves(x))
        BY <3>6, <4>1, <4>2
      <4> QED
        BY <3>4, <4>1, <4>2, <4>3
    <3> QED
      BY <3>2, <3>6, <3>7, <3>8
  <2> HIDE DEF S
  <2>6. Nat \subseteq S
    BY <2>4, <2>5, Induction
  <2>7. Counts(n)
    <3> HIDE DEF Counts
    <3> QED
      BY <1>3, <2>6 DEF S
  <2>8. Up(n) = Leaves(r)
    <3>1. \A m \in Children(r) : \E j \in 1..n : subs[j] = m
      BY <1>1, <1>3 DEF ToSet
    <3>2. \A x \in Up(n) : x \in Leaves(r)
      BY <1>3, <1>4 DEF Leaves
    <3>3. ASSUME NEW x \in Leaves(r) PROVE x \in Up(n)
      <4>1. x # r /\ x \in Tree(r) /\ Children(x) = {}
        BY <2>1 DEF Leaves
      <4>2. PICK m \in Children(r) : x \in Tree(m)
        BY <1>4, <4>1
      <4>3. PICK j \in 1..n : subs[j] = m
        BY <3>1
      <4> QED
        BY <4>1, <4>2, <4>3 DEF Leaves
    <3> QED
      BY <3>2, <3>3
  <2> HIDE DEF Up
  <2> QED
    BY <2>2, <2>7, <2>8
<1> QED
  BY <1>5, <1>6

\* The page counts the leaves of a tree whose lists are the children.
LEMMA CountIs ==
  ASSUME ToSet(rows) \subseteq Nodes, NEW root \in Nodes, root \notin Below(root),
         \A n \in Tree(root) : Listed(n)
  PROVE  countLeafNode(root, 0) = Cardinality(Leaves(root))
<1> DEFINE C == Cardinality(Nodes)
<1>1. C \in Nat
  BY RowsAssumption, FS_CardinalityType
<1>2. PICK call : CountsOf(call, C) /\ countLeafNode(root, 0) = call[C][root][0]
  <2> DEFINE g == CHOOSE h : CountsOf(h, C)
  <2>1. CountsOf(g, C)
    BY CountsExist, <1>1, Zenon
  <2>2. countLeafNode(root, 0) = g[C][root][0]
    BY Zenon DEF countLeafNode, CountsOf, CountLevel
  <2> QED
    BY <2>1, <2>2, Zenon
<1>3. \A k \in 0..C : call[k] = CountLevel(k, call[k - 1])
  BY <1>2, Zenon DEF CountsOf
<1> HIDE DEF C
<1> DEFINE Right(k) == \A n \in Tree(root), c \in Nat :
                         Cardinality(Below(n)) <= k => call[k][n][c] = c + Cardinality(Leaves(n))
           S == {k \in Nat : k <= C => Right(k)}
<1>4. \A n \in Tree(root) : n \in Nodes /\ n \notin Below(n) /\ Listed(n) /\ Tree(n) \subseteq Tree(root)
  BY BelowBelow, FiniteTrees, NoCycle DEF Tree
<1>5. 0 \in S
  <2> SUFFICES ASSUME NEW n \in Tree(root), NEW c \in Nat, Cardinality(Below(n)) <= 0
               PROVE  call[0][n][c] = c + Cardinality(Leaves(n))
    OBVIOUS
  <2>1. Below(n) = {}
    BY <1>4, FiniteTrees, FS_EmptySet
  <2>2. Children(n) = {}
    BY <2>1, BelowClosed
  <2>3. tree.subs[n] = <<>>
    <3> DEFINE subs == tree.subs[n]
    <3>1. subs \in Seq(Nodes) /\ ToSet(subs) = {}
      BY <1>4, <2>2 DEF Listed
    <3> HIDE DEF subs
    <3>2. subs # <<>> => 1 \in DOMAIN subs
      BY <3>1
    <3>3. subs = <<>>
      BY <3>1, <3>2 DEF ToSet
    <3> QED
      BY <3>3 DEF subs
  <2>4. call[0] = CountLevel(0, call[0 - 1])
    BY <1>1, <1>3
  <2>5. CountLevel(0, call[0 - 1])[n][c] = c + Cardinality(Leaves(n))
    BY <1>4, <2>2, <2>3, LevelIs
  <2> QED
    BY <2>4, <2>5
<1>6. ASSUME NEW k \in Nat, k \in S PROVE k + 1 \in S
  <2> SUFFICES ASSUME k + 1 <= C, NEW n \in Tree(root), NEW c \in Nat, Cardinality(Below(n)) <= k + 1
               PROVE  call[k + 1][n][c] = c + Cardinality(Leaves(n))
    OBVIOUS
  <2>1. k + 1 \in 0..C /\ k <= C /\ (k + 1) - 1 = k /\ k + 1 # 0
    BY <1>1
  <2>2. Right(k)
    BY <1>6, <2>1
  <2>3. call[k + 1] = CountLevel(k + 1, call[k])
    BY <1>3, <2>1
  <2>4. ASSUME NEW m \in Children(n), NEW d \in Nat
        PROVE  call[k][m][d] = d + Cardinality(Leaves(m))
    <3>1. m \in Below(n) /\ Below(m) \subseteq Below(n) /\ m \in Tree(root)
      BY <1>4, BelowClosed, BelowBelow DEF Tree
    <3>2. m \notin Below(m) /\ m \in Nodes /\ n \in Nodes
      BY <1>4, <3>1
    <3>3. /\ IsFiniteSet(Below(n)) /\ Cardinality(Below(n)) \in Nat /\ Cardinality(Below(m)) \in Nat
      BY <3>2, FiniteTrees
    <3>4. Cardinality(Below(m)) <= Cardinality(Below(n)) /\ Cardinality(Below(m)) # Cardinality(Below(n))
      BY <3>1, <3>2, <3>3, FS_Subset
    <3>5. Cardinality(Below(m)) <= k
      BY <3>3, <3>4
    <3> QED
      BY <2>2, <3>1, <3>5
  <2>5. CountLevel(k + 1, call[k])[n][c] = c + Cardinality(Leaves(n))
    BY <1>4, <2>1, <2>4, LevelIs
  <2> QED
    BY <2>3, <2>5
<1> HIDE DEF S
<1>7. Nat \subseteq S
  BY <1>5, <1>6, Induction
<1>8. Right(C)
  <2> HIDE DEF Right
  <2> QED
    BY <1>1, <1>7 DEF S
<1>9. root \in Tree(root) /\ Cardinality(Below(root)) <= C
  BY FiniteTrees DEF Tree, C
<1>10. call[C][root][0] = 0 + Cardinality(Leaves(root)) /\ Cardinality(Leaves(root)) \in Nat
  BY <1>8, <1>9, FiniteTrees
<1> QED
  BY <1>2, <1>10 DEF C

-----------------------------------------------------------------------------
(* TreeNodeHelper: the calls. *)

Entry == [root : Nodes, cper : BOOLEAN]

treeTypeOK ==
  /\ parentNodeId \in [Nodes -> Nodes \cup {NoParent}]
  /\ rows \in Seq(Nodes) /\ IsInjective(rows)
  /\ tree \in [subs : [Nodes -> Seq(Nodes)], parent : [Nodes -> Nodes \cup {NoParent}], map : SUBSET Nodes]
  /\ roots \in Seq(Entry) /\ todo \in Seq(Nodes)
  /\ todo # <<>> => roots # <<>>
  /\ growing = "no" => tree = Bare /\ roots = <<>> /\ todo = <<>>

Apart(calls) == \A i, j \in DOMAIN calls : i # j => calls[j].root \notin Tree(calls[i].root)
Reached(calls) == UNION {Tree(calls[i].root) : i \in DOMAIN calls}
Pending(list) == UNION {Tree(list[i]) : i \in DOMAIN list}

ListedAs(subs, n, cper) ==
  /\ subs \in Seq(Nodes) /\ IsInjective(subs) /\ ToSet(subs) = Children(n)
  /\ \A i, j \in DOMAIN subs : i < j => Before(cper, subs[i], subs[j])

\* The trees of the nodes still to come do not meet; these nodes, and those of
\* no tree, have nothing; all others have their children, in the order that
\* the call for their tree asks for.
Grown(calls, list, t) ==
  /\ \A i \in DOMAIN list : list[i] \in Tree(Last(calls).root)
  /\ \A i, j \in DOMAIN list : i # j => Tree(list[i]) \cap Tree(list[j]) = {}
  /\ \A n \in Nodes : n \notin Reached(calls) \/ n \in Pending(list) => t.subs[n] = <<>>
  /\ \A i \in DOMAIN calls : \A n \in Tree(calls[i].root) :
       n \notin Pending(list) => ListedAs(t.subs[n], n, calls[i].cper)
  /\ t.map = UNION {Children(n) : n \in Reached(calls) \ Pending(list)}
  /\ \A n \in Nodes : t.parent[n] = IF n \in t.map THEN parentNodeId[n] ELSE NoParent

Acyclic(calls) == \A i \in DOMAIN calls : calls[i].root \notin Below(calls[i].root)

TreeInv == treeTypeOK /\ Acyclic(roots) /\ (Apart(roots) => Grown(roots, todo, tree))

\* All this is of the rows and what they say of their parents.
LEMMA SameRows ==
  ASSUME rows' = rows, parentNodeId' = parentNodeId
  PROVE  /\ \A calls : (Acyclic(calls)' <=> Acyclic(calls)) /\ (Apart(calls)' <=> Apart(calls))
         /\ \A calls, list, t : Grown(calls, list, t)' <=> Grown(calls, list, t)
<1>1. \A n : Children(n)' = Children(n)
  BY DEF Children
<1>2. \A n : Below(n)' = Below(n)
  BY <1>1 DEF Below
<1>3. \A n : Tree(n)' = Tree(n)
  BY <1>2 DEF Tree
<1>4. \A c, m, n : Before(c, m, n)' <=> Before(c, m, n)
  BY DEF Before
<1>5. \A subs, n, c : ListedAs(subs, n, c)' <=> ListedAs(subs, n, c)
  BY <1>1, <1>4 DEF ListedAs
<1>6. /\ \A calls : Reached(calls)' = Reached(calls)
      /\ \A list : Pending(list)' = Pending(list)
  BY <1>3 DEF Reached, Pending
<1>7. \A calls : (Acyclic(calls)' <=> Acyclic(calls)) /\ (Apart(calls)' <=> Apart(calls))
  BY <1>2, <1>3 DEF Acyclic, Apart
<1>8. \A calls, list, t : Grown(calls, list, t)' <=> Grown(calls, list, t)
  <2> TAKE calls, list, t
  <2>1. Reached(calls)' = Reached(calls) /\ Pending(list)' = Pending(list)
    BY <1>6
  <2>2. Tree(Last(calls).root)' = Tree(Last(calls).root)
    BY <1>3
  <2> QED
    BY <1>1, <1>3, <1>5, <2>1, <2>2 DEF Grown
<1> QED
  BY <1>7, <1>8

LEMMA TreeInvSame ==
  ASSUME rows' = rows, parentNodeId' = parentNodeId, treeTypeOK', Acyclic(roots'),
         Apart(roots') => Grown(roots', todo', tree')
  PROVE  TreeInv'
<1>1. Acyclic(roots)' /\ (Apart(roots)' => Grown(roots, todo, tree)')
  BY SameRows
<1> QED
  BY <1>1 DEF TreeInv

\* A node with nothing gets its children.
LEMMA SubNodesIs ==
  ASSUME treeTypeOK, NEW n \in Nodes, tree.subs[n] = <<>>, NEW cper \in BOOLEAN
  PROVE  ListedAs(SubNodes(n, cper), n, cper)
<1> DEFINE A == Added(n)
<1>1. /\ A \in Seq(Nodes) /\ ToSet(A) = Children(n)
      /\ \A i, j \in DOMAIN A : i < j => Before(FALSE, A[i], A[j])
  BY AddedIs DEF treeTypeOK
<1> HIDE DEF A
<1>2. DOMAIN A \subseteq Int /\ A \in Seq(Int) /\ <<>> \o A = A
  <2>1. DOMAIN A = 1..Len(A) /\ Len(A) \in Nat /\ <<>> \o A = A /\ \A i \in 1..Len(A) : A[i] \in Nodes
    BY <1>1
  <2>2. \A i \in 1..Len(A) : A[i] \in Int
    BY <2>1, RowsAssumption
  <2> QED
    BY <1>1, <2>1, <2>2
<1>3. ASSUME NEW i \in DOMAIN A, NEW j \in DOMAIN A, i < j PROVE A[i] # A[j]
  <2>1. PICK k \in DOMAIN rows, l \in DOMAIN rows : k < l /\ rows[k] = A[i] /\ rows[l] = A[j]
    BY <1>1, <1>3 DEF Before
  <2>2. k # l
    BY <2>1 DEF treeTypeOK
  <2> QED
    BY <2>1, <2>2 DEF treeTypeOK, IsInjective
<1>4. IsInjective(A)
  <2>1. \A i, j \in DOMAIN A : i < j \/ j < i \/ i = j
    BY <1>2
  <2> QED
    BY <1>3, <2>1 DEF IsInjective
<1>5. SubNodes(n, cper) = IF cper THEN Sorted(A) ELSE A
  BY <1>2 DEF SubNodes, A
<1>6. CASE ~cper
  BY <1>1, <1>4, <1>5, <1>6 DEF ListedAs
<1>7. CASE cper
  <2> DEFINE B == Sorted(A)
  <2>1. /\ B \in Seq(Int) /\ Len(B) = Len(A) /\ ToSet(B) = ToSet(A)
        /\ \A k, l \in DOMAIN A : k < l => B[k] < B[l]
    BY <1>2, <1>4, SortedIs
  <2> HIDE DEF B
  <2>2. DOMAIN A = 1..Len(A) /\ DOMAIN B = 1..Len(B) /\ Len(B) \in Nat /\ \A k \in 1..Len(B) : B[k] \in Int
    BY <1>2, <2>1
  <2>3. \A k, l \in DOMAIN B : k < l => B[k] < B[l]
    BY <2>1, <2>2
  <2>4. IsInjective(B)
    BY <2>2, <2>3 DEF IsInjective
  <2>5. ToSet(A) \subseteq Nodes
    BY <1>1 DEF ToSet
  <2>6. \A k \in 1..Len(B) : B[k] \in Nodes
    BY <2>1, <2>2, <2>5 DEF ToSet
  <2>7. B \in Seq(Nodes)
    BY <2>1, <2>2, <2>6
  <2>8. \A k, l \in DOMAIN B : k < l => Before(cper, B[k], B[l])
    BY <1>7, <2>3 DEF Before
  <2>9. SubNodes(n, cper) = B
    BY <1>5, <1>7 DEF B
  <2> QED
    BY <1>1, <2>1, <2>4, <2>7, <2>8, <2>9 DEF ListedAs
<1> QED
  BY <1>6, <1>7

LEMMA TreeInit == treeInit => TreeInv
<1> SUFFICES ASSUME treeInit PROVE TreeInv
  OBVIOUS
<1>1. /\ tree = Bare /\ roots = <<>> /\ todo = <<>> /\ rows = <<>>
      /\ parentNodeId = [n \in Nodes |-> NoParent]
  BY DEF treeInit
<1>2. treeTypeOK
  BY <1>1 DEF treeTypeOK, Bare, IsInjective
<1>3. Reached(roots) = {} /\ Pending(todo) = {} /\ DOMAIN roots = {} /\ DOMAIN todo = {}
  BY <1>1 DEF Reached, Pending
<1>4. Grown(roots, todo, tree)
  BY <1>1, <1>3 DEF Grown, Bare
<1> QED
  BY <1>2, <1>3, <1>4 DEF TreeInv, Acyclic

LEMMA LoadKeeps == TreeInv /\ Load => TreeInv'
<1> SUFFICES ASSUME TreeInv, Load PROVE TreeInv'
  OBVIOUS
<1>1. /\ tree' = Bare /\ roots' = <<>> /\ todo' = <<>> /\ growing' = "yes"
      /\ rows' \in Orders /\ parentNodeId' \in Parents
  BY DEF TreeInv, treeTypeOK, Load
<1>2. treeTypeOK'
  BY <1>1, RowsAssumption DEF treeTypeOK, Bare
<1>3. Reached(roots)' = {} /\ Pending(todo)' = {} /\ DOMAIN roots' = {} /\ DOMAIN todo' = {}
  BY <1>1 DEF Reached, Pending
<1>4. Grown(roots, todo, tree)'
  BY <1>1, <1>3 DEF Grown, Bare
<1> QED
  BY <1>2, <1>3, <1>4 DEF TreeInv, Acyclic

LEMMA OverflowsKeeps == ASSUME TreeInv, NEW root \in Nodes, Overflows(root) PROVE TreeInv'
<1>1. treeTypeOK'
  BY DEF TreeInv, treeTypeOK, Overflows
<1> QED
  BY <1>1, TreeInvSame DEF TreeInv, Overflows

\* A call from outside is for a tree that has not been reached.
LEMMA CallKeeps ==
  ASSUME TreeInv, NEW root \in Nodes, NEW cper \in BOOLEAN, Call(root, cper)
  PROVE  TreeInv'
<1> DEFINE p == [root |-> root, cper |-> cper]
           n == Len(roots)
<1>1. /\ growing = "yes" /\ todo = <<>> /\ root \notin Below(root) /\ todo' = <<root>>
      /\ roots' = Append(roots, p) /\ tree' = tree /\ growing' = "yes"
      /\ rows' = rows /\ parentNodeId' = parentNodeId
  BY DEF Call
<1>2. roots \in Seq(Entry) /\ n \in Nat /\ DOMAIN roots = 1..n /\ p \in Entry
  BY DEF TreeInv, treeTypeOK, Entry
<1>3. /\ p.root = root /\ p.cper = cper
      /\ DOMAIN roots' = 1..(n + 1) /\ roots'[n + 1] = p /\ \A i \in 1..n : roots'[i] = roots[i]
      /\ Last(roots') = p /\ roots' \in Seq(Entry) /\ roots' # <<>>
  BY <1>1, <1>2 DEF Last
<1>4. /\ DOMAIN todo = {} /\ DOMAIN todo' = {1} /\ todo'[1] = root /\ todo' \in Seq(Nodes)
  BY <1>1
<1>5. treeTypeOK'
  BY <1>1, <1>3, <1>4 DEF TreeInv, treeTypeOK
<1>6. \A i \in 1..(n + 1) : i \in 1..n \/ i = n + 1
  BY <1>2
<1>7. \A i \in 1..n : i \in 1..(n + 1) /\ i # n + 1
  BY <1>2
<1>8. n + 1 \in 1..(n + 1)
  BY <1>2
<1> HIDE DEF n, p
<1>9. Acyclic(roots')
  BY <1>1, <1>2, <1>3, <1>6 DEF TreeInv, Acyclic
<1>10. ASSUME Apart(roots') PROVE Grown(roots', todo', tree')
  <2>1. Apart(roots)
    BY <1>2, <1>3, <1>7, <1>10 DEF Apart
  <2>2. Grown(roots, todo, tree)
    BY <2>1 DEF TreeInv
  <2>3. Pending(todo) = {} /\ Pending(todo') = Tree(root)
    BY <1>4 DEF Pending
  <2>4. Reached(roots') = Reached(roots) \cup Tree(root)
    <3>1. \A x \in Reached(roots') : x \in Reached(roots) \cup Tree(root)
      BY <1>2, <1>3, <1>6 DEF Reached
    <3>2. \A x \in Reached(roots) \cup Tree(root) : x \in Reached(roots')
      BY <1>2, <1>3, <1>7, <1>8 DEF Reached
    <3> QED
      BY <3>1, <3>2
  <2>5. ASSUME NEW i \in 1..n PROVE Tree(roots[i].root) \cap Tree(root) = {}
    <3>1. roots[i].root \notin Tree(root) /\ root \notin Tree(roots[i].root)
      BY <1>3, <1>7, <1>8, <1>10 DEF Apart
    <3> QED
      BY <3>1, TreesApart
  <2>6. Reached(roots) \cap Tree(root) = {}
    BY <1>2, <2>5 DEF Reached
  <2>7. Reached(roots') \ Pending(todo') = Reached(roots) \ Pending(todo)
    BY <2>3, <2>4, <2>6
  <2>8. \A i \in DOMAIN todo' : todo'[i] \in Tree(Last(roots').root)
    BY <1>3, <1>4 DEF Tree
  <2>9. \A i, j \in DOMAIN todo' : i # j => Tree(todo'[i]) \cap Tree(todo'[j]) = {}
    BY <1>4
  <2>10. \A x \in Nodes : x \notin Reached(roots') \/ x \in Pending(todo') => tree'.subs[x] = <<>>
    BY <1>1, <2>2, <2>3, <2>4, <2>6 DEF Grown
  <2>11. ASSUME NEW i \in DOMAIN roots', NEW x \in Tree(roots'[i].root), x \notin Pending(todo')
         PROVE  ListedAs(tree'.subs[x], x, roots'[i].cper)
    <3>1. i \in 1..n
      BY <1>3, <1>6, <2>3, <2>11
    <3>2. roots'[i] = roots[i] /\ x \notin Pending(todo) /\ i \in DOMAIN roots
      BY <1>2, <1>3, <2>3, <3>1
    <3> QED
      BY <1>1, <2>2, <2>11, <3>2 DEF Grown
  <2>12. /\ tree'.map = UNION {Children(x) : x \in Reached(roots') \ Pending(todo')}
         /\ \A x \in Nodes : tree'.parent[x] = IF x \in tree'.map THEN parentNodeId[x] ELSE NoParent
    BY <1>1, <2>2, <2>7 DEF Grown
  <2> QED
    BY <2>8, <2>9, <2>10, <2>11, <2>12 DEF Grown
<1> QED
  BY <1>1, <1>5, <1>9, <1>10, TreeInvSame

\* A step of a call moves one node from those still to come to the others.
LEMMA genTreeKeeps == TreeInv /\ genTree => TreeInv'
<1> SUFFICES ASSUME TreeInv, genTree PROVE TreeInv'
  OBVIOUS
<1> DEFINE node == Head(todo)
           subs == SubNodes(node, Last(roots).cper)
           rest == Tail(todo)
           n == Len(subs)
<1>1. /\ todo # <<>> /\ todo' = subs \o rest /\ roots' = roots /\ growing' = growing
      /\ rows' = rows /\ parentNodeId' = parentNodeId
      /\ tree' = [subs |-> [tree.subs EXCEPT ![node] = subs],
                  parent |-> [x \in Nodes |-> IF x \in ToSet(rows) /\ parentNodeId[x] = node
                                              THEN node ELSE tree.parent[x]],
                  map |-> tree.map \cup ToSet(subs)]
  BY DEF genTree
<1>2. treeTypeOK /\ Acyclic(roots) /\ (Apart(roots) => Grown(roots, todo, tree))
  BY DEF TreeInv
<1>3. /\ todo \in Seq(Nodes) /\ Len(todo) \in Nat /\ Len(todo) # 0 /\ DOMAIN todo = 1..Len(todo)
      /\ node = todo[1] /\ node \in Nodes
      /\ rest \in Seq(Nodes) /\ Len(rest) = Len(todo) - 1 /\ DOMAIN rest = 1..(Len(todo) - 1)
      /\ \A i \in 1..(Len(todo) - 1) : rest[i] = todo[i + 1]
  BY <1>1, <1>2 DEF treeTypeOK
<1>4. Last(roots) \in Entry /\ Len(roots) \in DOMAIN roots /\ Last(roots) = roots[Len(roots)]
  BY <1>1, <1>2 DEF treeTypeOK, Last
<1>5. Last(roots).cper \in BOOLEAN
  BY <1>4 DEF Entry
<1> HIDE DEF node, rest
<1>6. subs \in Seq(Nodes)
  <2>1. /\ rows \in Seq(Nodes) /\ IsInjective(rows) /\ tree.subs[node] \in Seq(Nodes)
    BY <1>2, <1>3 DEF treeTypeOK
  <2> DEFINE all == tree.subs[node] \o Added(node)
  <2>2. Added(node) \in Seq(Nodes)
    BY <2>1, AddedIs
  <2>3. all \in Seq(Nodes)
    BY <2>1, <2>2
  <2>4. subs = IF Last(roots).cper THEN Sorted(all) ELSE all
    BY DEF SubNodes
  <2> HIDE DEF all
  <2>5. Sorted(all) \in Seq(Nodes)
    BY <2>3, SortedType
  <2> QED
    BY <2>3, <2>4, <2>5
<1> HIDE DEF subs
<1>7. treeTypeOK'
  <2>1. todo' \in Seq(Nodes)
    BY <1>1, <1>3, <1>6
  <2>2. ToSet(subs) \subseteq Nodes
    BY <1>6 DEF ToSet
  <2>3. /\ tree.subs \in [Nodes -> Seq(Nodes)] /\ tree.parent \in [Nodes -> Nodes \cup {NoParent}]
        /\ tree.map \subseteq Nodes
    BY <1>2 DEF treeTypeOK
  <2>4. tree' \in [subs : [Nodes -> Seq(Nodes)], parent : [Nodes -> Nodes \cup {NoParent}], map : SUBSET Nodes]
    BY <1>1, <1>3, <1>6, <2>2, <2>3
  <2>5. growing # "no" /\ roots # <<>>
    BY <1>1, <1>2 DEF treeTypeOK
  <2> QED
    BY <1>1, <1>2, <2>1, <2>4, <2>5 DEF treeTypeOK
<1>8. ASSUME Apart(roots) PROVE Grown(roots', todo', tree')
  <2>1. /\ \A i \in DOMAIN todo : todo[i] \in Tree(Last(roots).root)
        /\ \A i, j \in DOMAIN todo : i # j => Tree(todo[i]) \cap Tree(todo[j]) = {}
        /\ \A x \in Nodes : x \notin Reached(roots) \/ x \in Pending(todo) => tree.subs[x] = <<>>
        /\ \A i \in DOMAIN roots : \A x \in Tree(roots[i].root) :
             x \notin Pending(todo) => ListedAs(tree.subs[x], x, roots[i].cper)
        /\ tree.map = UNION {Children(x) : x \in Reached(roots) \ Pending(todo)}
        /\ \A x \in Nodes : tree.parent[x] = IF x \in tree.map THEN parentNodeId[x] ELSE NoParent
    BY <1>2, <1>8 DEF Grown
  <2>2. 1 \in DOMAIN todo /\ node \in Tree(node) /\ node \in Tree(Last(roots).root)
    BY <1>3, <2>1 DEF Tree
  <2>3. node \in Pending(todo) /\ node \in Reached(roots)
    BY <1>3, <1>4, <2>2 DEF Pending, Reached
  <2>4. ListedAs(subs, node, Last(roots).cper)
    BY <1>2, <1>3, <1>5, <2>1, <2>3, SubNodesIs DEF subs
  <2>5. node \notin Below(node)
    BY <1>2, <1>4, <2>2, NoCycle DEF Acyclic
  <2>6. /\ n \in Nat /\ DOMAIN subs = 1..n /\ \A i \in 1..n : subs[i] \in Children(node)
        /\ \A x \in Children(node) : \E i \in 1..n : subs[i] = x
        /\ \A i, j \in 1..n : i # j => subs[i] # subs[j]
    <3>1. n \in Nat /\ DOMAIN subs = 1..n /\ ToSet(subs) = Children(node) /\ IsInjective(subs)
      BY <1>6, <2>4 DEF ListedAs
    <3> QED
      BY <3>1 DEF ToSet, IsInjective
  <2>7. /\ Tree(node) = {node} \cup UNION {Tree(m) : m \in Children(node)}
        /\ \A m \in Children(node) : node \notin Tree(m) /\ Tree(m) \subseteq Tree(node)
    BY <2>5, TreeIs
  <2>8. /\ DOMAIN todo' = 1..(n + (Len(todo) - 1))
        /\ \A i \in 1..n : todo'[i] = subs[i]
        /\ \A i \in 2..Len(todo) : todo'[n + i - 1] = todo[i]
    <3>1. DOMAIN todo' = 1..(n + (Len(todo) - 1))
      <4>1. todo' \in Seq(Nodes) /\ Len(todo') = Len(subs) + Len(rest)
        <5>1. subs \in Seq(Nodes) /\ rest \in Seq(Nodes) /\ todo' = subs \o rest
          BY <1>1, <1>3, <1>6
        <5> QED
          BY <5>1
      <4>2. DOMAIN todo' = 1..Len(todo')
        BY <4>1
      <4> QED
        BY <1>3, <4>1, <4>2
    <3>2. \A i \in 1..(n + (Len(todo) - 1)) : todo'[i] = IF i <= n THEN subs[i] ELSE rest[i - n]
      BY <1>1, <1>3, <1>6
    <3> HIDE DEF n
    <3>3. \A i \in 1..n : i <= n /\ i \in 1..(n + (Len(todo) - 1))
      BY <1>3, <2>6
    <3>4. ASSUME NEW i \in 2..Len(todo) PROVE todo'[n + i - 1] = todo[i]
      <4>1. /\ n + i - 1 \in 1..(n + (Len(todo) - 1)) /\ ~(n + i - 1 <= n) /\ (n + i - 1) - n = i - 1
            /\ i - 1 \in 1..(Len(todo) - 1) /\ (i - 1) + 1 = i
        BY <1>3, <2>6
      <4>2. todo'[n + i - 1] = rest[i - 1]
        BY <3>2, <4>1
      <4>3. rest[i - 1] = todo[(i - 1) + 1]
        BY <1>3, <4>1
      <4> QED
        BY <4>1, <4>2, <4>3
    <3> QED
      BY <3>1, <3>2, <3>3, <3>4
  <2> HIDE DEF n
  <2>9. \A i \in DOMAIN todo' : i \in 1..n \/ \E k \in 2..Len(todo) : i = n + k - 1
    <3> TAKE i \in DOMAIN todo'
    <3>1. i \in 1..n \/ (i - n + 1 \in 2..Len(todo) /\ i = n + (i - n + 1) - 1)
      BY <1>3, <2>6, <2>8
    <3> QED
      BY <3>1
  <2>10. /\ \A i \in 1..n : i \in DOMAIN todo'
         /\ \A k \in 2..Len(todo) : n + k - 1 \in DOMAIN todo' /\ k \in DOMAIN todo /\ k # 1
    BY <1>3, <2>6, <2>8
  <2>11. \A k \in 2..Len(todo) : Tree(todo[k]) \cap Tree(node) = {}
    BY <1>3, <2>1, <2>2, <2>10
  <2>12. Pending(todo') = Pending(todo) \ {node}
    <3>1. ASSUME NEW x \in Pending(todo') PROVE x \in Pending(todo) /\ x # node
      <4>1. PICK i \in DOMAIN todo' : x \in Tree(todo'[i])
        BY DEF Pending
      <4>2. CASE i \in 1..n
        <5>1. x \in Tree(subs[i]) /\ subs[i] \in Children(node)
          BY <2>6, <2>8, <4>1, <4>2
        <5>2. x \in Tree(node) /\ x # node
          BY <2>7, <5>1
        <5> QED
          BY <1>3, <2>2, <5>2 DEF Pending
      <4>3. ASSUME NEW k \in 2..Len(todo), i = n + k - 1 PROVE x \in Pending(todo) /\ x # node
        <5>1. x \in Tree(todo[k]) /\ k \in DOMAIN todo
          BY <2>8, <2>10, <4>1, <4>3
        <5>2. x # node
          BY <2>2, <2>11, <5>1
        <5> QED
          BY <5>1, <5>2 DEF Pending
      <4> QED
        BY <2>9, <4>2, <4>3
    <3>2. ASSUME NEW x \in Pending(todo), x # node PROVE x \in Pending(todo')
      <4>1. PICK i \in DOMAIN todo : x \in Tree(todo[i])
        BY DEF Pending
      <4>2. CASE i = 1
        <5>1. PICK m \in Children(node) : x \in Tree(m)
          BY <1>3, <2>7, <3>2, <4>1, <4>2
        <5>2. PICK k \in 1..n : subs[k] = m
          BY <2>6
        <5>3. k \in DOMAIN todo' /\ x \in Tree(todo'[k])
          BY <2>8, <2>10, <5>1, <5>2
        <5> QED
          BY <5>3 DEF Pending
      <4>3. CASE i # 1
        <5>1. i \in 2..Len(todo)
          BY <1>3, <4>3
        <5>2. n + i - 1 \in DOMAIN todo' /\ x \in Tree(todo'[n + i - 1])
          BY <2>8, <2>10, <4>1, <5>1
        <5> QED
          BY <5>2 DEF Pending
      <4> QED
        BY <4>2, <4>3
    <3> QED
      BY <2>2, <3>1, <3>2
  <2>13. \A i \in DOMAIN todo' : todo'[i] \in Tree(Last(roots').root)
    <3> TAKE i \in DOMAIN todo'
    <3> DEFINE r == Last(roots).root
    <3>1. CASE i \in 1..n
      <4>1. todo'[i] \in Children(node)
        BY <2>6, <2>8, <3>1
      <4>2. Children(node) \subseteq Below(r)
        BY <2>2, BelowClosed DEF Tree
      <4> QED
        BY <1>1, <4>1, <4>2 DEF Tree
    <3>2. ASSUME NEW k \in 2..Len(todo), i = n + k - 1 PROVE todo'[i] \in Tree(r)
      BY <2>1, <2>8, <2>10, <3>2
    <3> QED
      BY <1>1, <2>9, <3>1, <3>2
  <2>14. \A i, j \in DOMAIN todo' : i # j => Tree(todo'[i]) \cap Tree(todo'[j]) = {}
    <3>1. ASSUME NEW i \in 1..n, NEW j \in 1..n, i # j PROVE Tree(todo'[i]) \cap Tree(todo'[j]) = {}
      <4>1. /\ todo'[i] \in Children(node) /\ todo'[j] \in Children(node) /\ todo'[i] # todo'[j]
        BY <2>6, <2>8, <3>1
      <4> QED
        BY <2>5, <4>1, ChildrenApart
    <3>2. ASSUME NEW i \in 1..n, NEW k \in 2..Len(todo)
          PROVE  Tree(todo'[i]) \cap Tree(todo'[n + k - 1]) = {}
      <4>1. Tree(todo'[i]) \subseteq Tree(node)
        BY <2>6, <2>7, <2>8
      <4>2. todo'[n + k - 1] = todo[k]
        BY <2>8
      <4> QED
        BY <2>11, <4>1, <4>2
    <3>3. ASSUME NEW k \in 2..Len(todo), NEW l \in 2..Len(todo), k # l
          PROVE  Tree(todo'[n + k - 1]) \cap Tree(todo'[n + l - 1]) = {}
      BY <2>1, <2>8, <2>10, <3>3
    <3> TAKE i, j \in DOMAIN todo'
    <3> HAVE i # j
    <3>4. CASE i \in 1..n /\ j \in 1..n
      BY <3>1, <3>4
    <3>5. ASSUME i \in 1..n, NEW k \in 2..Len(todo), j = n + k - 1
          PROVE  Tree(todo'[i]) \cap Tree(todo'[j]) = {}
      BY <3>2, <3>5
    <3>6. ASSUME j \in 1..n, NEW k \in 2..Len(todo), i = n + k - 1
          PROVE  Tree(todo'[i]) \cap Tree(todo'[j]) = {}
      BY <3>2, <3>6
    <3>7. ASSUME NEW k \in 2..Len(todo), i = n + k - 1, NEW l \in 2..Len(todo), j = n + l - 1
          PROVE  Tree(todo'[i]) \cap Tree(todo'[j]) = {}
      <4>1. k # l
        BY <3>7
      <4> QED
        BY <3>3, <3>7, <4>1
    <3> QED
      BY <2>9, <3>4, <3>5, <3>6, <3>7
  <2>15. /\ tree'.subs = [tree.subs EXCEPT ![node] = subs] /\ tree'.map = tree.map \cup Children(node)
         /\ tree'.parent = [x \in Nodes |-> IF x \in ToSet(rows) /\ parentNodeId[x] = node
                                            THEN node ELSE tree.parent[x]]
         /\ DOMAIN tree.subs = Nodes
    BY <1>1, <1>2, <2>4 DEF ListedAs, treeTypeOK
  <2>16. \A x \in Nodes : x \notin Reached(roots') \/ x \in Pending(todo') => tree'.subs[x] = <<>>
    BY <1>1, <2>1, <2>3, <2>12, <2>15
  <2>17. ASSUME NEW i \in DOMAIN roots', NEW x \in Tree(roots'[i].root), x \notin Pending(todo')
         PROVE  ListedAs(tree'.subs[x], x, roots'[i].cper)
    <3>1. CASE x # node
      <4>1. x \notin Pending(todo) /\ tree'.subs[x] = tree.subs[x]
        BY <2>12, <2>15, <2>17, <3>1
      <4> QED
        BY <1>1, <2>1, <2>17, <4>1
    <3>2. CASE x = node
      <4>1. i = Len(roots)
        <5> SUFFICES ASSUME i # Len(roots) PROVE FALSE
          OBVIOUS
        <5>1. /\ roots[i].root \notin Tree(Last(roots).root)
              /\ Last(roots).root \notin Tree(roots[i].root)
          BY <1>1, <1>4, <1>8 DEF Apart
        <5>2. Tree(roots[i].root) \cap Tree(Last(roots).root) = {}
          BY <5>1, TreesApart
        <5> QED
          BY <1>1, <2>2, <2>17, <3>2, <5>2
      <4>2. tree'.subs[x] = subs
        BY <1>3, <2>15, <3>2
      <4> QED
        BY <1>1, <1>4, <2>4, <3>2, <4>1, <4>2
    <3> QED
      BY <3>1, <3>2
  <2>18. tree'.map = UNION {Children(x) : x \in Reached(roots') \ Pending(todo')}
    <3>1. Reached(roots') \ Pending(todo') = (Reached(roots) \ Pending(todo)) \cup {node}
      BY <1>1, <2>3, <2>12
    <3> QED
      BY <2>1, <2>15, <3>1
  <2>19. \A x \in Nodes : tree'.parent[x] = IF x \in tree'.map THEN parentNodeId[x] ELSE NoParent
    BY <2>1, <2>15 DEF Children
  <2> QED
    BY <2>13, <2>14, <2>16, <2>17, <2>18, <2>19 DEF Grown
<1> QED
  BY <1>1, <1>2, <1>7, <1>8, TreeInvSame

LEMMA TreeNext == TreeInv /\ [treeNext]_treeVars => TreeInv'
<1> SUFFICES ASSUME TreeInv, [treeNext]_treeVars PROVE TreeInv'
  OBVIOUS
<1>1. CASE Load
  BY <1>1, LoadKeeps
<1>2. ASSUME NEW root \in Nodes, Overflows(root) PROVE TreeInv'
  BY <1>2, OverflowsKeeps
<1>3. ASSUME NEW root \in Nodes, NEW cper \in BOOLEAN, Call(root, cper) PROVE TreeInv'
  BY <1>3, CallKeeps
<1>4. CASE genTree
  BY <1>4, genTreeKeeps
<1>5. CASE UNCHANGED treeVars
  <2>1. treeTypeOK'
    BY <1>5 DEF TreeInv, treeTypeOK, treeVars
  <2> QED
    BY <1>5, <2>1, TreeInvSame DEF TreeInv, treeVars
<1> QED
  BY <1>1, <1>2, <1>3, <1>4, <1>5 DEF treeNext

\* The property, of trees so grown.
LEMMA TreesAre == TreeInv => TreeOfParents
<1> SUFFICES ASSUME TreeInv, todo = <<>>,
                    \A i, j \in DOMAIN roots : i # j => roots[j].root \notin Tree(roots[i].root)
             PROVE  /\ tree.map = UNION {Below(p.root) : p \in ToSet(roots)}
                    /\ \A n \in Nodes : tree.parent[n] = IF n \in tree.map THEN parentNodeId[n] ELSE NoParent
                    /\ \A p \in ToSet(roots) :
                         /\ \A n \in Tree(p.root) :
                              /\ ToSet(tree.subs[n]) = Children(n)
                              /\ Len(tree.subs[n]) = Cardinality(Children(n))
                              /\ \A i, j \in DOMAIN tree.subs[n] :
                                   i < j => Before(p.cper, tree.subs[n][i], tree.subs[n][j])
                         /\ countLeafNode(p.root, 0) = Cardinality({n \in Tree(p.root) : Children(n) = {}})
  BY Zenon DEF TreeOfParents
<1>1. Grown(roots, todo, tree) /\ Acyclic(roots) /\ treeTypeOK
  BY DEF TreeInv, Apart
<1>2. Pending(todo) = {}
  BY DEF Pending
<1>3. tree.map = UNION {Below(p.root) : p \in ToSet(roots)}
  <2>1. tree.map = UNION {Children(n) : n \in Reached(roots)}
    BY <1>1, <1>2 DEF Grown
  <2>2. ASSUME NEW n \in Reached(roots), NEW x \in Children(n)
        PROVE  \E p \in ToSet(roots) : x \in Below(p.root)
    <3>1. PICK i \in DOMAIN roots : n \in Tree(roots[i].root)
      BY DEF Reached
    <3>2. x \in Below(roots[i].root) /\ roots[i] \in ToSet(roots)
      BY <3>1, BelowClosed DEF Tree, ToSet
    <3> QED
      BY <3>2
  <2>3. ASSUME NEW p \in ToSet(roots), NEW x \in Below(p.root)
        PROVE  \E n \in Reached(roots) : x \in Children(n)
    <3>1. PICK i \in DOMAIN roots : p = roots[i]
      BY DEF ToSet
    <3>2. parentNodeId[x] \in Reached(roots)
      BY <3>1, ParentBelow DEF Tree, Reached
    <3>3. x \in Children(parentNodeId[x])
      BY BelowClosed DEF Children
    <3> QED
      BY <3>2, <3>3
  <2> QED
    BY <2>1, <2>2, <2>3
<1>4. \A n \in Nodes : tree.parent[n] = IF n \in tree.map THEN parentNodeId[n] ELSE NoParent
  BY <1>1 DEF Grown
<1>5. ASSUME NEW p \in ToSet(roots)
      PROVE  /\ \A n \in Tree(p.root) : ListedAs(tree.subs[n], n, p.cper)
             /\ p.root \in Nodes /\ p.root \notin Below(p.root)
  <2>1. PICK i \in DOMAIN roots : p = roots[i]
    BY DEF ToSet
  <2>2. \A n \in Tree(p.root) : ListedAs(tree.subs[n], n, p.cper)
    BY <1>1, <1>2, <2>1 DEF Grown
  <2>3. p \in Entry
    BY <1>1, <2>1 DEF treeTypeOK
  <2> QED
    BY <1>1, <2>1, <2>2, <2>3 DEF Acyclic, Entry
<1>6. ToSet(rows) \subseteq Nodes
  BY <1>1 DEF treeTypeOK, ToSet
<1>7. ASSUME NEW p \in ToSet(roots), NEW n \in Tree(p.root)
      PROVE  /\ ToSet(tree.subs[n]) = Children(n)
             /\ Len(tree.subs[n]) = Cardinality(Children(n))
             /\ \A i, j \in DOMAIN tree.subs[n] :
                  i < j => Before(p.cper, tree.subs[n][i], tree.subs[n][j])
  <2> DEFINE subs == tree.subs[n]
  <2>1. ListedAs(subs, n, p.cper)
    BY <1>5
  <2> HIDE DEF subs
  <2>2. Len(subs) = Cardinality(ToSet(subs))
    BY <2>1, LenOfInjective DEF ListedAs
  <2> QED
    BY <2>1, <2>2 DEF ListedAs, subs
<1>8. ASSUME NEW p \in ToSet(roots)
      PROVE  countLeafNode(p.root, 0) = Cardinality({n \in Tree(p.root) : Children(n) = {}})
  <2>1. \A n \in Tree(p.root) : Listed(n)
    BY <1>5 DEF ListedAs, Listed
  <2>2. countLeafNode(p.root, 0) = Cardinality(Leaves(p.root))
    BY <1>5, <1>6, <2>1, CountIs
  <2> QED
    BY <2>2 DEF Leaves
<1> QED
  BY <1>3, <1>4, <1>7, <1>8

\* Whatever the rows, their order and the calls: trees that do not overlap are
\* the parent relation, each row below a root once, in its list and in order,
\* and the page counts their leaves (genTree, countLeafNode).
THEOREM TreesAreOfParents == treeSpec => []TreeOfParents
<1>1. treeInit => TreeInv
  BY TreeInit
<1>2. TreeInv /\ [treeNext]_treeVars => TreeInv'
  BY TreeNext
<1>3. TreeInv => TreeOfParents
  BY TreesAre
<1> QED
  BY <1>1, <1>2, <1>3, PTL DEF treeSpec
=============================================================================
