--------------------------- MODULE HttpRecvProofs ---------------------------
(***************************************************************************)
(* Every response of a pipeline has the status and the body of the reply   *)
(* to its request, and a pipeline that is done has read all that was sent, *)
(* for every set of replies, every depth and every way the bytes arrive.   *)
(*                                                                         *)
(* The stream is computed from the plan, so the proof has two halves.  The *)
(* first says what stands at each place of the stream: where reply i       *)
(* begins, where its body begins, where its chunk c begins, and the token  *)
(* there.  Sums and concatenations of n parts are built in steps, so these *)
(* lemmas go by induction on n, in the form "every number is in this set". *)
(* The second is the inductive invariant RecvInv: while recv reads, it is  *)
(* at a place of the reply it is to answer next, and its local variables   *)
(* hold exactly what was read of that reply so far.                        *)
(***************************************************************************)
EXTENDS Pipelining, SequenceTheorems, WellFoundedInduction, TLAPS

-----------------------------------------------------------------------------
(* Sums and concatenations of n parts. *)

LessThan == {p \in Nat \X Nat : p[1] < p[2]}

\* The order on the numbers has no infinite descent.
LEMMA LessThanIsWellFounded == IsWellFoundedOn(LessThan, Nat)
<1>1. LessThan = OpToRel(<, Nat)
  BY DEF LessThan, OpToRel
<1> QED
  BY <1>1, NatLessThanWellFounded

\* A set with 0 and the successor of each of its numbers has all numbers.
LEMMA Induction ==
  ASSUME NEW S, 0 \in S, \A n \in Nat : n \in S => n + 1 \in S
  PROVE  Nat \subseteq S
<1> SUFFICES ASSUME Nat \ S # {} PROVE FALSE
  OBVIOUS
<1>1. PICK n \in Nat \ S : \A m \in Nat \ S : ~(<<m, n>> \in LessThan)
  BY LessThanIsWellFounded, WFMin
<1>2. n # 0 /\ n - 1 \in Nat
  OBVIOUS
<1>3. <<n - 1, n>> \in LessThan
  BY <1>2 DEF LessThan
<1>4. n - 1 \in S
  BY <1>1, <1>2, <1>3
<1> QED
  BY <1>2, <1>4

\* The running sum of a sequence exists ...
Sum(g, s, n) == g = [k \in 0..n |-> IF k = 0 THEN 0 ELSE g[k - 1] + s[k]]

\* There is such a function for every number of summands.
LEMMA SumExists ==
  ASSUME NEW s, NEW n \in Nat
  PROVE  \E g : Sum(g, s, n)
<1> DEFINE S == {m \in Nat : \E g : Sum(g, s, m)}
<1>1. 0 \in S
  <2>1. Sum([k \in 0..0 |-> 0], s, 0)
    BY DEF Sum
  <2> QED
    BY <2>1
<1>2. ASSUME NEW m \in Nat, m \in S PROVE m + 1 \in S
  <2>1. PICK g : Sum(g, s, m)
    BY <1>2
  <2> DEFINE h == [k \in 0..(m + 1) |-> IF k <= m THEN g[k] ELSE g[m] + s[m + 1]]
  <2>2. ASSUME NEW k \in 0..(m + 1)
        PROVE  h[k] = IF k = 0 THEN 0 ELSE h[k - 1] + s[k]
    BY <2>1 DEF Sum
  <2>3. Sum(h, s, m + 1)
    <3> HIDE DEF h
    <3>1. h = [k \in 0..(m + 1) |-> h[k]]
      BY DEF h
    <3> QED
      BY <2>2, <3>1 DEF Sum
  <2> QED
    BY <2>3
<1> HIDE DEF S
<1>3. Nat \subseteq S
  BY <1>1, <1>2, Induction
<1> QED
  BY <1>3 DEF S

\* ... and Before is one.
LEMMA BeforeIsSum ==
  ASSUME NEW s, Len(s) \in Nat
  PROVE  /\ Before(s)[0] = 0
         /\ \A k \in 1..Len(s) : Before(s)[k] = Before(s)[k - 1] + s[k]
<1>1. \E g : Sum(g, s, Len(s))
  BY SumExists
<1>2. Sum(Before(s), s, Len(s))
  BY <1>1 DEF Sum, Before
<1> QED
  BY <1>2 DEF Sum

Lens(seqs) == [i \in DOMAIN seqs |-> Len(seqs[i])]

\* The running sum of a sequence of numbers never falls.
LEMMA BeforeIsNat ==
  ASSUME NEW s \in Seq(Nat)
  PROVE  /\ Before(s) = [k \in 0..Len(s) |-> Before(s)[k]]
         /\ \A k \in 0..Len(s) : Before(s)[k] \in Nat
         /\ \A j, k \in 0..Len(s) : j <= k => Before(s)[j] <= Before(s)[k]
<1> DEFINE B == Before(s)
           S == {m \in Nat : m <= Len(s) => /\ B[m] \in Nat
                                            /\ \A j \in 0..m : B[j] \in Nat /\ B[j] <= B[m]}
<1>0. /\ Len(s) \in Nat /\ \A k \in 1..Len(s) : s[k] \in Nat
  OBVIOUS
<1>1. /\ B[0] = 0
      /\ \A k \in 1..Len(s) : B[k] = B[k - 1] + s[k]
  BY <1>0, BeforeIsSum
<1>a. \E g : Sum(g, s, Len(s))
  BY <1>0, SumExists
<1>b. Sum(Before(s), s, Len(s))
  BY <1>a DEF Sum, Before
<1> HIDE DEF B
<1>2. 0 \in S
  BY <1>1
<1>3. ASSUME NEW m \in Nat, m \in S PROVE m + 1 \in S
  <2> SUFFICES ASSUME m + 1 <= Len(s)
               PROVE  B[m + 1] \in Nat /\ \A j \in 0..(m + 1) : B[j] \in Nat /\ B[j] <= B[m + 1]
    OBVIOUS
  <2>1. /\ B[m] \in Nat /\ \A j \in 0..m : B[j] \in Nat /\ B[j] <= B[m]
        /\ B[m + 1] = B[m] + s[m + 1] /\ s[m + 1] \in Nat
    BY <1>0, <1>1, <1>3
  <2>2. B[m + 1] \in Nat /\ B[m] <= B[m + 1]
    BY <2>1
  <2> QED
    BY <2>1, <2>2
<1> HIDE DEF S
<1>4. Nat \subseteq S
  BY <1>2, <1>3, Induction
<1>5. \A k \in 0..Len(s) : B[k] \in Nat /\ \A j \in 0..k : B[j] <= B[k]
  BY <1>0, <1>4 DEF S
<1>6. B = [k \in 0..Len(s) |-> B[k]]
  BY <1>b DEF Sum, B
<1>7. ASSUME NEW j \in 0..Len(s), NEW k \in 0..Len(s), j <= k
      PROVE  B[j] <= B[k]
  <2>1. j \in 0..k
    BY <1>0, <1>7
  <2> QED
    BY <1>5, <2>1
<1>8. \A k \in 0..Len(s) : B[k] \in Nat
  BY <1>5
<1> QED
  BY <1>6, <1>7, <1>8 DEF B

\* The same for FlattenSeq
Joined(g, seqs, n) ==
  g = [k \in 1..n |-> IF k = 1 THEN seqs[k] ELSE g[k - 1] \o seqs[k]]

\* There is such a function for every number of sequences.
LEMMA JoinedExists ==
  ASSUME NEW seqs, NEW n \in Nat
  PROVE  \E g : Joined(g, seqs, n)
<1> DEFINE S == {m \in Nat : \E g : Joined(g, seqs, m)}
<1>1. 0 \in S
  <2>1. Joined([k \in 1..0 |-> 0], seqs, 0)
    BY DEF Joined
  <2> QED
    BY <2>1
<1>2. ASSUME NEW m \in Nat, m \in S PROVE m + 1 \in S
  <2>1. PICK g : Joined(g, seqs, m)
    BY <1>2
  <2> DEFINE h == [k \in 1..(m + 1) |-> IF k <= m THEN g[k]
                                        ELSE IF k = 1 THEN seqs[k] ELSE g[m] \o seqs[k]]
  <2>2. ASSUME NEW k \in 1..(m + 1)
        PROVE  h[k] = IF k = 1 THEN seqs[k] ELSE h[k - 1] \o seqs[k]
    <3>1. CASE k = m + 1
      <4>1. m # 0 => m \in 1..(m + 1) /\ (m + 1) - 1 = m /\ h[m] = g[m]
        OBVIOUS
      <4> QED
        BY <3>1, <4>1
    <3>2. CASE k # m + 1
      <4>1. k \in 1..m /\ h[k] = g[k] /\ (k # 1 => h[k - 1] = g[k - 1])
        BY <3>2
      <4>2. g[k] = IF k = 1 THEN seqs[k] ELSE g[k - 1] \o seqs[k]
        BY <2>1, <4>1 DEF Joined
      <4> QED
        BY <4>1, <4>2
    <3> QED
      BY <3>1, <3>2
  <2>3. Joined(h, seqs, m + 1)
    <3> HIDE DEF h
    <3>1. h = [k \in 1..(m + 1) |-> h[k]]
      BY DEF h
    <3> QED
      BY <2>2, <3>1 DEF Joined
  <2> QED
    BY <2>3
<1> HIDE DEF S
<1>3. Nat \subseteq S
  BY <1>1, <1>2, Induction
<1> QED
  BY <1>3 DEF S

\* A place of a part is a place of the whole.
LEMMA Within ==
  ASSUME NEW a \in Nat, NEW l \in Nat, NEW b, b = a + l,
         NEW c \in Nat, b <= c, NEW k \in 1..l
  PROVE  a + k \in 1..c
OBVIOUS

\* What stands where in two sequences one after the other.
LEMMA ConcatIs ==
  ASSUME NEW S, NEW s \in Seq(S), NEW t \in Seq(S)
  PROVE  /\ s \o t \in Seq(S) /\ Len(s \o t) = Len(s) + Len(t)
         /\ \A k \in 1..Len(s) : (s \o t)[k] = s[k]
         /\ \A k \in 1..Len(t) : (s \o t)[Len(s) + k] = t[k]
<1>1. /\ s \o t \in Seq(S) /\ Len(s \o t) = Len(s) + Len(t)
      /\ \A i \in 1..(Len(s) + Len(t)) : (s \o t)[i] = IF i <= Len(s) THEN s[i] ELSE t[i - Len(s)]
  BY ConcatProperties
<1>2. Len(s) \in Nat /\ Len(t) \in Nat
  OBVIOUS
<1>3. ASSUME NEW k \in 1..Len(t) PROVE (s \o t)[Len(s) + k] = t[k]
  <2>1. /\ Len(s) + k \in 1..(Len(s) + Len(t)) /\ ~(Len(s) + k <= Len(s))
        /\ (Len(s) + k) - Len(s) = k
    BY <1>2
  <2> QED
    BY <1>1, <2>1
<1> QED
  BY <1>1, <1>2, <1>3

\* flat is the n sequences one after the other; the i-th ends at B[i].
Flat(flat, B, seqs, n) ==
  /\ Len(flat) = B[n] /\ B[0] = 0
  /\ \A i \in 0..n : B[i] \in Nat /\ B[i] <= B[n]
  /\ \A i \in 1..n :
       /\ B[i] = B[i - 1] + Len(seqs[i])
       /\ \A k \in 1..Len(seqs[i]) : flat[B[i - 1] + k] = seqs[i][k]

\* FlattenSeq puts the sequences one after the other.
LEMMA Flattened ==
  ASSUME NEW S, NEW n \in Nat, NEW seqs \in [1..n -> Seq(S)]
  PROVE  /\ FlattenSeq(seqs) \in Seq(S)
         /\ Flat(FlattenSeq(seqs), Before(Lens(seqs)), seqs, n)
<1> DEFINE flat == FlattenSeq(seqs)
           B == Before(Lens(seqs))
<1>1. /\ Lens(seqs) \in Seq(Nat) /\ Len(Lens(seqs)) = n
      /\ \A i \in 1..n : Lens(seqs)[i] = Len(seqs[i]) /\ seqs[i] \in Seq(S) /\ Len(seqs[i]) \in Nat
  BY DEF Lens
<1>2. /\ B[0] = 0 /\ \A i \in 0..n : B[i] \in Nat
      /\ \A i, j \in 0..n : i <= j => B[i] <= B[j]
      /\ \A i \in 1..n : B[i] = B[i - 1] + Len(seqs[i])
  BY <1>1, BeforeIsNat, BeforeIsSum
<1>3. CASE n = 0
  <2>1. flat = <<>>
    BY <1>3 DEF FlattenSeq
  <2> QED
    BY <1>2, <1>3, <2>1, EmptySeq DEF Flat
<1>4. CASE n # 0
  <2> DEFINE g == CHOOSE h : Joined(h, seqs, n)
             T == {m \in Nat : m \in 1..n =>
                     /\ g[m] \in Seq(S) /\ Len(g[m]) = B[m]
                     /\ \A i \in 1..m : \A k \in 1..Len(seqs[i]) : g[m][B[i - 1] + k] = seqs[i][k]}
  <2>1. Joined(g, seqs, n)
    BY JoinedExists
  <2>2. flat = g[n]
    <3>1. Len(seqs) = n
      OBVIOUS
    <3> QED
      BY <1>4, <3>1 DEF FlattenSeq, Joined
  <2> HIDE DEF g, B, flat
  <2>3. 0 \in T
    OBVIOUS
  <2>4. ASSUME NEW m \in Nat, m \in T PROVE m + 1 \in T
    <3> SUFFICES ASSUME m + 1 \in 1..n
                 PROVE  /\ g[m + 1] \in Seq(S) /\ Len(g[m + 1]) = B[m + 1]
                        /\ \A i \in 1..(m + 1) : \A k \in 1..Len(seqs[i]) :
                             g[m + 1][B[i - 1] + k] = seqs[i][k]
      OBVIOUS
    <3>1. CASE m = 0
      <4>1. g[1] = seqs[1]
        BY <2>1, <1>4 DEF Joined
      <4> QED
        BY <1>1, <1>2, <3>1, <4>1
    <3>2. CASE m # 0
      <4>1. g[m + 1] = g[m] \o seqs[m + 1]
        <5>1. m + 1 \in 1..n /\ m + 1 # 1 /\ (m + 1) - 1 = m
          BY <3>2
        <5> QED
          BY <2>1, <5>1 DEF Joined
      <4>2. /\ g[m] \in Seq(S) /\ Len(g[m]) = B[m]
            /\ \A i \in 1..m : \A k \in 1..Len(seqs[i]) : g[m][B[i - 1] + k] = seqs[i][k]
        BY <2>4, <3>2
      <4>3. /\ seqs[m + 1] \in Seq(S) /\ B[m + 1] = B[m] + Len(seqs[m + 1])
            /\ B[m] \in Nat /\ Len(seqs[m + 1]) \in Nat
        BY <1>1, <1>2
      <4>4. /\ g[m + 1] \in Seq(S) /\ Len(g[m + 1]) = B[m + 1]
            /\ \A k \in 1..B[m] : g[m + 1][k] = g[m][k]
            /\ \A k \in 1..Len(seqs[m + 1]) : g[m + 1][B[m] + k] = seqs[m + 1][k]
        <5> DEFINE a == g[m]
                   b == seqs[m + 1]
                   t == g[m + 1]
        <5>0. a \in Seq(S) /\ b \in Seq(S) /\ t = a \o b
          BY <4>1, <4>2, <4>3
        <5> HIDE DEF a, b, t, T
        <5>1. /\ t \in Seq(S) /\ Len(t) = Len(a) + Len(b)
              /\ \A k \in 1..Len(a) : t[k] = a[k]
              /\ \A k \in 1..Len(b) : t[Len(a) + k] = b[k]
          BY <5>0, ConcatIs
        <5>2. Len(a) = B[m] /\ B[m + 1] = B[m] + Len(b)
          BY <4>2, <4>3 DEF a, b
        <5>3. /\ t \in Seq(S) /\ Len(t) = B[m + 1]
              /\ \A k \in 1..B[m] : t[k] = a[k]
              /\ \A k \in 1..Len(b) : t[B[m] + k] = b[k]
          BY <5>1, <5>2, Zenon
        <5> QED
          BY <5>3 DEF a, b, t
      <4>5. ASSUME NEW i \in 1..m, NEW k \in 1..Len(seqs[i])
            PROVE  g[m + 1][B[i - 1] + k] = seqs[i][k]
        <5>1. /\ B[i] = B[i - 1] + Len(seqs[i]) /\ B[i] <= B[m]
              /\ B[i - 1] \in Nat /\ Len(seqs[i]) \in Nat
          BY <1>1, <1>2
        <5>2. B[i - 1] + k \in 1..B[m]
          BY <4>3, <5>1, Within
        <5> QED
          BY <4>2, <4>4, <5>2
      <4> QED
        BY <4>4, <4>5
    <3> QED
      BY <3>1, <3>2
  <2> HIDE DEF T
  <2>5. Nat \subseteq T
    BY <2>3, <2>4, Induction
  <2>6. n \in T
    BY <2>5
  <2>7. n \in 1..n
    BY <1>4
  <2>8. /\ g[n] \in Seq(S) /\ Len(g[n]) = B[n]
        /\ \A i \in 1..n : \A k \in 1..Len(seqs[i]) : g[n][B[i - 1] + k] = seqs[i][k]
    BY <2>6, <2>7 DEF T
  <2>9. \A i \in 0..n : B[i] \in Nat /\ B[i] <= B[n]
    BY <1>2
  <2> QED
    BY <1>2, <2>2, <2>8, <2>9 DEF flat, B, Flat
<1> QED
  BY <1>3, <1>4

\* What stands where in four sequences one after the other.
LEMMA Concat4Is ==
  ASSUME NEW S, NEW s \in Seq(S), NEW t \in Seq(S), NEW u \in Seq(S), NEW v \in Seq(S),
         NEW w, w = s \o t \o u \o v
  PROVE  /\ w \in Seq(S) /\ Len(w) = Len(s) + Len(t) + Len(u) + Len(v)
         /\ \A k \in 1..Len(s) : w[k] = s[k]
         /\ \A k \in 1..Len(t) : w[Len(s) + k] = t[k]
         /\ \A k \in 1..Len(u) : w[Len(s) + Len(t) + k] = u[k]
         /\ \A k \in 1..Len(v) : w[Len(s) + Len(t) + Len(u) + k] = v[k]
<1> DEFINE a == s \o t
           b == a \o u
<1>0. Len(s) \in Nat /\ Len(t) \in Nat /\ Len(u) \in Nat /\ Len(v) \in Nat
  OBVIOUS
<1>1. /\ a \in Seq(S) /\ Len(a) = Len(s) + Len(t)
      /\ \A k \in 1..Len(s) : a[k] = s[k]
      /\ \A k \in 1..Len(t) : a[Len(s) + k] = t[k]
  BY ConcatIs
<1>a. a \in Seq(S)
  BY <1>1
<1> HIDE DEF a
<1>2. /\ b \in Seq(S) /\ Len(b) = Len(a) + Len(u)
      /\ \A k \in 1..Len(a) : b[k] = a[k]
      /\ \A k \in 1..Len(u) : b[Len(a) + k] = u[k]
  BY <1>a, ConcatIs
<1>b. b \in Seq(S)
  BY <1>2
<1> HIDE DEF b
<1>3. /\ w \in Seq(S) /\ Len(w) = Len(b) + Len(v)
      /\ \A k \in 1..Len(b) : w[k] = b[k]
      /\ \A k \in 1..Len(v) : w[Len(b) + k] = v[k]
  <2>1. w = b \o v
    BY DEF b, a
  <2> QED
    BY <1>b, <2>1, ConcatIs
<1>4. Len(w) = Len(s) + Len(t) + Len(u) + Len(v)
  BY <1>0, <1>1, <1>2, <1>3
<1>5. ASSUME NEW k \in 1..Len(s) PROVE w[k] = s[k]
  <2>1. k \in 1..Len(a) /\ k \in 1..Len(b)
    BY <1>0, <1>1, <1>2
  <2> QED
    BY <1>1, <1>2, <1>3, <2>1
<1>6. ASSUME NEW k \in 1..Len(t) PROVE w[Len(s) + k] = t[k]
  <2>1. Len(s) + k \in 1..Len(a) /\ Len(s) + k \in 1..Len(b)
    BY <1>0, <1>1, <1>2
  <2> QED
    BY <1>1, <1>2, <1>3, <2>1
<1>7. ASSUME NEW k \in 1..Len(u) PROVE w[Len(s) + Len(t) + k] = u[k]
  <2>1. Len(a) + k \in 1..Len(b) /\ Len(a) + k = Len(s) + Len(t) + k
    BY <1>0, <1>1, <1>2
  <2> QED
    BY <1>2, <1>3, <2>1
<1>8. ASSUME NEW k \in 1..Len(v) PROVE w[Len(s) + Len(t) + Len(u) + k] = v[k]
  <2>1. Len(b) + k = Len(s) + Len(t) + Len(u) + k
    BY <1>0, <1>1, <1>2
  <2> QED
    BY <1>3, <2>1
<1> QED
  BY <1>3, <1>4, <1>5, <1>6, <1>7, <1>8

\* w is the five sequences one after the other.
Five(w, s, t, u, v, x) ==
  /\ Len(w) = Len(s) + Len(t) + Len(u) + Len(v) + Len(x)
  /\ \A k \in 1..Len(s) : w[k] = s[k]
  /\ \A k \in 1..Len(t) : w[Len(s) + k] = t[k]
  /\ \A k \in 1..Len(u) : w[Len(s) + Len(t) + k] = u[k]
  /\ \A k \in 1..Len(v) : w[Len(s) + Len(t) + Len(u) + k] = v[k]
  /\ \A k \in 1..Len(x) : w[Len(s) + Len(t) + Len(u) + Len(v) + k] = x[k]

\* What stands where in five sequences one after the other.
LEMMA Concat5Is ==
  ASSUME NEW S, NEW s \in Seq(S), NEW t \in Seq(S), NEW u \in Seq(S), NEW v \in Seq(S),
         NEW x \in Seq(S), NEW w, w = s \o t \o u \o v \o x
  PROVE  w \in Seq(S) /\ Five(w, s, t, u, v, x)
<1> DEFINE a == s \o t \o u \o v
<1>0. Len(s) \in Nat /\ Len(t) \in Nat /\ Len(u) \in Nat /\ Len(v) \in Nat /\ Len(x) \in Nat
  OBVIOUS
<1>1. /\ a \in Seq(S) /\ Len(a) = Len(s) + Len(t) + Len(u) + Len(v)
      /\ \A k \in 1..Len(s) : a[k] = s[k]
      /\ \A k \in 1..Len(t) : a[Len(s) + k] = t[k]
      /\ \A k \in 1..Len(u) : a[Len(s) + Len(t) + k] = u[k]
      /\ \A k \in 1..Len(v) : a[Len(s) + Len(t) + Len(u) + k] = v[k]
  BY Concat4Is
<1>a. a \in Seq(S)
  BY <1>1
<1> HIDE DEF a
<1>2. /\ w \in Seq(S) /\ Len(w) = Len(a) + Len(x)
      /\ \A k \in 1..Len(a) : w[k] = a[k]
      /\ \A k \in 1..Len(x) : w[Len(a) + k] = x[k]
  <2>1. w = a \o x
    BY DEF a
  <2> QED
    BY <1>a, <2>1, ConcatIs
<1>3. Len(w) = Len(s) + Len(t) + Len(u) + Len(v) + Len(x)
  BY <1>0, <1>1, <1>2
<1>5. ASSUME NEW k \in 1..Len(s) PROVE w[k] = s[k]
  <2>1. k \in 1..Len(a)
    BY <1>0, <1>1
  <2> QED
    BY <1>1, <1>2, <2>1
<1>6. ASSUME NEW k \in 1..Len(t) PROVE w[Len(s) + k] = t[k]
  <2>1. Len(s) + k \in 1..Len(a)
    BY <1>0, <1>1
  <2> QED
    BY <1>1, <1>2, <2>1
<1>7. ASSUME NEW k \in 1..Len(u) PROVE w[Len(s) + Len(t) + k] = u[k]
  <2>1. Len(s) + Len(t) + k \in 1..Len(a)
    BY <1>0, <1>1
  <2> QED
    BY <1>1, <1>2, <2>1
<1>8. ASSUME NEW k \in 1..Len(v) PROVE w[Len(s) + Len(t) + Len(u) + k] = v[k]
  <2>1. Len(s) + Len(t) + Len(u) + k \in 1..Len(a)
    BY <1>0, <1>1
  <2> QED
    BY <1>1, <1>2, <2>1
<1>9. ASSUME NEW k \in 1..Len(x) PROVE w[Len(s) + Len(t) + Len(u) + Len(v) + k] = x[k]
  <2>1. Len(a) + k = Len(s) + Len(t) + Len(u) + Len(v) + k
    BY <1>0, <1>1
  <2> QED
    BY <1>2, <2>1
<1> QED
  BY <1>2, <1>3, <1>5, <1>6, <1>7, <1>8, <1>9 DEF Five

-----------------------------------------------------------------------------
(* The tokens of a reply. *)

Plans == [1..Depth -> Replies]
Kinds == {"status", "length", "chunked", "gzip", "close", "other", "blank",
          "digit", "cr", "lf", "data", "zipped"}
Tokens == [kind : Kinds, of : Int, n : Int]

InterimLen(p, i) == IF p[i].interim THEN 3 ELSE 0
LengthLines(p, i) == IF p[i].framing \in {"length", "chunked"} THEN 1 ELSE 0
GzipLines(p, i) == IF p[i].gzip THEN 1 ELSE 0
CloseLines(p, i) == IF p[i].close THEN 1 ELSE 0
FieldLen(p, i) == LengthLines(p, i) + GzipLines(p, i) + CloseLines(p, i)

\* The parts of a reply.
LEMMA ReplyIs ==
  ASSUME NEW p \in Plans, NEW i \in 1..Depth
  PROVE  /\ p[i].head \in BOOLEAN /\ p[i].interim \in BOOLEAN
         /\ p[i].close \in BOOLEAN /\ p[i].gzip \in BOOLEAN
         /\ p[i].framing \in {"none", "length", "chunked", "garbled"}
         /\ p[i].chunks \in Seq(1..255) /\ p[i].chunks \in Seq(Nat)
         /\ Len(p[i].chunks) \in Nat /\ DOMAIN p[i].chunks = 1..Len(p[i].chunks)
         /\ \A c \in 1..Len(p[i].chunks) : p[i].chunks[c] \in 1..255
         /\ p[i].framing \in {"none", "garbled"} => p[i].chunks = <<>>
<1> DEFINE r == p[i]
<1>1. r \in Replies
  BY DEF Plans
<1> HIDE DEF r
<1>2. /\ {r.head, r.interim, r.close, r.gzip} \subseteq BOOLEAN
      /\ r.framing \in {"none", "length", "chunked", "garbled"}
      /\ r.chunks \in Seq(1..255)
      /\ r.framing \in {"none", "garbled"} => r.chunks = <<>>
  BY <1>1, RepliesAssumption
<1>3. /\ r.head \in BOOLEAN /\ r.interim \in BOOLEAN
      /\ r.close \in BOOLEAN /\ r.gzip \in BOOLEAN
  BY <1>2
<1>4. /\ r.chunks \in Seq(Nat)
      /\ Len(r.chunks) \in Nat /\ DOMAIN r.chunks = 1..Len(r.chunks)
      /\ \A c \in 1..Len(r.chunks) : r.chunks[c] \in 1..255
  <2> DEFINE s == r.chunks
  <2>1. s \in Seq(1..255)
    BY <1>2
  <2> HIDE DEF s
  <2>2. Len(s) \in Nat /\ DOMAIN s = 1..Len(s) /\ \A c \in 1..Len(s) : s[c] \in 1..255
    BY <2>1, LenProperties, ElementOfSeq
  <2>3. s \in Seq(Nat)
    BY <2>1, SeqMonotonic, 1..255 \subseteq Nat
  <2> QED
    BY <2>2, <2>3 DEF s
<1> QED
  BY <1>2, <1>3, <1>4 DEF r

\* The bytes of a body, chunk by chunk.
LEMMA SizeIs ==
  ASSUME NEW p \in Plans, NEW i \in 1..Depth
  PROVE  LET s == p[i].chunks IN
         /\ Before(s)[0] = 0 /\ Before(s)[Len(s)] = Size(s) /\ Size(s) \in Nat
         /\ \A c \in 0..Len(s) : Before(s)[c] \in Nat
         /\ \A c \in 1..Len(s) : Before(s)[c] = Before(s)[c - 1] + s[c]
         /\ s = <<>> => Size(s) = 0
<1> DEFINE s == p[i].chunks
<1>1. s \in Seq(Nat) /\ Len(s) \in Nat
  BY ReplyIs
<1> HIDE DEF s
<1>2. /\ Before(s)[0] = 0
      /\ \A c \in 1..Len(s) : Before(s)[c] = Before(s)[c - 1] + s[c]
  BY <1>1, BeforeIsSum
<1>3. \A c \in 0..Len(s) : Before(s)[c] \in Nat
  BY <1>1, BeforeIsNat
<1>4. Before(s)[Len(s)] = Size(s) /\ Size(s) \in Nat
  BY <1>1, <1>3 DEF Size
<1>5. s = <<>> => Size(s) = 0
  BY <1>2 DEF Size
<1> QED
  BY <1>2, <1>3, <1>4, <1>5 DEF s

\* One line is a sequence of tokens.
LEMMA LineIs ==
  ASSUME NEW kind \in Kinds, NEW n \in Int
  PROVE  /\ <<Line(kind, n)>> \in Seq(Tokens) /\ Len(<<Line(kind, n)>>) = 1
         /\ <<Line(kind, n)>>[1] = Line(kind, n) /\ Line(kind, n) \in Tokens
BY DEF Line, Token, Tokens, Kinds

\* A line that is there or not is a sequence of tokens.
LEMMA OptionalLineIs ==
  ASSUME NEW kind \in Kinds, NEW n \in Int, NEW s, s \in {<<Line(kind, n)>>, <<>>}
  PROVE  /\ s \in Seq(Tokens)
         /\ s = <<>> => Len(s) = 0
         /\ s = <<Line(kind, n)>> => Len(s) = 1 /\ s[1] = Line(kind, n)
<1>1. CASE s = <<Line(kind, n)>>
  BY <1>1, LineIs
<1>2. CASE s = <<>>
  BY <1>2, EmptySeq
<1> QED
  BY <1>1, <1>2

\* Which header field stands at which line.
LEMMA FieldsAre ==
  ASSUME NEW p \in Plans, NEW i \in 1..Depth
  PROVE  LET s == Fields(p, i) IN
         /\ s \in Seq(Tokens) /\ Len(s) = FieldLen(p, i)
         /\ p[i].framing = "length" => s[1] = Line("length", Size(p[i].chunks))
         /\ p[i].framing = "chunked" => s[1] = Line("chunked", 0)
         /\ p[i].gzip => s[LengthLines(p, i) + 1] = Line("gzip", 0)
         /\ p[i].close => s[LengthLines(p, i) + GzipLines(p, i) + 1] = Line("close", 0)
<1> DEFINE a == If(p[i].framing = "length", <<Line("length", Size(p[i].chunks))>>)
           b == If(p[i].framing = "chunked", <<Line("chunked", 0)>>)
           c == If(p[i].gzip, <<Line("gzip", 0)>>)
           d == If(p[i].close, <<Line("close", 0)>>)
           s == Fields(p, i)
<1>0. p[i].gzip \in BOOLEAN /\ p[i].close \in BOOLEAN /\ Size(p[i].chunks) \in Int
  BY ReplyIs, SizeIs
<1>a. /\ a = (IF p[i].framing = "length" THEN <<Line("length", Size(p[i].chunks))>> ELSE <<>>)
      /\ b = (IF p[i].framing = "chunked" THEN <<Line("chunked", 0)>> ELSE <<>>)
      /\ c = (IF p[i].gzip THEN <<Line("gzip", 0)>> ELSE <<>>)
      /\ d = (IF p[i].close THEN <<Line("close", 0)>> ELSE <<>>)
      /\ s = a \o b \o c \o d
  BY DEF Fields, If
<1> HIDE DEF a, b, c, d, s
<1>1. /\ a \in Seq(Tokens) /\ Len(a) = (IF p[i].framing = "length" THEN 1 ELSE 0)
      /\ p[i].framing = "length" => a[1] = Line("length", Size(p[i].chunks))
  <2>1. a \in {<<Line("length", Size(p[i].chunks))>>, <<>>}
    BY <1>a
  <2> QED
    BY <1>0, <1>a, <2>1, OptionalLineIs DEF Kinds
<1>2. /\ b \in Seq(Tokens) /\ Len(b) = (IF p[i].framing = "chunked" THEN 1 ELSE 0)
      /\ p[i].framing = "chunked" => b[1] = Line("chunked", 0)
  <2>1. b \in {<<Line("chunked", 0)>>, <<>>}
    BY <1>a
  <2> QED
    BY <1>0, <1>a, <2>1, OptionalLineIs DEF Kinds
<1>3. /\ c \in Seq(Tokens) /\ Len(c) = (IF p[i].gzip THEN 1 ELSE 0)
      /\ p[i].gzip => c[1] = Line("gzip", 0)
  <2>1. c \in {<<Line("gzip", 0)>>, <<>>}
    BY <1>a
  <2> QED
    BY <1>0, <1>a, <2>1, OptionalLineIs DEF Kinds
<1>4. /\ d \in Seq(Tokens) /\ Len(d) = (IF p[i].close THEN 1 ELSE 0)
      /\ p[i].close => d[1] = Line("close", 0)
  <2>1. d \in {<<Line("close", 0)>>, <<>>}
    BY <1>a
  <2> QED
    BY <1>0, <1>a, <2>1, OptionalLineIs DEF Kinds
<1>5. s = a \o b \o c \o d
  BY <1>a
<1>6. /\ s \in Seq(Tokens) /\ Len(s) = Len(a) + Len(b) + Len(c) + Len(d)
      /\ \A k \in 1..Len(a) : s[k] = a[k]
      /\ \A k \in 1..Len(b) : s[Len(a) + k] = b[k]
      /\ \A k \in 1..Len(c) : s[Len(a) + Len(b) + k] = c[k]
      /\ \A k \in 1..Len(d) : s[Len(a) + Len(b) + Len(c) + k] = d[k]
  <2>1. a \in Seq(Tokens) /\ b \in Seq(Tokens) /\ c \in Seq(Tokens) /\ d \in Seq(Tokens)
    BY <1>1, <1>2, <1>3, <1>4
  <2> QED
    BY <1>5, <2>1, Concat4Is
<1>7. /\ Len(a) + Len(b) = LengthLines(p, i) /\ Len(c) = GzipLines(p, i)
      /\ Len(d) = CloseLines(p, i)
      /\ LengthLines(p, i) \in Nat /\ GzipLines(p, i) \in Nat
  BY <1>1, <1>2, <1>3, <1>4 DEF LengthLines, GzipLines, CloseLines
<1>8. s \in Seq(Tokens) /\ Len(s) = FieldLen(p, i)
  BY <1>6, <1>7 DEF FieldLen
<1>9. p[i].framing = "length" => s[1] = Line("length", Size(p[i].chunks))
  BY <1>1, <1>6
<1>10. p[i].framing = "chunked" => s[1] = Line("chunked", 0)
  BY <1>1, <1>2, <1>6
<1>11. p[i].gzip => s[LengthLines(p, i) + 1] = Line("gzip", 0)
  BY <1>3, <1>6, <1>7
<1>12. p[i].close => s[LengthLines(p, i) + GzipLines(p, i) + 1] = Line("close", 0)
  BY <1>4, <1>6, <1>7
<1> QED
  BY <1>8, <1>9, <1>10, <1>11, <1>12 DEF s

\* The three lines of an interim response.
LEMMA InterimIs ==
  ASSUME NEW p \in Plans, NEW i \in 1..Depth
  PROVE  LET s == Interim(p, i) IN
         /\ s \in Seq(Tokens) /\ Len(s) = InterimLen(p, i)
         /\ p[i].interim => s[1] = Line("status", 100) /\ s[2] = Line("other", 0)
                              /\ s[3] = Line("blank", 0)
<1>0. p[i].interim \in BOOLEAN
  BY ReplyIs
<1>1. /\ Line("status", 100) \in Tokens
      /\ Line("other", 0) \in Tokens /\ Line("blank", 0) \in Tokens
  BY DEF Line, Token, Tokens, Kinds
<1> DEFINE x == Line("status", 100)
           y == Line("other", 0)
           z == Line("blank", 0)
<1> HIDE DEF x, y, z
<1>2. <<x, y, z>> \in Seq(Tokens) /\ Len(<<x, y, z>>) = 3
  BY <1>1 DEF x, y, z
<1>3. <<x, y, z>>[1] = x /\ <<x, y, z>>[2] = y /\ <<x, y, z>>[3] = z
  OBVIOUS
<1>4. Interim(p, i) = IF p[i].interim THEN <<x, y, z>> ELSE <<>>
  BY DEF Interim, If, x, y, z
<1>5. CASE p[i].interim
  BY <1>2, <1>3, <1>4, <1>5 DEF InterimLen, x, y, z
<1>6. CASE ~p[i].interim
  BY <1>4, <1>6 DEF InterimLen
<1> QED
  BY <1>0, <1>5, <1>6

HexLen(z) == IF z > 15 THEN 2 ELSE 1

\* The one or two hex digits of a chunk size.
LEMMA HexIs ==
  ASSUME NEW z \in 0..255
  PROVE  /\ Hex(z) \in Seq(Tokens) /\ Len(Hex(z)) = HexLen(z)
         /\ z > 15 => /\ Hex(z)[1] = Token("digit", 0, z \div 16)
                       /\ Hex(z)[2] = Token("digit", 0, z % 16)
         /\ z <= 15 => Hex(z)[1] = Token("digit", 0, z)
<1> DEFINE x == Token("digit", 0, z \div 16)
           y == Token("digit", 0, z % 16)
<1>1. x \in Tokens /\ y \in Tokens
  BY DEF Token, Tokens, Kinds
<1>2. z <= 15 => y = Token("digit", 0, z)
  <2>1. z <= 15 => z % 16 = z
    OBVIOUS
  <2> QED
    BY <2>1
<1>3. Hex(z) = (IF z > 15 THEN <<x>> ELSE <<>>) \o <<y>>
  BY DEF Hex, If
<1> HIDE DEF x, y
<1>4. CASE z > 15
  <2>1. /\ <<x>> \in Seq(Tokens) /\ <<y>> \in Seq(Tokens)
        /\ Len(<<x>>) = 1 /\ <<x>>[1] = x /\ Len(<<y>>) = 1 /\ <<y>>[1] = y
    BY <1>1
  <2>2. Hex(z) = <<x>> \o <<y>>
    BY <1>3, <1>4
  <2> DEFINE s == <<x>>
             t == <<y>>
  <2> HIDE DEF s, t
  <2>3. /\ s \in Seq(Tokens) /\ t \in Seq(Tokens) /\ Hex(z) = s \o t
        /\ Len(s) = 1 /\ s[1] = x /\ Len(t) = 1 /\ t[1] = y
    BY <2>1, <2>2 DEF s, t
  <2>4. /\ s \o t \in Seq(Tokens) /\ Len(s \o t) = Len(s) + Len(t)
        /\ \A k \in 1..Len(s) : (s \o t)[k] = s[k]
        /\ \A k \in 1..Len(t) : (s \o t)[Len(s) + k] = t[k]
    <3>1. s \in Seq(Tokens) /\ t \in Seq(Tokens)
      BY <2>3
    <3> QED
      BY <3>1, ConcatIs
  <2>5. Hex(z) \in Seq(Tokens) /\ Len(Hex(z)) = 2 /\ Hex(z)[1] = x /\ Hex(z)[2] = y
    BY <2>3, <2>4
  <2> QED
    BY <1>4, <2>5 DEF HexLen, x, y
<1>5. CASE ~(z > 15)
  <2>1. <<y>> \in Seq(Tokens) /\ Len(<<y>>) = 1 /\ <<y>>[1] = y
    BY <1>1
  <2>2. Hex(z) = <<y>>
    BY <1>3, <1>5, <2>1, ConcatEmptySeq
  <2>3. Hex(z)[1] = Token("digit", 0, z)
    BY <1>2, <1>5, <2>1, <2>2
  <2> QED
    BY <1>5, <2>1, <2>2, <2>3 DEF HexLen
<1> QED
  BY <1>4, <1>5

\* The two tokens of CRLF.
LEMMA EndsOfLine ==
  /\ CRLF \in Seq(Tokens) /\ Len(CRLF) = 2
  /\ CRLF[1] = Token("cr", 0, 0) /\ CRLF[2] = Token("lf", 0, 0)
<1> DEFINE x == Token("cr", 0, 0)
           y == Token("lf", 0, 0)
<1>1. x \in Tokens /\ y \in Tokens
  BY DEF Token, Tokens, Kinds
<1>2. CRLF = <<x, y>>
  BY DEF CRLF
<1> HIDE DEF x, y
<1>3. <<x, y>> \in Seq(Tokens) /\ Len(<<x, y>>) = 2 /\ <<x, y>>[1] = x /\ <<x, y>>[2] = y
  BY <1>1
<1> QED
  BY <1>2, <1>3 DEF x, y

\* A byte of a body is a token.
LEMMA SentIs ==
  ASSUME NEW p \in Plans, NEW i \in 1..Depth, NEW k \in Int
  PROVE  Sent(p, i, k) \in Tokens
BY DEF Sent, Data, Token, Tokens, Kinds

\* A function on 1..n is a sequence of length n.
LEMMA FunctionIsSeq ==
  ASSUME NEW S, NEW n \in Nat, NEW s \in [1..n -> S]
  PROVE  s \in Seq(S) /\ Len(s) = n
OBVIOUS

\* What stands where in a chunk: digits, CRLF, bytes, CRLF.
LEMMA ChunkIs ==
  ASSUME NEW p \in Plans, NEW i \in 1..Depth, NEW c \in 1..Len(p[i].chunks)
  PROVE  LET z == p[i].chunks[c]
             h == HexLen(z)
             b == Before(p[i].chunks)[c - 1]
             s == Chunk(p, i, c) IN
         /\ s \in Seq(Tokens) /\ Len(s) = h + z + 4
         /\ \A k \in 1..h : s[k] = Hex(z)[k]
         /\ s[h + 1] = Token("cr", 0, 0) /\ s[h + 2] = Token("lf", 0, 0)
         /\ \A k \in 1..z : s[h + 2 + k] = Sent(p, i, b + k)
         /\ s[h + z + 3] = Token("cr", 0, 0) /\ s[h + z + 4] = Token("lf", 0, 0)
<1> DEFINE z == p[i].chunks[c]
           h == HexLen(z)
           b == Before(p[i].chunks)[c - 1]
           s == Chunk(p, i, c)
           t == Hex(z)
           u == CRLF
           v == [k \in 1..z |-> Sent(p, i, b + k)]
<1>1. z \in 1..255 /\ b \in Nat /\ h \in 1..2
  <2>1. z \in 1..255
    BY ReplyIs
  <2>2. c - 1 \in 0..Len(p[i].chunks)
    BY ReplyIs
  <2>3. b \in Nat
    BY <2>2, SizeIs
  <2> QED
    BY <2>1, <2>3 DEF HexLen
<1>2. /\ s = t \o u \o v \o u
      /\ t = Hex(z) /\ u = CRLF /\ v = [k \in 1..z |-> Sent(p, i, b + k)] /\ h = HexLen(z)
  BY DEF Chunk
<1> HIDE DEF z, h, b, s, t, u, v
<1>3. t \in Seq(Tokens) /\ Len(t) = h
  <2>1. z \in 0..255
    BY <1>1
  <2> QED
    BY <1>2, <2>1, HexIs
<1>4. u \in Seq(Tokens) /\ Len(u) = 2 /\ u[1] = Token("cr", 0, 0) /\ u[2] = Token("lf", 0, 0)
  BY <1>2, EndsOfLine
<1>5. v \in Seq(Tokens) /\ Len(v) = z /\ \A k \in 1..z : v[k] = Sent(p, i, b + k)
  <2>1. z \in Nat /\ b \in Nat
    BY <1>1
  <2>2. v = [k \in 1..z |-> Sent(p, i, b + k)]
    BY <1>2
  <2>3. \A k \in 1..z : v[k] = Sent(p, i, b + k) /\ Sent(p, i, b + k) \in Tokens
    BY <2>1, <2>2, SentIs
  <2>4. v \in [1..z -> Tokens]
    BY <2>2, <2>3
  <2> QED
    BY <2>1, <2>3, <2>4, FunctionIsSeq
<1>6. t \in Seq(Tokens) /\ u \in Seq(Tokens) /\ v \in Seq(Tokens)
  BY <1>3, <1>4, <1>5
<1>7. Len(t) = h /\ Len(u) = 2 /\ Len(v) = z
  BY <1>3, <1>4, <1>5
<1>8. /\ s \in Seq(Tokens) /\ Len(s) = Len(t) + Len(u) + Len(v) + Len(u)
      /\ \A k \in 1..Len(t) : s[k] = t[k]
      /\ \A k \in 1..Len(u) : s[Len(t) + k] = u[k]
      /\ \A k \in 1..Len(v) : s[Len(t) + Len(u) + k] = v[k]
      /\ \A k \in 1..Len(u) : s[Len(t) + Len(u) + Len(v) + k] = u[k]
  <2>1. s = t \o u \o v \o u
    BY <1>2
  <2> QED
    BY <1>6, <2>1, Concat4Is
<1>9. /\ s \in Seq(Tokens) /\ Len(s) = h + 2 + z + 2
      /\ \A k \in 1..h : s[k] = t[k]
      /\ \A k \in 1..2 : s[h + k] = u[k]
      /\ \A k \in 1..z : s[h + 2 + k] = v[k]
      /\ \A k \in 1..2 : s[h + 2 + z + k] = u[k]
  BY <1>7, <1>8, Zenon
<1>10. Len(s) = h + z + 4
  <2>1. Len(s) = h + 2 + z + 2
    BY <1>9
  <2> QED
    BY <1>1, <2>1
<1>11. s[h + 1] = Token("cr", 0, 0) /\ s[h + 2] = Token("lf", 0, 0)
  BY <1>4, <1>9
<1>12. s[h + z + 3] = Token("cr", 0, 0) /\ s[h + z + 4] = Token("lf", 0, 0)
  <2>1. h + 2 + z + 1 = h + z + 3 /\ h + 2 + z + 2 = h + z + 4
    BY <1>1
  <2> QED
    BY <1>4, <1>9, <2>1
<1> QED
  BY <1>2, <1>5, <1>9, <1>10, <1>11, <1>12 DEF z, h, b, s

Chunks(p, i) == [c \in DOMAIN p[i].chunks |-> Chunk(p, i, c)]
ChunkBegin(p, i, c) == Before(Lens(Chunks(p, i)))[c - 1]

\* What stands where in a body that is not chunked.
LEMMA LengthBodyIs ==
  ASSUME NEW p \in Plans, NEW i \in 1..Depth, ~p[i].head, p[i].framing # "chunked"
  PROVE  /\ SentBody(p, i) \in Seq(Tokens) /\ Len(SentBody(p, i)) = Size(p[i].chunks)
         /\ \A k \in 1..Size(p[i].chunks) : SentBody(p, i)[k] = Sent(p, i, k)
<1> DEFINE n == Size(p[i].chunks)
           s == SentBody(p, i)
<1>1. n \in Nat
  BY SizeIs
<1>2. s = [k \in 1..n |-> Sent(p, i, k)]
  BY DEF SentBody
<1> HIDE DEF n, s
<1>3. \A k \in 1..n : s[k] = Sent(p, i, k) /\ Sent(p, i, k) \in Tokens
  BY <1>2, SentIs
<1>4. s \in [1..n -> Tokens]
  BY <1>2, <1>3
<1>5. s \in Seq(Tokens) /\ Len(s) = n
  BY <1>1, <1>4, FunctionIsSeq
<1> QED
  BY <1>3, <1>5 DEF n, s

\* The reply to a HEAD request has no body.
LEMMA HeadBodyIs ==
  ASSUME NEW p \in Plans, NEW i \in 1..Depth, p[i].head
  PROVE  SentBody(p, i) \in Seq(Tokens) /\ Len(SentBody(p, i)) = 0
<1>1. SentBody(p, i) = <<>>
  BY DEF SentBody
<1> QED
  BY <1>1, EmptySeq

ChunkLen(p, i, c) == HexLen(p[i].chunks[c]) + p[i].chunks[c] + 4
ChunksEnd(p, i) == ChunkBegin(p, i, Len(p[i].chunks) + 1)

\* What stands where in a chunked body: the chunks, then the last one.
LEMMA ChunkedBodyIs ==
  ASSUME NEW p \in Plans, NEW i \in 1..Depth, ~p[i].head, p[i].framing = "chunked"
  PROVE  /\ SentBody(p, i) \in Seq(Tokens)
         /\ ChunksEnd(p, i) \in Nat /\ Len(SentBody(p, i)) = ChunksEnd(p, i) + 5
         /\ ChunkBegin(p, i, 1) = 0
         /\ \A c \in 1..Len(p[i].chunks) :
              /\ ChunkBegin(p, i, c) \in Nat /\ ChunkBegin(p, i, c + 1) \in Nat
              /\ ChunkBegin(p, i, c + 1) = ChunkBegin(p, i, c) + ChunkLen(p, i, c)
              /\ ChunkBegin(p, i, c + 1) <= ChunksEnd(p, i)
              /\ \A k \in 1..ChunkLen(p, i, c) :
                   SentBody(p, i)[ChunkBegin(p, i, c) + k] = Chunk(p, i, c)[k]
         /\ SentBody(p, i)[ChunksEnd(p, i) + 1] = Token("digit", 0, 0)
         /\ SentBody(p, i)[ChunksEnd(p, i) + 2] = Token("cr", 0, 0)
         /\ SentBody(p, i)[ChunksEnd(p, i) + 3] = Token("lf", 0, 0)
         /\ SentBody(p, i)[ChunksEnd(p, i) + 4] = Token("cr", 0, 0)
         /\ SentBody(p, i)[ChunksEnd(p, i) + 5] = Token("lf", 0, 0)
<1> DEFINE n == Len(p[i].chunks)
           q == Chunks(p, i)
           B == Before(Lens(q))
           end == B[n]
           t == FlattenSeq(q)
           u == Hex(0)
           v == CRLF
           s == SentBody(p, i)
<1>1. n \in Nat /\ q = [c \in 1..n |-> Chunk(p, i, c)]
  BY ReplyIs DEF Chunks
<1>2. \A c \in 1..n : Chunk(p, i, c) \in Seq(Tokens) /\ Len(Chunk(p, i, c)) = ChunkLen(p, i, c)
  BY ChunkIs DEF ChunkLen
<1>3. s = t \o u \o v \o v /\ u = Hex(0) /\ v = CRLF
  BY DEF SentBody, Chunks
<1> HIDE DEF n, q, u, v, s
<1>4. /\ q \in [1..n -> Seq(Tokens)]
      /\ \A c \in 1..n : q[c] = Chunk(p, i, c) /\ Len(q[c]) = ChunkLen(p, i, c)
  BY <1>1, <1>2
<1>5. t \in Seq(Tokens) /\ Flat(t, B, q, n)
  <2>1. n \in Nat /\ q \in [1..n -> Seq(Tokens)]
    BY <1>1, <1>4
  <2> QED
    BY <2>1, Flattened
<1> HIDE DEF t, B
<1>b. /\ Len(t) = B[n] /\ B[0] = 0
      /\ \A c \in 0..n : B[c] \in Nat /\ B[c] <= B[n]
      /\ \A c \in 1..n :
           /\ B[c] = B[c - 1] + Len(q[c])
           /\ \A k \in 1..Len(q[c]) : t[B[c - 1] + k] = q[c][k]
  BY <1>5 DEF Flat
<1>6. /\ u \in Seq(Tokens) /\ Len(u) = 1 /\ u[1] = Token("digit", 0, 0)
  <2>1. 0 \in 0..255 /\ HexLen(0) = 1
    BY DEF HexLen
  <2>2. u = Hex(0)
    BY <1>3
  <2>3. /\ Hex(0) \in Seq(Tokens) /\ Len(Hex(0)) = HexLen(0)
        /\ 0 <= 15 => Hex(0)[1] = Token("digit", 0, 0)
    BY <2>1, HexIs, Zenon
  <2>4. 0 <= 15
    OBVIOUS
  <2> QED
    BY <2>1, <2>2, <2>3, <2>4, Zenon
<1>7. v \in Seq(Tokens) /\ Len(v) = 2 /\ v[1] = Token("cr", 0, 0) /\ v[2] = Token("lf", 0, 0)
  BY <1>3, EndsOfLine
<1>8. t \in Seq(Tokens) /\ u \in Seq(Tokens) /\ v \in Seq(Tokens)
  BY <1>5, <1>6, <1>7
<1>9. /\ s \in Seq(Tokens) /\ Len(s) = Len(t) + Len(u) + Len(v) + Len(v)
      /\ \A k \in 1..Len(t) : s[k] = t[k]
      /\ \A k \in 1..Len(u) : s[Len(t) + k] = u[k]
      /\ \A k \in 1..Len(v) : s[Len(t) + Len(u) + k] = v[k]
      /\ \A k \in 1..Len(v) : s[Len(t) + Len(u) + Len(v) + k] = v[k]
  <2>1. s = t \o u \o v \o v
    BY <1>3
  <2> QED
    BY <1>8, <2>1, Concat4Is
<1>10. Len(t) = end /\ Len(u) = 1 /\ Len(v) = 2 /\ end \in Nat
  <2>1. n \in 0..n
    BY <1>1
  <2> QED
    BY <1>b, <1>6, <1>7, <2>1
<1> HIDE DEF end
<1>11. /\ s \in Seq(Tokens) /\ Len(s) = end + 1 + 2 + 2
       /\ \A k \in 1..end : s[k] = t[k]
       /\ \A k \in 1..1 : s[end + k] = u[k]
       /\ \A k \in 1..2 : s[end + 1 + k] = v[k]
       /\ \A k \in 1..2 : s[end + 1 + 2 + k] = v[k]
  BY <1>9, <1>10, Zenon
<1>12. /\ s[end + 1] = Token("digit", 0, 0)
       /\ s[end + 2] = Token("cr", 0, 0) /\ s[end + 3] = Token("lf", 0, 0)
       /\ s[end + 4] = Token("cr", 0, 0) /\ s[end + 5] = Token("lf", 0, 0)
  <2>1. /\ end + 1 + 1 = end + 2 /\ end + 1 + 2 = end + 3
        /\ end + 1 + 2 + 1 = end + 4 /\ end + 1 + 2 + 2 = end + 5
    BY <1>10
  <2>2. 1 \in 1..1 /\ 1 \in 1..2 /\ 2 \in 1..2
    OBVIOUS
  <2>3. /\ s[end + 1] = u[1] /\ s[end + 1 + 1] = v[1] /\ s[end + 1 + 2] = v[2]
        /\ s[end + 1 + 2 + 1] = v[1] /\ s[end + 1 + 2 + 2] = v[2]
    BY <1>11, <2>2, Zenon
  <2> QED
    BY <1>6, <1>7, <2>1, <2>3
<1>13. Len(s) = end + 5
  <2>1. Len(s) = end + 1 + 2 + 2
    BY <1>11
  <2> QED
    BY <1>10, <2>1
<1>14. ASSUME NEW c \in 1..n
       PROVE  /\ B[c - 1] \in Nat /\ B[c] \in Nat
              /\ B[c] = B[c - 1] + ChunkLen(p, i, c) /\ B[c] <= end
              /\ \A k \in 1..ChunkLen(p, i, c) : s[B[c - 1] + k] = Chunk(p, i, c)[k]
  <2>0. c - 1 \in 0..n /\ c \in 0..n
    BY <1>1
  <2>1. B[c - 1] \in Nat /\ B[c] \in Nat /\ B[c] <= B[n]
    BY <1>b, <2>0
  <2>2. /\ q[c] = Chunk(p, i, c) /\ Len(q[c]) = ChunkLen(p, i, c) /\ Len(q[c]) \in Nat
    BY <1>4
  <2>3. /\ B[c] = B[c - 1] + ChunkLen(p, i, c)
        /\ \A k \in 1..ChunkLen(p, i, c) : t[B[c - 1] + k] = Chunk(p, i, c)[k]
    BY <1>b, <2>2
  <2>4. end = B[n]
    BY DEF end
  <2>5. ChunkLen(p, i, c) \in Nat
    BY <2>2
  <2>6. ASSUME NEW k \in 1..ChunkLen(p, i, c) PROVE s[B[c - 1] + k] = Chunk(p, i, c)[k]
    <3>1. B[c - 1] + k \in 1..end
      <4> DEFINE x == B[c - 1]
                 y == B[c]
                 z == ChunkLen(p, i, c)
      <4>1. /\ x \in Nat /\ y \in Nat /\ z \in Nat /\ y = x + z
            /\ y <= end /\ k \in 1..z /\ end \in Nat
        BY <1>10, <2>1, <2>3, <2>4, <2>5
      <4> HIDE DEF x, y, z
      <4>2. x + k \in 1..end
        BY <4>1
      <4> QED
        BY <4>2 DEF x
    <3> QED
      BY <1>11, <2>3, <3>1
  <2> QED
    BY <2>1, <2>3, <2>4, <2>6
<1>15. /\ ChunksEnd(p, i) = end /\ ChunkBegin(p, i, 1) = 0
       /\ \A c \in 1..n : ChunkBegin(p, i, c) = B[c - 1] /\ ChunkBegin(p, i, c + 1) = B[c]
  <2>1. (n + 1) - 1 = n /\ 1 - 1 = 0 /\ \A c \in 1..n : (c + 1) - 1 = c
    BY <1>1
  <2>2. \A c : ChunkBegin(p, i, c) = B[c - 1]
    BY DEF ChunkBegin, B, q
  <2>3. B[0] = 0
    BY <1>b
  <2>4. ChunksEnd(p, i) = B[(n + 1) - 1]
    BY <2>2 DEF ChunksEnd, n
  <2> QED
    BY <2>1, <2>2, <2>3, <2>4 DEF end
<1>16. ASSUME NEW c \in 1..n
       PROVE  /\ ChunkBegin(p, i, c) \in Nat /\ ChunkBegin(p, i, c + 1) \in Nat
              /\ ChunkBegin(p, i, c + 1) = ChunkBegin(p, i, c) + ChunkLen(p, i, c)
              /\ ChunkBegin(p, i, c + 1) <= ChunksEnd(p, i)
              /\ \A k \in 1..ChunkLen(p, i, c) :
                   s[ChunkBegin(p, i, c) + k] = Chunk(p, i, c)[k]
  <2>1. /\ ChunkBegin(p, i, c) = B[c - 1] /\ ChunkBegin(p, i, c + 1) = B[c]
        /\ ChunksEnd(p, i) = end
    BY <1>15
  <2> QED
    BY <1>14, <2>1, Zenon
<1>17. /\ s \in Seq(Tokens) /\ ChunksEnd(p, i) \in Nat /\ Len(s) = ChunksEnd(p, i) + 5
       /\ ChunkBegin(p, i, 1) = 0
       /\ s[ChunksEnd(p, i) + 1] = Token("digit", 0, 0)
       /\ s[ChunksEnd(p, i) + 2] = Token("cr", 0, 0)
       /\ s[ChunksEnd(p, i) + 3] = Token("lf", 0, 0)
       /\ s[ChunksEnd(p, i) + 4] = Token("cr", 0, 0)
       /\ s[ChunksEnd(p, i) + 5] = Token("lf", 0, 0)
  BY <1>10, <1>11, <1>12, <1>13, <1>15, Zenon
<1> QED
  BY <1>16, <1>17 DEF n, s

\* A body is a sequence of tokens.
LEMMA SentBodyIs ==
  ASSUME NEW p \in Plans, NEW i \in 1..Depth
  PROVE  SentBody(p, i) \in Seq(Tokens)
<1>1. p[i].head \in BOOLEAN
  BY ReplyIs
<1> QED
  BY <1>1, HeadBodyIs, LengthBodyIs, ChunkedBodyIs

HeaderLen(p, i) == InterimLen(p, i) + FieldLen(p, i) + 3
FirstLine(p, i) == Line(IF p[i].framing = "garbled" THEN "other" ELSE "status", Status(i))

\* How many lines the parts of a header have.
LEMMA LinesAre ==
  ASSUME NEW p \in Plans, NEW i \in 1..Depth
  PROVE  /\ InterimLen(p, i) \in {0, 3} /\ LengthLines(p, i) \in {0, 1}
         /\ GzipLines(p, i) \in {0, 1} /\ CloseLines(p, i) \in {0, 1}
         /\ FieldLen(p, i) \in 0..3 /\ HeaderLen(p, i) \in 3..9
BY DEF InterimLen, LengthLines, GzipLines, CloseLines, FieldLen, HeaderLen

\* What stands where in a reply: the header lines, then the body.
LEMMA SentReplyIs ==
  ASSUME NEW p \in Plans, NEW i \in 1..Depth
  PROVE  LET a == InterimLen(p, i)
             f == FieldLen(p, i)
             h == HeaderLen(p, i)
             s == SentReply(p, i) IN
         /\ s \in Seq(Tokens) /\ Len(s) = h + Len(SentBody(p, i))
         /\ p[i].interim => s[1] = Line("status", 100) /\ s[2] = Line("other", 0)
                              /\ s[3] = Line("blank", 0)
         /\ s[a + 1] = FirstLine(p, i)
         /\ \A k \in 1..f : s[a + 1 + k] = Fields(p, i)[k]
         /\ s[a + f + 2] = Line("other", 0) /\ s[a + f + 3] = Line("blank", 0)
         /\ \A k \in 1..Len(SentBody(p, i)) : s[h + k] = SentBody(p, i)[k]
<1> DEFINE a == InterimLen(p, i)
           f == FieldLen(p, i)
           t == Interim(p, i)
           u == <<FirstLine(p, i)>>
           v == Fields(p, i)
           w == <<Line("other", 0), Line("blank", 0)>>
           x == SentBody(p, i)
           s == SentReply(p, i)
<1>1. s = t \o u \o v \o w \o x
  BY DEF SentReply, FirstLine
<1>2. /\ t \in Seq(Tokens) /\ Len(t) = a
      /\ p[i].interim => t[1] = Line("status", 100) /\ t[2] = Line("other", 0)
                           /\ t[3] = Line("blank", 0)
      /\ p[i].interim => a = 3
  BY InterimIs DEF InterimLen
<1>3. /\ u \in Seq(Tokens) /\ Len(u) = 1 /\ u[1] = FirstLine(p, i)
  <2>1. FirstLine(p, i) \in Tokens
    BY DEF FirstLine, Line, Token, Tokens, Kinds, Status
  <2> QED
    BY <2>1
<1>4. v \in Seq(Tokens) /\ Len(v) = f
  BY FieldsAre
<1>5. /\ w \in Seq(Tokens) /\ Len(w) = 2 /\ w[1] = Line("other", 0) /\ w[2] = Line("blank", 0)
  <2>1. Line("other", 0) \in Tokens /\ Line("blank", 0) \in Tokens
    BY DEF Line, Token, Tokens, Kinds
  <2> QED
    BY <2>1
<1>6. x \in Seq(Tokens) /\ Len(x) \in Nat
  <2>1. x \in Seq(Tokens)
    BY SentBodyIs
  <2> HIDE DEF x
  <2> QED
    BY <2>1
<1>7. a \in Nat /\ f \in Nat /\ HeaderLen(p, i) = a + 1 + f + 2
  BY LinesAre DEF HeaderLen
<1> HIDE DEF a, f, t, u, v, w, x, s
<1>8. s \in Seq(Tokens) /\ Five(s, t, u, v, w, x)
  <2>1. /\ t \in Seq(Tokens) /\ u \in Seq(Tokens) /\ v \in Seq(Tokens)
        /\ w \in Seq(Tokens) /\ x \in Seq(Tokens)
    BY <1>2, <1>3, <1>4, <1>5, <1>6
  <2> QED
    BY <1>1, <2>1, Concat5Is
<1>9. Len(t) = a /\ Len(u) = 1 /\ Len(v) = f /\ Len(w) = 2
  BY <1>2, <1>3, <1>4, <1>5
<1>10. /\ s \in Seq(Tokens) /\ Len(s) = a + 1 + f + 2 + Len(x)
       /\ \A k \in 1..a : s[k] = t[k]
       /\ \A k \in 1..1 : s[a + k] = u[k]
       /\ \A k \in 1..f : s[a + 1 + k] = v[k]
       /\ \A k \in 1..2 : s[a + 1 + f + k] = w[k]
       /\ \A k \in 1..Len(x) : s[a + 1 + f + 2 + k] = x[k]
  BY <1>8, <1>9, Zenon DEF Five
<1>11. s[a + 1] = FirstLine(p, i)
  BY <1>3, <1>10
<1>12. s[a + f + 2] = Line("other", 0) /\ s[a + f + 3] = Line("blank", 0)
  <2>1. a + 1 + f + 1 = a + f + 2 /\ a + 1 + f + 2 = a + f + 3
    BY <1>7
  <2>2. s[a + 1 + f + 1] = w[1] /\ s[a + 1 + f + 2] = w[2]
    <3>1. 1 \in 1..2 /\ 2 \in 1..2
      OBVIOUS
    <3> QED
      BY <1>10, <3>1, Zenon
  <2> QED
    BY <1>5, <2>1, <2>2
<1>13. p[i].interim => s[1] = Line("status", 100) /\ s[2] = Line("other", 0)
                         /\ s[3] = Line("blank", 0)
  <2> SUFFICES ASSUME p[i].interim
               PROVE  /\ s[1] = Line("status", 100)
                      /\ s[2] = Line("other", 0) /\ s[3] = Line("blank", 0)
    OBVIOUS
  <2>1. 1 \in 1..a /\ 2 \in 1..a /\ 3 \in 1..a
    BY <1>2
  <2> QED
    BY <1>2, <1>10, <2>1, Zenon
<1> QED
  BY <1>7, <1>10, <1>11, <1>12, <1>13, Zenon DEF a, f, v, x, s

Begin(p, i) == Before(Lens([j \in Replied(p) |-> SentReply(p, j)]))[i - 1]

\* The requests that get a reply are the first ones, up to the last or a
\* reply that closes the connection.
LEMMA RepliedIs ==
  ASSUME NEW p \in Plans
  PROVE  \E n \in 1..Depth :
           /\ Replied(p) = 1..n
           /\ n = Depth \/ p[n].close
           /\ \A i \in 1..(n - 1) : ~p[i].close
<1>0. Depth \in Nat \ {0} /\ \A i \in 1..Depth : p[i].close \in BOOLEAN
  BY RoomsAssumption, ReplyIs
<1> DEFINE S == {i \in 1..Depth : p[i].close}
<1>1. CASE S = {}
  <2>1. Replied(p) = 1..Depth
    BY <1>0, <1>1 DEF Replied
  <2>2. Depth \in 1..Depth /\ \A i \in 1..(Depth - 1) : ~p[i].close
    BY <1>0, <1>1
  <2> QED
    BY <2>1, <2>2
<1>2. CASE S # {}
  <2>1. S \subseteq Nat
    BY <1>0
  <2>2. PICK n \in S : \A j \in S : ~(<<j, n>> \in LessThan)
    BY <1>2, <2>1, LessThanIsWellFounded, WFMin
  <2>3. \A i \in 1..Depth : i < n => ~p[i].close
    <3> SUFFICES ASSUME NEW i \in 1..Depth, i < n, p[i].close PROVE FALSE
      BY <1>0
    <3>1. i \in S /\ n \in Nat /\ i \in Nat
      BY <2>1
    <3>2. <<i, n>> \in LessThan
      BY <3>1 DEF LessThan
    <3> QED
      BY <2>2, <3>1, <3>2
  <2>4. n \in 1..Depth /\ p[n].close
    BY <2>2
  <2> HIDE DEF S
  <2>5. ASSUME NEW i \in 1..Depth
        PROVE  (\A j \in 1..(i - 1) : ~p[j].close) <=> i <= n
    <3>1. ASSUME i <= n, NEW j \in 1..(i - 1) PROVE ~p[j].close
      <4>1. j \in 1..Depth /\ j < n
        BY <1>0, <2>4, <3>1
      <4> QED
        BY <2>3, <4>1
    <3>2. ASSUME ~(i <= n) PROVE n \in 1..(i - 1)
      BY <1>0, <2>4, <3>2
    <3> QED
      BY <2>4, <3>1, <3>2
  <2>6. Replied(p) = 1..n
    <3>1. \A i : i \in Replied(p) <=> i \in 1..Depth /\ i <= n
      BY <2>5 DEF Replied
    <3>2. \A i : i \in 1..Depth /\ i <= n <=> i \in 1..n
      BY <1>0, <2>4
    <3> QED
      BY <3>1, <3>2
  <2>7. \A i \in 1..(n - 1) : ~p[i].close
    BY <1>0, <2>3, <2>4
  <2> QED
    BY <2>4, <2>6, <2>7
<1> QED
  BY <1>1, <1>2

\* What stands where in the stream: the replies, one after the other.
LEMMA SentAllIs ==
  ASSUME NEW p \in Plans
  PROVE  /\ SentAll(p) \in Seq(Tokens)
         /\ 1 \in Replied(p) /\ Begin(p, 1) = 0
         /\ \A i \in Replied(p) :
              /\ i \in 1..Depth /\ Begin(p, i) \in Nat /\ Begin(p, i + 1) \in Nat
              /\ Begin(p, i + 1) = Begin(p, i) + HeaderLen(p, i) + Len(SentBody(p, i))
              /\ Begin(p, i + 1) <= Len(SentAll(p))
              /\ \A k \in 1..(HeaderLen(p, i) + Len(SentBody(p, i))) :
                   SentAll(p)[Begin(p, i) + k] = SentReply(p, i)[k]
              /\ i = Depth \/ p[i].close => Begin(p, i + 1) = Len(SentAll(p))
              /\ i # Depth /\ ~p[i].close => i + 1 \in Replied(p)
<1>0. PICK n \in 1..Depth : /\ Replied(p) = 1..n
                            /\ n = Depth \/ p[n].close
                            /\ \A i \in 1..(n - 1) : ~p[i].close
  BY RepliedIs
<1>1. Depth \in Nat \ {0} /\ n \in Nat /\ n >= 1 /\ n <= Depth
  BY RoomsAssumption
<1> DEFINE q == [j \in Replied(p) |-> SentReply(p, j)]
           B == Before(Lens(q))
           t == SentAll(p)
           size(i) == HeaderLen(p, i) + Len(SentBody(p, i))
<1>2. \A i \in 1..n : SentReply(p, i) \in Seq(Tokens) /\ Len(SentReply(p, i)) = size(i)
  <2>1. \A i \in 1..n : i \in 1..Depth
    BY <1>1
  <2> QED
    BY <2>1, SentReplyIs
<1>3. q = [j \in 1..n |-> SentReply(p, j)] /\ t = FlattenSeq(q)
  BY <1>0 DEF SentAll
<1>4. \A i : Begin(p, i) = B[i - 1]
  BY DEF Begin
<1> HIDE DEF q, t, size
<1>5. q \in [1..n -> Seq(Tokens)] /\ \A i \in 1..n : q[i] = SentReply(p, i) /\ Len(q[i]) = size(i)
  BY <1>2, <1>3
<1>6. t \in Seq(Tokens) /\ Flat(t, B, q, n)
  <2>1. n \in Nat /\ q \in [1..n -> Seq(Tokens)]
    BY <1>1, <1>5
  <2>2. FlattenSeq(q) \in Seq(Tokens) /\ Flat(FlattenSeq(q), B, q, n)
    BY <2>1, Flattened
  <2> QED
    BY <1>3, <2>2
<1> HIDE DEF B
<1>7. /\ Len(t) = B[n] /\ B[0] = 0
      /\ \A i \in 0..n : B[i] \in Nat /\ B[i] <= B[n]
      /\ \A i \in 1..n :
           /\ B[i] = B[i - 1] + Len(q[i])
           /\ \A k \in 1..Len(q[i]) : t[B[i - 1] + k] = q[i][k]
  BY <1>6 DEF Flat
<1>8. ASSUME NEW i \in 1..n
      PROVE  /\ i \in 1..Depth /\ Begin(p, i) \in Nat /\ Begin(p, i + 1) \in Nat
             /\ Begin(p, i + 1) = Begin(p, i) + size(i)
             /\ Begin(p, i + 1) <= Len(t)
             /\ \A k \in 1..size(i) : t[Begin(p, i) + k] = SentReply(p, i)[k]
             /\ i = Depth \/ p[i].close => Begin(p, i + 1) = Len(t)
             /\ i # Depth /\ ~p[i].close => i + 1 \in 1..n
  <2>1. i \in 0..n /\ i - 1 \in 0..n /\ (i + 1) - 1 = i /\ i \in 1..Depth
    BY <1>1
  <2>2. Begin(p, i) = B[i - 1] /\ Begin(p, i + 1) = B[i]
    BY <1>4, <2>1
  <2>3. B[i - 1] \in Nat /\ B[i] \in Nat /\ B[i] <= Len(t)
    BY <1>7, <2>1
  <2>4. /\ B[i] = B[i - 1] + size(i)
        /\ \A k \in 1..size(i) : t[B[i - 1] + k] = SentReply(p, i)[k]
    BY <1>5, <1>7
  <2>5. i = Depth \/ p[i].close => i = n
    <3>1. i # n => i \in 1..(n - 1)
      BY <1>1
    <3>2. i = Depth => i = n
      BY <1>1
    <3> QED
      BY <1>0, <3>1, <3>2
  <2>6. i # Depth /\ ~p[i].close => i # n
    BY <1>0
  <2>7. i # n => i + 1 \in 1..n
    BY <1>1
  <2>8. Len(t) = B[n]
    BY <1>7
  <2> QED
    BY <2>1, <2>2, <2>3, <2>4, <2>5, <2>6, <2>7, <2>8, Zenon
<1>9. 1 \in Replied(p) /\ Begin(p, 1) = 0
  <2>1. 1 \in 1..n /\ 1 - 1 = 0
    BY <1>1
  <2> QED
    BY <1>0, <1>4, <1>7, <2>1
<1>10. \A i \in Replied(p) :
         /\ i \in 1..Depth /\ Begin(p, i) \in Nat /\ Begin(p, i + 1) \in Nat
         /\ Begin(p, i + 1) = Begin(p, i) + size(i)
         /\ Begin(p, i + 1) <= Len(t)
         /\ \A k \in 1..size(i) : t[Begin(p, i) + k] = SentReply(p, i)[k]
         /\ i = Depth \/ p[i].close => Begin(p, i + 1) = Len(t)
         /\ i # Depth /\ ~p[i].close => i + 1 \in Replied(p)
  BY <1>0, <1>8, Zenon
<1>11. ASSUME NEW i \in Replied(p)
       PROVE  Begin(p, i + 1) = Begin(p, i) + HeaderLen(p, i) + Len(SentBody(p, i))
  <2>1. i \in 1..Depth /\ Begin(p, i) \in Nat /\ Begin(p, i + 1) = Begin(p, i) + size(i)
    BY <1>10
  <2>2. HeaderLen(p, i) \in Nat /\ Len(SentBody(p, i)) \in Nat
    BY <2>1, LinesAre, SentBodyIs
  <2> QED
    BY <2>1, <2>2 DEF size
<1> QED
  BY <1>6, <1>9, <1>10, <1>11 DEF t, size

-----------------------------------------------------------------------------
(* Where recv is in a reply, and what it has read. *)

BodyBegin(p, i) == Begin(p, i) + HeaderLen(p, i)

Length(p, i) ==
  CASE p[i].framing = "length" -> Size(p[i].chunks)
    [] p[i].framing = "chunked" -> -1
    [] OTHER -> 0

Local(status, length, gzip, close, chunkSize, left, body) ==
  [status |-> status, length |-> length, gzip |-> gzip, close |-> close,
   chunkSize |-> chunkSize, left |-> left, body |-> body]

FieldsRead(p, i, k) ==
  Local(Status(i),
        IF k >= LengthLines(p, i) THEN Length(p, i) ELSE 0,
        IF k >= LengthLines(p, i) + GzipLines(p, i) THEN p[i].gzip ELSE FALSE,
        IF k >= FieldLen(p, i) THEN p[i].close ELSE FALSE,
        0, 0, <<>>)

InInterim(p, i) ==
  /\ p[i].interim
  /\ pos \in Begin(p, i) + 1 .. Begin(p, i) + 2
  /\ local = Local(100, 0, FALSE, FALSE, 0, 0, <<>>)

InFields(p, i) ==
  /\ p[i].framing # "garbled"
  /\ \E k \in 0..(FieldLen(p, i) + 1) :
       /\ pos = Begin(p, i) + InterimLen(p, i) + 1 + k
       /\ local = FieldsRead(p, i, k)

InHeader(p, i) ==
  /\ at = "header"
  /\ \/ pos \in {Begin(p, i), Begin(p, i) + InterimLen(p, i)} /\ local = Fresh
     \/ InInterim(p, i)
     \/ InFields(p, i)

\* The local variables of recv when it is called.
LEMMA FreshIs ==
  /\ Fresh = Local(0, 0, FALSE, FALSE, 0, 0, <<>>)
  /\ Fresh.status = 0
  /\ \A x : [Fresh EXCEPT !.status = x] = Local(x, 0, FALSE, FALSE, 0, 0, <<>>)
<1> DEFINE no == FALSE
           empty == <<>>
<1>1. Fresh = Local(0, 0, no, no, 0, 0, empty)
  BY DEF Fresh, Local
<1> HIDE DEF no, empty
<1>2. /\ Fresh.status = 0
      /\ \A x : [Fresh EXCEPT !.status = x] = Local(x, 0, no, no, 0, 0, empty)
  BY <1>1 DEF Local
<1> QED
  BY <1>1, <1>2 DEF no, empty

\* What each kind of header line does to the local variables.
LEMMA HeaderIs ==
  ASSUME NEW l, NEW t
  PROVE  /\ l.status = 0 /\ t.kind = "status" => Header(l, t) = [l EXCEPT !.status = t.n]
         /\ l.status # 0 /\ l.status # 100 =>
              /\ t.kind = "length" => Header(l, t) = [l EXCEPT !.length = t.n]
              /\ t.kind = "chunked" => Header(l, t) = [l EXCEPT !.length = -1]
              /\ t.kind = "gzip" => Header(l, t) = [l EXCEPT !.gzip = TRUE]
              /\ t.kind = "close" => Header(l, t) = [l EXCEPT !.close = TRUE]
         /\ t.kind = "other" => Header(l, t) = l
BY DEF Header

\* What stands where in the header of a response.
LEMMA HeaderTokens ==
  ASSUME NEW p \in Plans, NEW i \in Replied(p), NEW t, t = SentAll(p),
         NEW b, b = Begin(p, i)
  PROVE  LET a == InterimLen(p, i)
             l == LengthLines(p, i)
             g == GzipLines(p, i)
             f == FieldLen(p, i) IN
         /\ p[i].interim => /\ t[b + 1] = Line("status", 100)
                            /\ t[b + 2] = Line("other", 0)
                            /\ t[b + 3] = Line("blank", 0)
         /\ t[b + a + 1] = FirstLine(p, i)
         /\ p[i].framing = "length" => t[b + a + 2] = Line("length", Size(p[i].chunks))
         /\ p[i].framing = "chunked" => t[b + a + 2] = Line("chunked", 0)
         /\ p[i].gzip => t[b + a + l + 2] = Line("gzip", 0)
         /\ p[i].close => t[b + a + l + g + 2] = Line("close", 0)
         /\ t[b + a + f + 2] = Line("other", 0)
         /\ t[b + a + f + 3] = Line("blank", 0)
<1> DEFINE a == InterimLen(p, i)
           l == LengthLines(p, i)
           g == GzipLines(p, i)
           f == FieldLen(p, i)
           s == SentReply(p, i)
           n == HeaderLen(p, i) + Len(SentBody(p, i))
<1>1. i \in 1..Depth /\ b \in Nat /\ \A k \in 1..n : t[b + k] = s[k]
  BY SentAllIs
<1>2. /\ a \in {0, 3} /\ l \in {0, 1} /\ g \in {0, 1} /\ f = l + g + CloseLines(p, i)
      /\ CloseLines(p, i) \in {0, 1} /\ HeaderLen(p, i) = a + f + 3
      /\ Len(SentBody(p, i)) \in Nat
      /\ p[i].interim => a = 3
      /\ p[i].framing \in {"length", "chunked"} => l = 1
      /\ p[i].gzip => g = 1
      /\ p[i].close => CloseLines(p, i) = 1
  <2>1. a \in {0, 3} /\ l \in {0, 1} /\ g \in {0, 1} /\ CloseLines(p, i) \in {0, 1}
    BY <1>1, LinesAre
  <2>2. Len(SentBody(p, i)) \in Nat
    BY <1>1, SentBodyIs
  <2>3. /\ p[i].interim => a = 3
        /\ p[i].framing \in {"length", "chunked"} => l = 1
        /\ p[i].gzip => g = 1
        /\ p[i].close => CloseLines(p, i) = 1
    BY DEF InterimLen, LengthLines, GzipLines, CloseLines
  <2>4. f = l + g + CloseLines(p, i) /\ HeaderLen(p, i) = a + f + 3
    BY DEF FieldLen, HeaderLen
  <2> QED
    BY <2>1, <2>2, <2>3, <2>4, Zenon
<1>3. /\ p[i].interim => s[1] = Line("status", 100) /\ s[2] = Line("other", 0)
                           /\ s[3] = Line("blank", 0)
      /\ s[a + 1] = FirstLine(p, i)
      /\ \A k \in 1..f : s[a + 1 + k] = Fields(p, i)[k]
      /\ s[a + f + 2] = Line("other", 0) /\ s[a + f + 3] = Line("blank", 0)
  BY <1>1, SentReplyIs
<1>4. /\ p[i].framing = "length" => Fields(p, i)[1] = Line("length", Size(p[i].chunks))
      /\ p[i].framing = "chunked" => Fields(p, i)[1] = Line("chunked", 0)
      /\ p[i].gzip => Fields(p, i)[l + 1] = Line("gzip", 0)
      /\ p[i].close => Fields(p, i)[l + g + 1] = Line("close", 0)
  BY <1>1, FieldsAre
<1>d. /\ a \in Nat /\ f \in Nat /\ l \in Nat /\ g \in Nat /\ n \in Nat
      /\ n >= a + f + 3
      /\ p[i].interim => a = 3
      /\ p[i].framing \in {"length", "chunked"} => 1 <= f
      /\ p[i].gzip => l + 1 <= f
      /\ p[i].close => l + g + 1 <= f
  <2> HIDE DEF a, l, g, f
  <2>1. a \in Nat /\ f \in Nat /\ l \in Nat /\ g \in Nat /\ n \in Nat /\ n >= a + f + 3
    <3> DEFINE m == Len(SentBody(p, i))
               h == HeaderLen(p, i)
               c == CloseLines(p, i)
    <3>1. /\ a \in {0, 3} /\ l \in {0, 1} /\ g \in {0, 1} /\ c \in {0, 1} /\ m \in Nat
          /\ f = l + g + c /\ h = a + f + 3 /\ n = h + m
      BY <1>2
    <3> HIDE DEF m, h, c, n
    <3> QED
      BY <3>1
  <2>2. p[i].framing \in {"length", "chunked"} => 1 <= f
    BY <1>2
  <2>3. p[i].gzip => l + 1 <= f
    BY <1>2
  <2>4. p[i].close => l + g + 1 <= f
    BY <1>2
  <2> QED
    BY <1>2, <2>1, <2>2, <2>3, <2>4
<1> HIDE DEF a, l, g, f, s, n
<1>5. p[i].interim => /\ t[b + 1] = Line("status", 100)
                      /\ t[b + 2] = Line("other", 0)
                      /\ t[b + 3] = Line("blank", 0)
  <2> SUFFICES ASSUME p[i].interim
               PROVE  /\ t[b + 1] = Line("status", 100)
                      /\ t[b + 2] = Line("other", 0)
                      /\ t[b + 3] = Line("blank", 0)
    OBVIOUS
  <2>1. 1 \in 1..n /\ 2 \in 1..n /\ 3 \in 1..n
    BY <1>d
  <2> QED
    BY <1>1, <1>3, <2>1, Zenon
<1>6. t[b + a + 1] = FirstLine(p, i)
  <2>1. a + 1 \in 1..n /\ b + (a + 1) = b + a + 1
    BY <1>1, <1>d
  <2> QED
    BY <1>1, <1>3, <2>1, Zenon
<1>7. t[b + a + f + 2] = Line("other", 0) /\ t[b + a + f + 3] = Line("blank", 0)
  <2>1. /\ a + f + 2 \in 1..n /\ b + (a + f + 2) = b + a + f + 2
        /\ a + f + 3 \in 1..n /\ b + (a + f + 3) = b + a + f + 3
    BY <1>1, <1>d
  <2> QED
    BY <1>1, <1>3, <2>1, Zenon
<1>8. ASSUME NEW k \in 1..f PROVE t[b + a + k + 1] = Fields(p, i)[k]
  <2>1. a + 1 + k \in 1..n /\ b + (a + 1 + k) = b + a + k + 1
    BY <1>1, <1>d
  <2> QED
    BY <1>1, <1>3, <2>1, Zenon
<1>9. /\ p[i].framing = "length" => t[b + a + 2] = Line("length", Size(p[i].chunks))
      /\ p[i].framing = "chunked" => t[b + a + 2] = Line("chunked", 0)
  <2> SUFFICES ASSUME p[i].framing \in {"length", "chunked"}
               PROVE  t[b + a + 2] = Fields(p, i)[1]
    BY <1>4
  <2>1. 1 \in 1..f /\ b + a + 1 + 1 = b + a + 2
    BY <1>1, <1>d
  <2> QED
    BY <1>8, <2>1
<1>10. p[i].gzip => t[b + a + l + 2] = Line("gzip", 0)
  <2> SUFFICES ASSUME p[i].gzip
               PROVE  t[b + a + l + 2] = Fields(p, i)[l + 1]
    BY <1>4
  <2>1. l + 1 \in 1..f /\ b + a + (l + 1) + 1 = b + a + l + 2
    BY <1>1, <1>d
  <2> QED
    BY <1>8, <2>1
<1>11. p[i].close => t[b + a + l + g + 2] = Line("close", 0)
  <2> SUFFICES ASSUME p[i].close
               PROVE  t[b + a + l + g + 2] = Fields(p, i)[l + g + 1]
    BY <1>4
  <2>1. l + g + 1 \in 1..f /\ b + a + (l + g + 1) + 1 = b + a + l + g + 2
    BY <1>1, <1>d
  <2> QED
    BY <1>8, <2>1
<1> QED
  BY <1>5, <1>6, <1>7, <1>9, <1>10, <1>11 DEF a, l, g, f

\* ... and in its body.
LEMMA BodyTokens ==
  ASSUME NEW p \in Plans, NEW i \in Replied(p)
  PROVE  /\ i \in 1..Depth /\ BodyBegin(p, i) \in Nat /\ Len(SentBody(p, i)) \in Nat
         /\ Begin(p, i) \in Nat
         /\ BodyBegin(p, i) = Begin(p, i) + InterimLen(p, i) + FieldLen(p, i) + 3
         /\ BodyBegin(p, i) + Len(SentBody(p, i)) = Begin(p, i + 1)
         /\ \A k \in 1..Len(SentBody(p, i)) :
              SentAll(p)[BodyBegin(p, i) + k] = SentBody(p, i)[k]
<1> DEFINE b == Begin(p, i)
           h == HeaderLen(p, i)
           m == Len(SentBody(p, i))
           t == SentAll(p)
           s == SentReply(p, i)
<1>1. /\ i \in 1..Depth /\ b \in Nat /\ Begin(p, i + 1) = b + h + m
      /\ \A k \in 1..(h + m) : t[b + k] = s[k]
  BY SentAllIs
<1>2. h \in Nat /\ m \in Nat /\ h = InterimLen(p, i) + FieldLen(p, i) + 3
      /\ InterimLen(p, i) \in Nat /\ FieldLen(p, i) \in Nat
  <2>1. m \in Nat
    BY <1>1, SentBodyIs
  <2>2. h \in Nat /\ InterimLen(p, i) \in Nat /\ FieldLen(p, i) \in Nat
    BY <1>1, LinesAre
  <2> QED
    BY <2>1, <2>2 DEF HeaderLen
<1>3. \A k \in 1..m : s[h + k] = SentBody(p, i)[k]
  BY <1>1, SentReplyIs
<1>4. BodyBegin(p, i) = b + h
  BY DEF BodyBegin
<1> HIDE DEF b, h, m, t, s
<1>5. ASSUME NEW k \in 1..m PROVE t[b + h + k] = SentBody(p, i)[k]
  <2>1. h + k \in 1..(h + m) /\ b + (h + k) = b + h + k
    BY <1>1, <1>2
  <2> QED
    BY <1>1, <1>3, <2>1, Zenon
<1>6. /\ BodyBegin(p, i) \in Nat
      /\ BodyBegin(p, i) = b + InterimLen(p, i) + FieldLen(p, i) + 3
      /\ BodyBegin(p, i) + m = Begin(p, i + 1)
  BY <1>1, <1>2, <1>4
<1> QED
  BY <1>1, <1>2, <1>4, <1>5, <1>6, Zenon DEF b, m, t

-----------------------------------------------------------------------------
(* The header, line by line. *)

\* recv reads the next token; the numbers of a header are known.
LEMMA HeaderNumbers ==
  ASSUME NEW p \in Plans, NEW i \in Replied(p)
  PROVE  /\ i \in 1..Depth /\ Begin(p, i) \in Nat /\ Status(i) \in Nat
         /\ Status(i) # 0 /\ Status(i) # 100
         /\ InterimLen(p, i) \in {0, 3} /\ LengthLines(p, i) \in {0, 1}
         /\ GzipLines(p, i) \in {0, 1} /\ CloseLines(p, i) \in {0, 1}
         /\ FieldLen(p, i) = LengthLines(p, i) + GzipLines(p, i) + CloseLines(p, i)
<1>1. i \in 1..Depth /\ Begin(p, i) \in Nat
  BY SentAllIs
<1>2. Status(i) \in Nat /\ Status(i) # 0 /\ Status(i) # 100
  BY <1>1, RoomsAssumption DEF Status
<1> QED
  BY <1>1, <1>2, LinesAre DEF FieldLen

\* Behind the status line only the status is known.
LEMMA NoFieldsRead ==
  ASSUME NEW p \in Plans, NEW i \in Replied(p)
  PROVE  FieldsRead(p, i, 0) = Local(Status(i), 0, FALSE, FALSE, 0, 0, <<>>)
<1>1. p[i].gzip \in BOOLEAN /\ p[i].close \in BOOLEAN /\ i \in 1..Depth
  BY ReplyIs, HeaderNumbers
<1>2. (IF 0 >= LengthLines(p, i) THEN Length(p, i) ELSE 0) = 0
  BY DEF LengthLines, Length
<1>3. (IF 0 >= LengthLines(p, i) + GzipLines(p, i) THEN p[i].gzip ELSE FALSE) = FALSE
  <2>1. CASE p[i].gzip
    <3>1. GzipLines(p, i) = 1 /\ LengthLines(p, i) \in {0, 1}
      BY <2>1 DEF GzipLines, LengthLines
    <3> QED
      BY <3>1
  <2>2. CASE p[i].gzip = FALSE
    BY <2>2
  <2> QED
    BY <1>1, <2>1, <2>2
<1>4. (IF 0 >= FieldLen(p, i) THEN p[i].close ELSE FALSE) = FALSE
  <2>1. CASE p[i].close
    <3>1. /\ CloseLines(p, i) = 1 /\ GzipLines(p, i) \in {0, 1} /\ LengthLines(p, i) \in {0, 1}
          /\ FieldLen(p, i) = LengthLines(p, i) + GzipLines(p, i) + CloseLines(p, i)
      BY <2>1 DEF CloseLines, GzipLines, LengthLines, FieldLen
    <3> QED
      BY <3>1
  <2>2. CASE p[i].close = FALSE
    BY <2>2
  <2> QED
    BY <1>1, <2>1, <2>2
<1> QED
  BY <1>2, <1>3, <1>4, Zenon DEF FieldsRead

\* The kind and the number of a line.
LEMMA LineKinds ==
  ASSUME NEW kind, NEW n
  PROVE  Line(kind, n).kind = kind /\ Line(kind, n).n = n
BY DEF Line, Token

\* The line after the interim response, if there is one.
LEMMA FirstLineRead ==
  ASSUME NEW p \in Plans, NEW i \in Replied(p), stream = SentAll(p),
         pos = Begin(p, i) + InterimLen(p, i), local = Fresh, ReadHeader
  PROVE  InFields(p, i)'
<1>1. /\ pos' = pos + 1 /\ local' = Header(local, Here)
      /\ local.status = 0 => Here.kind \in {"status", "cr"}
  BY DEF ReadHeader, Reads
<1>2. Here = FirstLine(p, i)
  <2>1. stream[Begin(p, i) + InterimLen(p, i) + 1] = FirstLine(p, i)
    BY HeaderTokens
  <2> QED
    BY <2>1 DEF Here
<1>3. /\ Here.kind = (IF p[i].framing = "garbled" THEN "other" ELSE "status")
      /\ Here.n = Status(i)
  BY <1>2, LineKinds DEF FirstLine
<1>4. /\ local = Local(0, 0, FALSE, FALSE, 0, 0, <<>>) /\ local.status = 0
      /\ [local EXCEPT !.status = Status(i)] = Local(Status(i), 0, FALSE, FALSE, 0, 0, <<>>)
  BY FreshIs, Zenon
<1>5. p[i].framing # "garbled" /\ Here.kind = "status"
  BY <1>1, <1>3, <1>4
<1>6. local' = FieldsRead(p, i, 0)
  <2>1. local' = [local EXCEPT !.status = Status(i)]
    <3>1. local.status = 0 /\ Here.kind = "status"
      BY <1>4, <1>5
    <3>2. Header(local, Here) = [local EXCEPT !.status = Here.n]
      BY <3>1, HeaderIs
    <3> QED
      BY <1>1, <1>3, <3>2, Zenon
  <2> QED
    BY <1>4, <2>1, NoFieldsRead
<1>7. 0 \in 0..(FieldLen(p, i) + 1) /\ pos' = Begin(p, i) + InterimLen(p, i) + 1 + 0
  BY <1>1, HeaderNumbers
<1> QED
  BY <1>5, <1>6, <1>7 DEF InFields

\* A line of the header: what recv has read is what the lines so far say.
LEMMA FieldRead ==
  ASSUME NEW p \in Plans, NEW i \in Replied(p), stream = SentAll(p),
         InFields(p, i), ReadHeader
  PROVE  InFields(p, i)'
<1> DEFINE b == Begin(p, i)
           a == InterimLen(p, i)
           l == LengthLines(p, i)
           g == GzipLines(p, i)
           c == CloseLines(p, i)
           f == FieldLen(p, i)
<1>1. pos' = pos + 1 /\ local' = Header(local, Here) /\ ~EmptyLine(Here)
  BY DEF ReadHeader, Reads
<1>2. PICK k \in 0..(f + 1) : pos = b + a + 1 + k /\ local = FieldsRead(p, i, k)
  BY DEF InFields
<1>3. /\ b \in Nat /\ Status(i) # 0 /\ Status(i) # 100 /\ i \in 1..Depth
      /\ a \in {0, 3} /\ l \in {0, 1} /\ g \in {0, 1} /\ c \in {0, 1} /\ f = l + g + c
  BY HeaderNumbers
<1>4. /\ p[i].framing = "length" => stream[b + a + 2] = Line("length", Size(p[i].chunks))
      /\ p[i].framing = "chunked" => stream[b + a + 2] = Line("chunked", 0)
      /\ p[i].gzip => stream[b + a + l + 2] = Line("gzip", 0)
      /\ p[i].close => stream[b + a + l + g + 2] = Line("close", 0)
      /\ stream[b + a + f + 2] = Line("other", 0)
      /\ stream[b + a + f + 3] = Line("blank", 0)
  BY HeaderTokens
<1>5. /\ l = 1 => p[i].framing \in {"length", "chunked"}
      /\ l = 0 => Length(p, i) = 0
      /\ g = 1 => p[i].gzip
      /\ c = 1 => p[i].close
      /\ g = 0 => p[i].gzip = FALSE
      /\ c = 0 => p[i].close = FALSE
  <2>1. p[i].gzip \in BOOLEAN /\ p[i].close \in BOOLEAN
    BY <1>3, ReplyIs
  <2> QED
    BY <2>1 DEF LengthLines, GzipLines, CloseLines, Length
<1> DEFINE L(x) == IF x >= l THEN Length(p, i) ELSE 0
           G(x) == IF x >= l + g THEN p[i].gzip ELSE FALSE
           C(x) == IF x >= f THEN p[i].close ELSE FALSE
<1>6. \A x : FieldsRead(p, i, x) = Local(Status(i), L(x), G(x), C(x), 0, 0, <<>>)
  BY DEF FieldsRead
<1>7. Here = stream[b + a + k + 2]
  <2>1. pos + 1 = b + a + k + 2
    BY <1>2, <1>3
  <2> QED
    BY <2>1 DEF Here
<1>8. local = Local(Status(i), L(k), G(k), C(k), 0, 0, <<>>) /\ local.status = Status(i)
  <2>1. local = Local(Status(i), L(k), G(k), C(k), 0, 0, <<>>)
    BY <1>2, <1>6
  <2> HIDE DEF L, G, C
  <2> QED
    BY <2>1 DEF Local
<1>b. local.status # 0 /\ local.status # 100
  BY <1>3, <1>8
<1>9. /\ k \in Nat /\ k <= f + 1
  BY <1>3
<1>10. k # f + 1
  <2> SUFFICES ASSUME k = f + 1 PROVE FALSE
    OBVIOUS
  <2>1. b + a + k + 2 = b + a + f + 3
    BY <1>3
  <2>2. Here = Line("blank", 0)
    BY <1>4, <1>7, <2>1
  <2> QED
    BY <1>1, <2>2, LineKinds DEF EmptyLine
<1> HIDE DEF b, a, l, g, c, f, L, G, C
<1>11. local' = FieldsRead(p, i, k + 1)
  <2>1. CASE k = 0 /\ l = 1
    <3>0. /\ ~(k >= l) /\ k + 1 >= l /\ ~(k >= l + g) /\ ~(k >= f)
          /\ g = 1 => ~(k + 1 >= l + g)
          /\ c = 1 => ~(k + 1 >= f)
      BY <1>3, <2>1
    <3>1. L(k) = 0 /\ L(k + 1) = Length(p, i) /\ G(k) = FALSE /\ C(k) = FALSE
      BY <3>0 DEF L, G, C
    <3>2. (g = 0 => G(k + 1) = FALSE) /\ (g = 1 => G(k + 1) = FALSE)
      BY <1>5, <3>0 DEF G
    <3>3. C(k + 1) = FALSE
      <4>1. CASE c = 1
        BY <3>0, <4>1 DEF C
      <4>2. CASE c = 0
        BY <1>5, <4>2 DEF C
      <4> QED
        BY <1>3, <4>1, <4>2
    <3>4. b + a + k + 2 = b + a + 2
      BY <1>3, <2>1
    <3>5. Here.kind = p[i].framing /\ p[i].framing \in {"length", "chunked"}
          /\ (p[i].framing = "length" => Here.n = Length(p, i))
          /\ (p[i].framing = "chunked" => Length(p, i) = -1)
      BY <1>4, <1>5, <1>7, <2>1, <3>4, LineKinds DEF Length
    <3>6. local' = [local EXCEPT !.length = Length(p, i)]
      BY <1>1, <1>3, <1>8, <3>5, HeaderIs
    <3>7. [local EXCEPT !.length = Length(p, i)]
            = Local(Status(i), Length(p, i), G(k), C(k), 0, 0, <<>>)
      BY <1>8 DEF Local
    <3>8. G(k + 1) = G(k) /\ C(k + 1) = C(k)
      <4>1. G(k + 1) = FALSE
        BY <1>3, <3>2
      <4> QED
        BY <3>1, <3>3, <4>1
    <3>9. L(k + 1) = Length(p, i)
      BY <3>1
    <3> QED
      BY <1>6, <3>6, <3>7, <3>8, <3>9, Zenon
  <2>2. CASE k = l /\ g = 1
    <3>0. /\ k >= l /\ k + 1 >= l /\ ~(k >= l + g) /\ k + 1 >= l + g
          /\ c = 1 => ~(k >= f) /\ ~(k + 1 >= f)
      BY <1>3, <2>2
    <3>1. L(k) = Length(p, i) /\ L(k + 1) = Length(p, i) /\ G(k) = FALSE /\ G(k + 1) = p[i].gzip
      BY <3>0 DEF L, G
    <3>2. p[i].gzip = TRUE
      <4>1. p[i].gzip \in BOOLEAN
        BY <1>3, ReplyIs
      <4> QED
        BY <1>5, <2>2, <4>1
    <3>3. C(k) = FALSE /\ C(k + 1) = FALSE
      <4>1. CASE c = 1
        BY <3>0, <4>1 DEF C
      <4>2. CASE c = 0
        BY <1>5, <4>2 DEF C
      <4> QED
        BY <1>3, <4>1, <4>2
    <3>4. b + a + k + 2 = b + a + l + 2
      BY <2>2
    <3>5. Here.kind = "gzip"
      BY <1>4, <1>7, <3>2, <3>4, LineKinds
    <3>6. local' = [local EXCEPT !.gzip = TRUE]
      <4>1. Header(local, Here) = [local EXCEPT !.gzip = TRUE]
        BY <1>b, <3>5, HeaderIs
      <4> QED
        BY <1>1, <4>1, Zenon
    <3>7. [local EXCEPT !.gzip = TRUE] = Local(Status(i), L(k), TRUE, C(k), 0, 0, <<>>)
      <4>1. \A x : [local EXCEPT !.gzip = x] = Local(Status(i), L(k), x, C(k), 0, 0, <<>>)
        BY <1>8 DEF Local
      <4> QED
        BY <4>1, Zenon
    <3> QED
      BY <1>6, <3>1, <3>2, <3>3, <3>6, <3>7, Zenon
  <2>3. CASE k = l + g /\ c = 1
    <3>1. /\ L(k) = Length(p, i) /\ L(k + 1) = Length(p, i)
          /\ G(k) = p[i].gzip /\ G(k + 1) = p[i].gzip
          /\ C(k + 1) = p[i].close
      <4>1. k >= l /\ k + 1 >= l /\ k >= l + g /\ k + 1 >= l + g /\ k + 1 >= f
        BY <1>3, <2>3
      <4> QED
        BY <4>1 DEF L, G, C
    <3>2. p[i].close = TRUE
      <4>1. p[i].close \in BOOLEAN
        BY <1>3, ReplyIs
      <4> QED
        BY <1>5, <2>3, <4>1
    <3>4. b + a + k + 2 = b + a + l + g + 2
      BY <1>3, <2>3
    <3>5. Here.kind = "close"
      BY <1>4, <1>7, <3>2, <3>4, LineKinds
    <3>6. local' = [local EXCEPT !.close = TRUE]
      <4>1. Header(local, Here) = [local EXCEPT !.close = TRUE]
        BY <1>b, <3>5, HeaderIs
      <4> QED
        BY <1>1, <4>1, Zenon
    <3>7. [local EXCEPT !.close = TRUE] = Local(Status(i), L(k), G(k), TRUE, 0, 0, <<>>)
      <4>1. \A x : [local EXCEPT !.close = x] = Local(Status(i), L(k), G(k), x, 0, 0, <<>>)
        BY <1>8 DEF Local
      <4> QED
        BY <4>1, Zenon
    <3> QED
      BY <1>6, <3>1, <3>2, <3>6, <3>7, Zenon
  <2>4. CASE k = f
    <3>1. /\ L(k) = L(k + 1) /\ G(k) = G(k + 1) /\ C(k) = C(k + 1)
      <4>1. /\ k >= l /\ k + 1 >= l /\ k >= l + g /\ k + 1 >= l + g
            /\ k >= f /\ k + 1 >= f
        BY <1>3, <2>4
      <4> QED
        BY <4>1 DEF L, G, C
    <3>2. Here.kind = "other"
      BY <1>4, <1>7, <2>4, LineKinds
    <3>3. local' = local
      BY <1>1, <1>3, <1>8, <3>2, HeaderIs
    <3> QED
      BY <1>6, <1>8, <3>1, <3>3, Zenon
  <2> QED
    BY <1>3, <1>9, <1>10, <2>1, <2>2, <2>3, <2>4
<1>12. k + 1 \in 0..(f + 1) /\ pos' = b + a + 1 + (k + 1)
  BY <1>1, <1>2, <1>3, <1>9, <1>10
<1>13. p[i].framing # "garbled"
  BY DEF InFields
<1> QED
  BY <1>11, <1>12, <1>13 DEF InFields, b, a, f

\* A header line that is not blank leaves recv in the header of the reply.
LEMMA ReadHeaderKeeps ==
  ASSUME NEW p \in Plans, NEW i \in Replied(p), stream = SentAll(p),
         InHeader(p, i), ReadHeader
  PROVE  InHeader(p, i)'
<1> DEFINE b == Begin(p, i)
<1>1. /\ at' = "header" /\ pos' = pos + 1 /\ local' = Header(local, Here) /\ ~EmptyLine(Here)
  BY DEF ReadHeader, Reads, InHeader
<1>2. b \in Nat
  BY HeaderNumbers
<1>3. p[i].interim \in BOOLEAN /\ InterimLen(p, i) = IF p[i].interim THEN 3 ELSE 0
  BY HeaderNumbers, ReplyIs DEF InterimLen
<1>4. CASE pos = b + InterimLen(p, i) /\ local = Fresh
  BY <1>1, <1>4, FirstLineRead DEF InHeader
<1>5. CASE pos = b /\ local = Fresh /\ p[i].interim
  <2>1. Here = Line("status", 100)
    <3>1. stream[b + 1] = Line("status", 100)
      BY <1>5, HeaderTokens
    <3> QED
      BY <1>5, <3>1 DEF Here
  <2>2. local.status = 0 /\ [local EXCEPT !.status = 100] = Local(100, 0, FALSE, FALSE, 0, 0, <<>>)
    BY <1>5, FreshIs, Zenon
  <2>3. local' = Local(100, 0, FALSE, FALSE, 0, 0, <<>>)
    <3>1. Here.kind = "status" /\ Here.n = 100
      BY <2>1, LineKinds
    <3>2. Header(local, Here) = [local EXCEPT !.status = Here.n]
      BY <2>2, <3>1, HeaderIs
    <3> QED
      BY <1>1, <2>2, <3>1, <3>2, Zenon
  <2>4. pos' \in b + 1 .. b + 2
    BY <1>1, <1>2, <1>5
  <2> QED
    BY <1>1, <1>5, <2>3, <2>4 DEF InHeader, InInterim
<1>6. CASE InInterim(p, i)
  <2>1. stream[b + 2] = Line("other", 0) /\ stream[b + 3] = Line("blank", 0)
    BY <1>6, HeaderTokens DEF InInterim
  <2>2. pos \in b + 1 .. b + 2 /\ local = Local(100, 0, FALSE, FALSE, 0, 0, <<>>)
    BY <1>6 DEF InInterim
  <2>3. pos = b + 1
    <3> SUFFICES ASSUME pos = b + 2 PROVE FALSE
      BY <1>2, <2>2
    <3>1. pos + 1 = b + 3
      BY <1>2
    <3>2. Here.kind = "blank"
      BY <2>1, <3>1, LineKinds DEF Here
    <3> QED
      BY <1>1, <3>2 DEF EmptyLine
  <2>4. Here.kind = "other"
    <3>1. pos + 1 = b + 2
      BY <1>2, <2>3
    <3> QED
      BY <2>1, <3>1, LineKinds DEF Here
  <2>5. local.status = 100
    BY <2>2 DEF Local
  <2>6. local' = local
    BY <1>1, <2>4, <2>5, HeaderIs
  <2>7. pos' \in b + 1 .. b + 2
    BY <1>1, <1>2, <2>3
  <2> QED
    BY <1>1, <1>6, <2>2, <2>6, <2>7 DEF InHeader, InInterim
<1>7. CASE InFields(p, i)
  BY <1>1, <1>7, FieldRead DEF InHeader
<1>8. \/ pos \in {b, b + InterimLen(p, i)} /\ local = Fresh
      \/ InInterim(p, i)
      \/ InFields(p, i)
  BY DEF InHeader
<1>9. ~p[i].interim => b + InterimLen(p, i) = b
  BY <1>2, <1>3
<1> QED
  BY <1>4, <1>5, <1>6, <1>7, <1>8, <1>9

-----------------------------------------------------------------------------
(* The body. *)

\* The bytes of a body as they are sent, the first n of them.
Bytes(p, i, n) == [k \in 1..n |-> Sent(p, i, k)]

BodyRead(p, i, size, left, n) ==
  Local(Status(i), Length(p, i), p[i].gzip, p[i].close, size, left, Bytes(p, i, n))

InLength(p, i) ==
  /\ at = "block" /\ ~p[i].head /\ p[i].framing = "length"
  /\ \E n \in 0..(Size(p[i].chunks) - 1) :
       /\ pos = BodyBegin(p, i) + n
       /\ local = BodyRead(p, i, 0, Size(p[i].chunks) - n, n)

HexRead(z, o) == IF o = 0 THEN 0 ELSE IF o = 1 /\ z > 15 THEN z \div 16 ELSE z

InSize(p, i, c) ==
  /\ at = "chunk"
  /\ \E o \in 0..(HexLen(p[i].chunks[c]) + 1) :
       /\ pos = BodyBegin(p, i) + ChunkBegin(p, i, c) + o
       /\ local = BodyRead(p, i, HexRead(p[i].chunks[c], o), 0, Before(p[i].chunks)[c - 1])

DataBegin(p, i, c) == BodyBegin(p, i) + ChunkBegin(p, i, c) + HexLen(p[i].chunks[c]) + 2

InData(p, i, c) ==
  /\ at = "block"
  /\ \E n \in 0..(p[i].chunks[c] - 1) :
       /\ pos = DataBegin(p, i, c) + n
       /\ local = BodyRead(p, i, p[i].chunks[c], p[i].chunks[c] - n, Before(p[i].chunks)[c - 1] + n)

InDataEnd(p, i, c) ==
  /\ at = "chunk"
  /\ \E o \in 0..1 : pos = DataBegin(p, i, c) + p[i].chunks[c] + o
  /\ local = BodyRead(p, i, -1, 0, Before(p[i].chunks)[c])

InLastChunk(p, i) ==
  /\ at = "chunk"
  /\ \E o \in 0..4 :
       /\ pos = BodyBegin(p, i) + ChunksEnd(p, i) + o
       /\ local = BodyRead(p, i, IF o <= 2 THEN 0 ELSE -2, 0, Size(p[i].chunks))

InChunks(p, i) ==
  /\ ~p[i].head /\ p[i].framing = "chunked"
  /\ \/ \E c \in 1..Len(p[i].chunks) : InSize(p, i, c) \/ InData(p, i, c) \/ InDataEnd(p, i, c)
     \/ InLastChunk(p, i)

Answers == [status : Nat, body : Seq(Tokens)]

RecvInv ==
  /\ plan \in Plans /\ stream = SentAll(plan)
  /\ responses \in Seq(Answers)
  /\ at \in {"header", "block", "chunk", "done", "failed"}
  /\ at \in {"header", "block", "chunk"} =>
       \E i \in Replied(plan) :
         /\ i = Len(responses) + 1
         /\ InHeader(plan, i) \/ InLength(plan, i) \/ InChunks(plan, i)
  /\ OwnResponses /\ StreamAligned

Answer(p, i) ==
  [status |-> Status(i),
   body |-> IF p[i].head THEN <<>> ELSE [k \in 1..Size(p[i].chunks) |-> Data(i, k)]]

\* The answer meant is a response.
LEMMA AnswerIs ==
  ASSUME NEW p \in Plans, NEW i \in 1..Depth
  PROVE  Answer(p, i) \in Answers
<1>1. Status(i) \in Nat
  BY RoomsAssumption DEF Status
<1>2. p[i].head \in BOOLEAN /\ Size(p[i].chunks) \in Nat
  BY ReplyIs, SizeIs
<1> DEFINE s == [k \in 1..Size(p[i].chunks) |-> Data(i, k)]
<1>3. s \in Seq(Tokens)
  <2>1. \A k \in 1..Size(p[i].chunks) : Data(i, k) \in Tokens
    BY <1>2 DEF Data, Token, Tokens, Kinds
  <2>2. s \in [1..Size(p[i].chunks) -> Tokens]
    BY <2>1
  <2> QED
    BY <1>2, <2>2, FunctionIsSeq
<1> DEFINE body == IF p[i].head THEN <<>> ELSE s
<1>4. body \in Seq(Tokens)
  BY <1>2, <1>3, EmptySeq
<1> HIDE DEF s, body
<1>5. Answer(p, i) = [status |-> Status(i), body |-> body]
  BY DEF Answer, body, s
<1> QED
  BY <1>1, <1>4, <1>5 DEF Answers

\* A body that was read whole is the one meant.
LEMMA WholeBody ==
  ASSUME NEW p \in Plans, NEW i \in 1..Depth, NEW l,
         l.status = Status(i), l.gzip = p[i].gzip,
         l.body = IF p[i].head THEN <<>> ELSE Bytes(p, i, Size(p[i].chunks))
  PROVE  [status |-> l.status, body |-> IF l.gzip THEN Unzipped(l.body) ELSE l.body]
           = Answer(p, i)
<1> DEFINE n == Size(p[i].chunks)
           s == [k \in 1..n |-> Data(i, k)]
           t == Bytes(p, i, n)
<1>1. p[i].head \in BOOLEAN /\ p[i].gzip \in BOOLEAN
  BY ReplyIs
<1>2. CASE p[i].gzip
  <2>1. Unzipped(t) = s
    <3>1. t = [k \in 1..n |-> Token("zipped", i, k)]
      BY <1>2 DEF Bytes, Sent
    <3>2. \A k : [Token("zipped", i, k) EXCEPT !.kind = "data"] = Data(i, k)
      BY DEF Token, Data
    <3> HIDE DEF t, n
    <3>3. Unzipped(t) = [k \in 1..n |-> [Token("zipped", i, k) EXCEPT !.kind = "data"]]
      BY <3>1 DEF Unzipped
    <3> QED
      BY <3>2, <3>3
  <2>2. Unzipped(<<>>) = <<>>
    BY DEF Unzipped
  <2> HIDE DEF t, s
  <2>3. Unzipped(l.body) = IF p[i].head THEN <<>> ELSE s
    BY <1>1, <2>1, <2>2 DEF t
  <2> QED
    BY <1>2, <2>3 DEF Answer, s
<1>3. CASE ~p[i].gzip
  <2>1. t = s
    BY <1>3 DEF Bytes, Sent
  <2> HIDE DEF t, s
  <2>2. l.body = IF p[i].head THEN <<>> ELSE s
    BY <2>1 DEF t
  <2> QED
    BY <1>3, <2>2 DEF Answer, s
<1> QED
  BY <1>1, <1>2, <1>3

\* The end of a response: it is the right one, and the next one begins here.
LEMMA FinishKeeps ==
  ASSUME NEW p \in Plans, NEW i \in Replied(p), i = Len(responses) + 1,
         plan = p, plan' = p, stream = SentAll(p), stream' = SentAll(p),
         responses \in Seq(Answers), OwnResponses,
         NEW l, l.status = Status(i), l.gzip = p[i].gzip, l.close = p[i].close,
         l.body = IF p[i].head THEN <<>> ELSE Bytes(p, i, Size(p[i].chunks)),
         Finish(l), pos' = Begin(p, i + 1)
  PROVE  RecvInv'
<1>1. i \in 1..Depth /\ Depth \in Nat /\ Len(responses) \in Nat
  BY RoomsAssumption, SentAllIs
<1>2. /\ responses' = Append(responses, Answer(p, i))
      /\ at' = IF i = Depth \/ l.close THEN "done" ELSE "header"
      /\ local' = Fresh
  BY <1>1, WholeBody DEF Finish
<1>3. Answer(p, i) \in Answers
  BY <1>1, AnswerIs
<1>4. /\ responses' \in Seq(Answers) /\ Len(responses') = i
      /\ \A j \in 1..(i - 1) : responses'[j] = responses[j]
      /\ responses'[i] = Answer(p, i)
      /\ DOMAIN responses' = 1..i /\ DOMAIN responses = 1..(i - 1)
  BY <1>1, <1>2, <1>3
<1>5. OwnResponses'
  <2> SUFFICES ASSUME NEW j \in 1..i
               PROVE  /\ responses'[j].status = Status(j)
                      /\ responses'[j].body =
                           IF p[j].head THEN <<>> ELSE [k \in 1..Size(p[j].chunks) |-> Data(j, k)]
    BY <1>4 DEF OwnResponses
  <2>1. CASE j = i
    <3>1. responses'[j] = Answer(p, j)
      BY <1>4, <2>1
    <3> QED
      BY <3>1 DEF Answer
  <2>2. CASE j # i
    <3>1. j \in 1..(i - 1)
      BY <1>1, <2>2
    <3> QED
      BY <1>4, <3>1 DEF OwnResponses
  <2> QED
    BY <2>1, <2>2
<1>6. /\ i = Depth \/ p[i].close => Begin(p, i + 1) = Len(SentAll(p))
      /\ i # Depth /\ ~p[i].close => i + 1 \in Replied(p)
  BY SentAllIs
<1>7. CASE i = Depth \/ p[i].close
  <2>1. at' = "done" /\ pos' = Len(stream')
    BY <1>2, <1>6, <1>7
  <2> QED
    BY <1>4, <1>5, <2>1 DEF RecvInv, StreamAligned
<1>8. CASE ~(i = Depth \/ p[i].close)
  <2>1. at' = "header" /\ i + 1 \in Replied(p) /\ i + 1 = Len(responses') + 1
    BY <1>2, <1>4, <1>6, <1>8
  <2>2. InHeader(p, i + 1)'
    BY <1>2, <2>1 DEF InHeader
  <2> QED
    BY <1>4, <1>5, <2>1, <2>2 DEF RecvInv, StreamAligned
<1> QED
  BY <1>7, <1>8

-----------------------------------------------------------------------------
(* The end of the header. *)

\* No byte of a body is read before it begins.
LEMMA NoBytes ==
  ASSUME NEW p, NEW i
  PROVE  Bytes(p, i, 0) = <<>>
BY DEF Bytes

\* Once all lines of the header are read.
LEMMA AllFieldsRead ==
  ASSUME NEW p \in Plans, NEW i \in Replied(p)
  PROVE  FieldsRead(p, i, FieldLen(p, i) + 1) = BodyRead(p, i, 0, 0, 0)
<1> DEFINE l == LengthLines(p, i)
           g == GzipLines(p, i)
           c == CloseLines(p, i)
           f == FieldLen(p, i)
<1>1. l \in {0, 1} /\ g \in {0, 1} /\ c \in {0, 1} /\ f = l + g + c
  BY HeaderNumbers
<1>2. f + 1 >= l /\ f + 1 >= l + g /\ f + 1 >= f
  <2> HIDE DEF l, g, c, f
  <2> QED
    BY <1>1
<1> QED
  BY <1>2, NoBytes DEF FieldsRead, BodyRead

\* The local variables while a body is read, one by one.
LEMMA BodyReadIs ==
  ASSUME NEW p, NEW i, NEW size, NEW left, NEW n,
         NEW l, l = BodyRead(p, i, size, left, n)
  PROVE  /\ l.status = Status(i) /\ l.length = Length(p, i) /\ l.gzip = p[i].gzip
         /\ l.close = p[i].close /\ l.chunkSize = size /\ l.left = left /\ l.body = Bytes(p, i, n)
         /\ \A x : [l EXCEPT !.left = x] = BodyRead(p, i, size, x, n)
         /\ \A x : [l EXCEPT !.chunkSize = x] = BodyRead(p, i, x, left, n)
<1> DEFINE s == Status(i)
           m == Length(p, i)
           g == p[i].gzip
           c == p[i].close
           b == Bytes(p, i, n)
<1>1. /\ l = Local(s, m, g, c, size, left, b)
      /\ \A x : BodyRead(p, i, size, x, n) = Local(s, m, g, c, size, x, b)
      /\ \A x : BodyRead(p, i, x, left, n) = Local(s, m, g, c, x, left, b)
  BY DEF BodyRead
<1> HIDE DEF s, m, g, c, b
<1>2. /\ l.status = s /\ l.length = m /\ l.gzip = g
      /\ l.close = c /\ l.chunkSize = size /\ l.left = left /\ l.body = b
  BY <1>1 DEF Local
<1>3. \A x : [l EXCEPT !.left = x] = BodyRead(p, i, size, x, n)
  BY <1>1 DEF Local
<1>4. \A x : [l EXCEPT !.chunkSize = x] = BodyRead(p, i, x, left, n)
  BY <1>1 DEF Local
<1> QED
  BY <1>2, <1>3, <1>4 DEF s, m, g, c, b

Responding(p, i) == InHeader(p, i) \/ InLength(p, i) \/ InChunks(p, i)

\* A step that does not end the response.
LEMMA GoesOn ==
  ASSUME NEW p \in Plans, NEW i \in Replied(p), i = Len(responses) + 1,
         plan = p, plan' = p, stream = SentAll(p), stream' = SentAll(p),
         responses \in Seq(Answers), responses' = responses, OwnResponses,
         at' \in {"header", "block", "chunk"}, Responding(p, i)'
  PROVE  RecvInv'
<1>1. OwnResponses'
  BY DEF OwnResponses
<1>2. StreamAligned'
  BY DEF StreamAligned
<1>3. (InHeader(p, i) \/ InLength(p, i) \/ InChunks(p, i))'
  BY DEF Responding
<1>4. at' \in {"header", "block", "chunk", "done", "failed"}
  OBVIOUS
<1> QED
  BY <1>1, <1>2, <1>3, <1>4, Zenon DEF RecvInv

\* The blank line at the end of the header.
LEMMA HeaderEnds ==
  ASSUME NEW p \in Plans, NEW i \in Replied(p), i = Len(responses) + 1,
         plan = p, plan' = p, stream = SentAll(p), stream' = SentAll(p),
         responses \in Seq(Answers), OwnResponses,
         p[i].framing # "garbled",
         local = BodyRead(p, i, 0, 0, 0), pos' = BodyBegin(p, i), BodyStarts(local)
  PROVE  RecvInv'
<1> DEFINE n == Size(p[i].chunks)
<1>1. /\ i \in 1..Depth /\ BodyBegin(p, i) \in Nat
      /\ BodyBegin(p, i) + Len(SentBody(p, i)) = Begin(p, i + 1)
  BY BodyTokens
<1>2. /\ p[i].head \in BOOLEAN /\ n \in Nat
      /\ p[i].framing \in {"none", "length", "chunked", "garbled"}
      /\ p[i].framing \in {"none", "garbled"} => n = 0
  <2>1. /\ p[i].framing \in {"none", "length", "chunked", "garbled"} /\ p[i].head \in BOOLEAN
        /\ p[i].framing \in {"none", "garbled"} => p[i].chunks = <<>>
    BY <1>1, ReplyIs
  <2>2. n \in Nat /\ (p[i].chunks = <<>> => n = 0)
    BY <1>1, SizeIs
  <2> QED
    BY <2>1, <2>2
<1>3. /\ local.status = Status(i) /\ local.length = Length(p, i) /\ local.gzip = p[i].gzip
      /\ local.close = p[i].close /\ local.body = Bytes(p, i, 0)
      /\ \A x : [local EXCEPT !.left = x] = BodyRead(p, i, 0, x, 0)
  BY BodyReadIs
<1>4. /\ p[i].framing = "length" => Length(p, i) = n
      /\ p[i].framing = "chunked" => Length(p, i) = -1
      /\ p[i].framing = "none" => Length(p, i) = 0
  BY DEF Length
<1>5. ToHead = p[i].head
  BY DEF ToHead
<1> HIDE DEF n
<1>6. CASE p[i].head
  <2>1. Finish(local)
    BY <1>5, <1>6 DEF BodyStarts
  <2>2. local.body = <<>>
    BY <1>3, NoBytes
  <2>3. pos' = Begin(p, i + 1)
    <3>1. Len(SentBody(p, i)) = 0
      BY <1>1, <1>6, HeadBodyIs
    <3> QED
      BY <1>1, <3>1
  <2> QED
    BY <1>3, <1>6, <2>1, <2>2, <2>3, FinishKeeps
<1>7. CASE ~p[i].head /\ p[i].framing # "chunked" /\ n = 0
  <2>1. local.length = 0
    BY <1>2, <1>3, <1>4, <1>7
  <2>2. Finish(local)
    BY <2>1 DEF BodyStarts
  <2>3. local.body = Bytes(p, i, Size(p[i].chunks))
    BY <1>3, <1>7 DEF n
  <2>4. pos' = Begin(p, i + 1)
    <3>1. Len(SentBody(p, i)) = 0
      BY <1>1, <1>7, LengthBodyIs DEF n
    <3> QED
      BY <1>1, <3>1
  <2> QED
    BY <1>3, <1>7, <2>2, <2>3, <2>4, FinishKeeps
<1>8. CASE ~p[i].head /\ p[i].framing # "chunked" /\ n # 0
  <2>1. local.length = n /\ n > 0 /\ p[i].framing = "length"
    BY <1>2, <1>3, <1>4, <1>8
  <2>2. /\ at' = "block" /\ local' = [local EXCEPT !.left = local.length]
        /\ responses' = responses
    BY <1>5, <1>8, <2>1 DEF BodyStarts
  <2>3. local' = BodyRead(p, i, 0, n, 0)
    BY <1>3, <2>1, <2>2
  <2>4. 0 \in 0..(n - 1) /\ pos' = BodyBegin(p, i) + 0 /\ n - 0 = n
    BY <1>1, <1>2, <2>1
  <2>5. InLength(p, i)'
    BY <1>8, <2>1, <2>2, <2>3, <2>4 DEF InLength, n
  <2> QED
    BY <2>2, <2>5, GoesOn DEF Responding
<1>9. CASE ~p[i].head /\ p[i].framing = "chunked"
  <2>1. local.length = -1
    BY <1>3, <1>4, <1>9
  <2>2. at' = "chunk" /\ local' = local /\ responses' = responses
    BY <1>5, <1>9, <2>1 DEF BodyStarts
  <2>3. ChunkBegin(p, i, 1) = 0 /\ ChunksEnd(p, i) \in Nat
    BY <1>1, <1>9, ChunkedBodyIs
  <2>4. Len(p[i].chunks) \in Nat /\ \A c \in 1..Len(p[i].chunks) : p[i].chunks[c] \in 1..255
    BY <1>1, ReplyIs
  <2>5. Before(p[i].chunks)[0] = 0 /\ Before(p[i].chunks)[Len(p[i].chunks)] = n
    BY <1>1, SizeIs DEF n
  <2>6. CASE Len(p[i].chunks) = 0
    <3>1. ChunksEnd(p, i) = 0 /\ n = 0
      <4>1. Len(p[i].chunks) + 1 = 1
        BY <2>6
      <4> QED
        BY <2>3, <2>5, <2>6, <4>1 DEF ChunksEnd
    <3>2. pos' = BodyBegin(p, i) + ChunksEnd(p, i) + 0 /\ 0 \in 0..4 /\ 0 <= 2
      BY <1>1, <3>1
    <3>3. local' = BodyRead(p, i, IF 0 <= 2 THEN 0 ELSE -2, 0, Size(p[i].chunks))
      BY <2>2, <3>1, <3>2 DEF n
    <3>4. InLastChunk(p, i)'
      BY <2>2, <3>2, <3>3 DEF InLastChunk
    <3> QED
      BY <1>9, <2>2, <3>4, GoesOn DEF Responding, InChunks
  <2>7. CASE Len(p[i].chunks) # 0
    <3>1. 1 \in 1..Len(p[i].chunks)
      BY <2>4, <2>7
    <3>2. pos' = BodyBegin(p, i) + ChunkBegin(p, i, 1) + 0 /\ 0 \in 0..(HexLen(p[i].chunks[1]) + 1)
      BY <1>1, <2>3 DEF HexLen
    <3>3. HexRead(p[i].chunks[1], 0) = 0 /\ Before(p[i].chunks)[1 - 1] = 0
      BY <2>5 DEF HexRead
    <3>4. local' = BodyRead(p, i, HexRead(p[i].chunks[1], 0), 0, Before(p[i].chunks)[1 - 1])
      BY <2>2, <3>3
    <3>5. InSize(p, i, 1)'
      BY <2>2, <3>2, <3>4 DEF InSize
    <3> QED
      BY <1>9, <2>2, <3>1, <3>5, GoesOn DEF Responding, InChunks
  <2> QED
    BY <2>6, <2>7
<1> QED
  BY <1>2, <1>6, <1>7, <1>8, <1>9

\* No line before the last one is blank.
LEMMA FieldKinds ==
  ASSUME NEW p \in Plans, NEW i \in Replied(p), NEW k \in 0..FieldLen(p, i)
  PROVE  SentAll(p)[Begin(p, i) + InterimLen(p, i) + k + 2].kind \notin {"blank", "lf"}
<1> DEFINE b == Begin(p, i)
           a == InterimLen(p, i)
           l == LengthLines(p, i)
           g == GzipLines(p, i)
           c == CloseLines(p, i)
           f == FieldLen(p, i)
           t == SentAll(p)
<1>1. /\ b \in Nat /\ a \in {0, 3} /\ l \in {0, 1} /\ g \in {0, 1} /\ c \in {0, 1}
      /\ f = l + g + c
  BY HeaderNumbers
<1>2. /\ p[i].framing = "length" => t[b + a + 2] = Line("length", Size(p[i].chunks))
      /\ p[i].framing = "chunked" => t[b + a + 2] = Line("chunked", 0)
      /\ p[i].gzip => t[b + a + l + 2] = Line("gzip", 0)
      /\ p[i].close => t[b + a + l + g + 2] = Line("close", 0)
      /\ t[b + a + f + 2] = Line("other", 0)
  BY HeaderTokens
<1>3. /\ l = 1 => p[i].framing \in {"length", "chunked"}
      /\ g = 1 => p[i].gzip
      /\ c = 1 => p[i].close
  BY DEF LengthLines, GzipLines, CloseLines
<1>4. k \in 0..f
  OBVIOUS
<1> HIDE DEF b, a, l, g, c, f, t
<1>5. CASE k = 0 /\ l = 1
  <2>1. b + a + k + 2 = b + a + 2
    BY <1>1, <1>5
  <2> QED
    BY <1>2, <1>3, <1>5, <2>1, LineKinds DEF b, a, t
<1>6. CASE k = l /\ g = 1
  BY <1>2, <1>3, <1>6, LineKinds DEF b, a, t
<1>7. CASE k = l + g /\ c = 1
  <2>1. b + a + k + 2 = b + a + l + g + 2
    BY <1>1, <1>7
  <2> QED
    BY <1>2, <1>3, <1>7, <2>1, LineKinds DEF b, a, t
<1>8. CASE k = f
  BY <1>2, <1>8, LineKinds DEF b, a, t
<1> QED
  BY <1>1, <1>4, <1>5, <1>6, <1>7, <1>8

\* A blank line ends the interim response or the header, and nothing else.
LEMMA ReadBlankKeeps ==
  ASSUME NEW p \in Plans, NEW i \in Replied(p), i = Len(responses) + 1,
         plan = p, stream = SentAll(p),
         responses \in Seq(Answers), OwnResponses,
         InHeader(p, i), ReadBlank
  PROVE  RecvInv'
<1> DEFINE b == Begin(p, i)
           a == InterimLen(p, i)
           f == FieldLen(p, i)
<1>1. /\ plan' = p /\ stream' = SentAll(p) /\ pos' = pos + 1 /\ at = "header"
      /\ Here.kind \in {"blank", "lf"}
      /\ IF local.status # 100
         THEN BodyStarts(local)
         ELSE local' = [local EXCEPT !.status = 0] /\ at' = at /\ responses' = responses
  BY DEF ReadBlank, Reads, network, EmptyLine, BlankAfter100
<1>2. /\ b \in Nat /\ a \in {0, 3} /\ f \in Nat
      /\ i \in 1..Depth /\ Status(i) # 100
  BY HeaderNumbers
<1>3. /\ p[i].interim => /\ stream[b + 1] = Line("status", 100)
                         /\ stream[b + 2] = Line("other", 0)
                         /\ stream[b + 3] = Line("blank", 0)
      /\ stream[b + a + 1] = FirstLine(p, i)
      /\ stream[b + a + f + 2] = Line("other", 0)
  BY HeaderTokens
<1>4. Here = stream[pos + 1]
  BY DEF Here
<1>5. p[i].interim \in BOOLEAN /\ a = IF p[i].interim THEN 3 ELSE 0
  BY <1>2, ReplyIs DEF InterimLen
<1>6. CASE pos \in {b, b + a} /\ local = Fresh
  <2>1. Here.kind \in {"status", "other"}
    <3>1. CASE pos = b + a
      <4>1. Here = FirstLine(p, i)
        BY <1>3, <1>4, <3>1
      <4> QED
        BY <4>1, LineKinds DEF FirstLine
    <3>2. CASE pos = b /\ p[i].interim
      BY <1>3, <1>4, <3>2, LineKinds
    <3>3. p[i].interim \/ b = b + a
      BY <1>2, <1>5
    <3> QED
      BY <1>5, <1>6, <3>1, <3>2, <3>3
  <2> QED
    BY <1>1, <2>1
<1>7. CASE InInterim(p, i)
  <2>1. /\ p[i].interim /\ pos \in b + 1 .. b + 2
        /\ local = Local(100, 0, FALSE, FALSE, 0, 0, <<>>)
    BY <1>7 DEF InInterim
  <2>2. pos = b + 2
    <3> SUFFICES ASSUME pos = b + 1 PROVE FALSE
      BY <1>2, <2>1
    <3>1. pos + 1 = b + 2
      BY <1>2
    <3>2. Here.kind = "other"
      BY <1>3, <1>4, <2>1, <3>1, LineKinds
    <3> QED
      BY <1>1, <3>2
  <2>3. local.status = 100 /\ [local EXCEPT !.status = 0] = Fresh
    <3> DEFINE no == FALSE
               empty == <<>>
    <3>1. local = Local(100, 0, no, no, 0, 0, empty) /\ Fresh = Local(0, 0, no, no, 0, 0, empty)
      BY <2>1, FreshIs
    <3> HIDE DEF no, empty
    <3> QED
      BY <3>1 DEF Local
  <2>4. local' = Fresh /\ at' = "header" /\ responses' = responses
    BY <1>1, <2>3
  <2>5. pos' = b + a
    BY <1>1, <1>2, <1>5, <2>1, <2>2
  <2>6. InHeader(p, i)'
    BY <2>4, <2>5 DEF InHeader
  <2> QED
    BY <1>1, <2>4, <2>6, GoesOn DEF Responding
<1>8. CASE InFields(p, i)
  <2>1. PICK k \in 0..(f + 1) : pos = b + a + 1 + k /\ local = FieldsRead(p, i, k)
    BY <1>8 DEF InFields
  <2>2. k = f + 1
    <3> SUFFICES ASSUME k \in 0..f PROVE FALSE
      BY <1>2
    <3>1. Here = stream[b + a + k + 2]
      <4>1. pos + 1 = b + a + k + 2
        BY <1>2, <2>1
      <4> QED
        BY <1>4, <4>1
    <3>2. Here.kind \notin {"blank", "lf"}
      BY <1>2, <1>8, <3>1, FieldKinds
    <3> QED
      BY <1>1, <3>2
  <2>3. local = BodyRead(p, i, 0, 0, 0)
    BY <2>1, <2>2, AllFieldsRead
  <2>4. local.status = Status(i)
    BY <2>3, BodyReadIs
  <2>5. BodyStarts(local)
    BY <1>1, <1>2, <2>4
  <2>6. pos' = BodyBegin(p, i)
    <3>1. BodyBegin(p, i) = b + a + f + 3
      BY BodyTokens
    <3>2. pos' = b + a + f + 3
      BY <1>1, <1>2, <2>1, <2>2
    <3> QED
      BY <3>1, <3>2
  <2>7. p[i].framing # "garbled"
    BY <1>8 DEF InFields
  <2> QED
    BY <1>1, <2>3, <2>5, <2>6, <2>7, HeaderEnds
<1> QED
  BY <1>6, <1>7, <1>8 DEF InHeader

-----------------------------------------------------------------------------
(* Blocks. *)

\* Behind the first q tokens of t come n bytes of the body, from the m-th on.
BodyAt(p, i, m, t, q, n) == \A k \in 1..n : t[q + k] = Sent(p, i, m + k)

\* A read of n bytes behind the first q continues a body of which m were read.
Continues(p, i, m, t, q, n) ==
  Bytes(p, i, m) \o SubSeq(t, q + 1, q + n) = Bytes(p, i, m + n)

\* ... and with them recv has read m + n bytes of the body.
LEMMA BytesGrow ==
  ASSUME NEW p \in Plans, NEW i \in 1..Depth, NEW m \in Nat, NEW n \in Nat \ {0},
         NEW t, NEW q \in Nat, BodyAt(p, i, m, t, q, n)
  PROVE  Continues(p, i, m, t, q, n)
<1> DEFINE a == Bytes(p, i, m)
           b == SubSeq(t, q + 1, q + n)
           c == Bytes(p, i, m + n)
<1>1. a \in Seq(Tokens) /\ Len(a) = m /\ \A k \in 1..m : a[k] = Sent(p, i, k)
  <2>1. \A k \in 1..m : Sent(p, i, k) \in Tokens
    BY SentIs
  <2>2. a \in [1..m -> Tokens] /\ \A k \in 1..m : a[k] = Sent(p, i, k)
    BY <2>1 DEF Bytes
  <2> QED
    BY <2>2, FunctionIsSeq
<1>2. c \in Seq(Tokens) /\ Len(c) = m + n /\ \A k \in 1..(m + n) : c[k] = Sent(p, i, k)
  <2>1. \A k \in 1..(m + n) : Sent(p, i, k) \in Tokens
    BY SentIs
  <2>2. c \in [1..(m + n) -> Tokens] /\ \A k \in 1..(m + n) : c[k] = Sent(p, i, k)
    BY <2>1 DEF Bytes
  <2>3. m + n \in Nat
    OBVIOUS
  <2> QED
    BY <2>2, <2>3, FunctionIsSeq
<1>3. b \in Seq(Tokens) /\ Len(b) = n /\ \A k \in 1..n : b[k] = Sent(p, i, m + k)
  <2>1. ASSUME NEW j \in (q + 1)..(q + n) PROVE t[j] \in Tokens
    <3>1. j - q \in 1..n /\ q + (j - q) = j /\ m + (j - q) \in Int
      OBVIOUS
    <3> QED
      BY <3>1, SentIs DEF BodyAt
  <2>2. q + 1 \in Int /\ q + n \in Int /\ q + 1 <= q + n /\ (q + n) - (q + 1) + 1 = n
    OBVIOUS
  <2>3. /\ b \in Seq(Tokens) /\ Len(b) = (q + n) - (q + 1) + 1
        /\ \A k \in 1..((q + n) - (q + 1) + 1) : b[k] = t[(q + 1) + k - 1]
    <3>1. /\ b \in Seq(Tokens)
          /\ Len(b) = IF q + 1 <= q + n THEN (q + n) - (q + 1) + 1 ELSE 0
          /\ \A k \in 1..((q + n) - (q + 1) + 1) : b[k] = t[(q + 1) + k - 1]
      BY <2>1, <2>2, SubSeqProperties
    <3> QED
      BY <2>2, <3>1, Zenon
  <2>4. \A k \in 1..n : (q + 1) + k - 1 = q + k
    OBVIOUS
  <2> HIDE DEF b
  <2> QED
    BY <2>2, <2>3, <2>4 DEF BodyAt
<1> HIDE DEF a, b, c
<1>4. a \in Seq(Tokens) /\ b \in Seq(Tokens)
  BY <1>1, <1>3
<1>5. /\ a \o b \in Seq(Tokens) /\ Len(a \o b) = Len(a) + Len(b)
      /\ \A k \in 1..Len(a) : (a \o b)[k] = a[k]
      /\ \A k \in 1..Len(b) : (a \o b)[Len(a) + k] = b[k]
  BY <1>4, ConcatIs
<1> DEFINE d == a \o b
<1> HIDE DEF d
<1>6. /\ d \in Seq(Tokens) /\ Len(d) = m + n
      /\ \A k \in 1..m : d[k] = Sent(p, i, k)
      /\ \A k \in 1..n : d[m + k] = Sent(p, i, m + k)
  BY <1>1, <1>3, <1>5 DEF d
<1>7. ASSUME NEW k \in 1..(m + n) PROVE d[k] = Sent(p, i, k)
  <2>1. CASE k <= m
    BY <1>6, <2>1
  <2>2. CASE ~(k <= m)
    <3>1. k - m \in 1..n /\ m + (k - m) = k
      BY <2>2
    <3> QED
      BY <1>6, <3>1
  <2> QED
    BY <2>1, <2>2
<1>8. d = c
  <2>1. d \in Seq(Tokens) /\ c \in Seq(Tokens) /\ Len(d) = Len(c)
    BY <1>2, <1>6
  <2>2. \A k \in 1..Len(d) : d[k] = c[k]
    BY <1>2, <1>6, <1>7
  <2> QED
    BY <2>1, <2>2, SeqEqual
<1> QED
  BY <1>8 DEF a, b, c, d, Continues

\* The local variables behind a read of n bytes of a block.
Block(n) == [local EXCEPT !.left = @ - n, !.body = @ \o SubSeq(stream, pos + 1, pos + n)]

\* What a read of n of the left bytes does to the local variables.
LEMMA BlockIs ==
  ASSUME NEW p \in Plans, NEW i \in 1..Depth, NEW m \in Nat, NEW n \in Nat \ {0},
         NEW size, NEW left, local = BodyRead(p, i, size, left, m), pos \in Nat,
         BodyAt(p, i, m, stream, pos, n)
  PROVE  Block(n) = BodyRead(p, i, size, left - n, m + n)
<1> DEFINE s == Status(i)
           l == Length(p, i)
           g == p[i].gzip
           c == p[i].close
           a == Bytes(p, i, m)
           b == SubSeq(stream, pos + 1, pos + n)
           d == Bytes(p, i, m + n)
<1>1. a \o b = d
  <2>1. Continues(p, i, m, stream, pos, n)
    BY BytesGrow
  <2> QED
    BY <2>1 DEF Continues
<1>2. /\ local = Local(s, l, g, c, size, left, a)
      /\ BodyRead(p, i, size, left - n, m + n) = Local(s, l, g, c, size, left - n, d)
  BY DEF BodyRead
<1> HIDE DEF s, l, g, c, a, b, d
<1>3. local.left = left /\ local.body = a
  BY <1>2 DEF Local
<1> DEFINE x == left - n
           y == a \o b
<1>5. x = local.left - n /\ y = local.body \o b
  BY <1>3, Zenon
<1> HIDE DEF x, y
<1>6. [local EXCEPT !.left = x, !.body = y] = Local(s, l, g, c, size, x, y)
  <2> DEFINE u == [local EXCEPT !.left = x]
  <2>1. [local EXCEPT !.left = x, !.body = y] = [u EXCEPT !.body = y]
    OBVIOUS
  <2>2. u = Local(s, l, g, c, size, x, a)
    BY <1>2 DEF Local
  <2> HIDE DEF u
  <2>3. [u EXCEPT !.body = y] = Local(s, l, g, c, size, x, y)
    BY <2>2 DEF Local
  <2> QED
    BY <2>1, <2>3, Zenon
<1>7. [local EXCEPT !.left = @ - n, !.body = @ \o b] = [local EXCEPT !.left = x, !.body = y]
  BY <1>5
<1>8. [local EXCEPT !.left = @ - n, !.body = @ \o b] = Local(s, l, g, c, size, left - n, d)
  BY <1>1, <1>6, <1>7, Zenon DEF x, y
<1> QED
  BY <1>2, <1>8, Zenon DEF b, Block

\* The tokens of chunk c stand where they should.
ChunkStands(p, i, c) ==
  LET z == p[i].chunks[c]
      h == HexLen(z)
      b == BodyBegin(p, i) + ChunkBegin(p, i, c)
      x == Before(p[i].chunks)[c - 1]
      t == SentAll(p) IN
  /\ z \in 1..255 /\ h \in 1..2 /\ b \in Nat /\ x \in Nat
  /\ Before(p[i].chunks)[c] = x + z
  /\ BodyBegin(p, i) + ChunkBegin(p, i, c + 1) = b + h + z + 4
  /\ \A k \in 1..h : t[b + k] = Hex(z)[k]
  /\ t[b + h + 1] = Token("cr", 0, 0) /\ t[b + h + 2] = Token("lf", 0, 0)
  /\ \A k \in 1..z : t[b + h + 2 + k] = Sent(p, i, x + k)
  /\ t[b + h + 2 + z + 1] = Token("cr", 0, 0) /\ t[b + h + 2 + z + 2] = Token("lf", 0, 0)

\* It does, for every chunk of a reply.
LEMMA ChunkTokens ==
  ASSUME NEW p \in Plans, NEW i \in Replied(p), ~p[i].head, p[i].framing = "chunked",
         NEW c \in 1..Len(p[i].chunks)
  PROVE  ChunkStands(p, i, c)
<1> DEFINE z == p[i].chunks[c]
           h == HexLen(z)
           y == BodyBegin(p, i)
           e == ChunkBegin(p, i, c)
           b == y + e
           x == Before(p[i].chunks)[c - 1]
           t == SentAll(p)
           s == SentBody(p, i)
           u == Chunk(p, i, c)
           n == ChunkLen(p, i, c)
           m == Len(s)
<1>1. /\ i \in 1..Depth /\ y \in Nat /\ m \in Nat
      /\ \A k \in 1..m : t[y + k] = s[k]
  BY BodyTokens
<1>2. /\ e \in Nat /\ ChunkBegin(p, i, c + 1) = e + n /\ e + n <= ChunksEnd(p, i)
      /\ m = ChunksEnd(p, i) + 5 /\ ChunksEnd(p, i) \in Nat
      /\ \A k \in 1..n : s[e + k] = u[k]
  BY <1>1, ChunkedBodyIs
<1>3. z \in 1..255 /\ h \in 1..2 /\ n = h + z + 4
  <2>1. z \in 1..255
    BY <1>1, ReplyIs
  <2> QED
    BY <2>1 DEF HexLen, ChunkLen
<1>4. x \in Nat /\ Before(p[i].chunks)[c] = x + z
  <2>1. c \in 1..Len(p[i].chunks) /\ c - 1 \in 0..Len(p[i].chunks)
    BY <1>1, ReplyIs
  <2> QED
    BY <1>1, <2>1, SizeIs
<1>5. /\ \A k \in 1..h : u[k] = Hex(z)[k]
      /\ u[h + 1] = Token("cr", 0, 0) /\ u[h + 2] = Token("lf", 0, 0)
      /\ \A k \in 1..z : u[h + 2 + k] = Sent(p, i, x + k)
      /\ u[h + z + 3] = Token("cr", 0, 0) /\ u[h + z + 4] = Token("lf", 0, 0)
  BY <1>1, ChunkIs
<1> DEFINE d == ChunksEnd(p, i)
           w == Hex(z)
           f == ChunkBegin(p, i, c + 1)
           g == Before(p[i].chunks)[c]
<1>6. /\ f = e + n /\ e + n <= d /\ m = d + 5 /\ d \in Nat /\ g = x + z
      /\ \A k \in 1..h : u[k] = w[k]
  BY <1>2, <1>4, <1>5
<1>7. b = y + e
  OBVIOUS
<1>a. x \in Nat
  BY <1>4
<1> HIDE DEF z, h, y, e, b, x, t, s, u, n, m, d, w, f, g
<1>8. b \in Nat /\ y + f = b + h + z + 4 /\ h + z + 4 = n
  BY <1>1, <1>2, <1>3, <1>6, <1>7
<1>9. ASSUME NEW k \in 1..n PROVE t[b + k] = u[k]
  <2>1. e + k \in 1..m /\ y + (e + k) = b + k
    BY <1>1, <1>2, <1>3, <1>6, <1>7
  <2> QED
    BY <1>1, <1>2, <2>1
<1>10. ASSUME NEW k \in 1..h PROVE t[b + k] = w[k]
  <2>1. k \in 1..n
    BY <1>3
  <2> QED
    BY <1>6, <1>9, <2>1
<1>11. /\ t[b + h + 1] = Token("cr", 0, 0) /\ t[b + h + 2] = Token("lf", 0, 0)
       /\ t[b + h + 2 + z + 1] = Token("cr", 0, 0) /\ t[b + h + 2 + z + 2] = Token("lf", 0, 0)
  <2>1. /\ h + 1 \in 1..n /\ b + (h + 1) = b + h + 1
        /\ h + 2 \in 1..n /\ b + (h + 2) = b + h + 2
        /\ h + z + 3 \in 1..n /\ b + (h + z + 3) = b + h + 2 + z + 1
        /\ h + z + 4 \in 1..n /\ b + (h + z + 4) = b + h + 2 + z + 2
    BY <1>3, <1>8
  <2>2. /\ t[b + (h + 1)] = u[h + 1] /\ t[b + (h + 2)] = u[h + 2]
        /\ t[b + (h + z + 3)] = u[h + z + 3] /\ t[b + (h + z + 4)] = u[h + z + 4]
    BY <1>9, <2>1, Zenon
  <2> QED
    BY <1>5, <2>1, <2>2, Zenon
<1>12. ASSUME NEW k \in 1..z PROVE t[b + h + 2 + k] = Sent(p, i, x + k)
  <2>1. h + 2 + k \in 1..n /\ b + (h + 2 + k) = b + h + 2 + k
    BY <1>3, <1>8
  <2>2. t[b + (h + 2 + k)] = u[h + 2 + k]
    BY <1>9, <2>1, Zenon
  <2> QED
    BY <1>5, <2>1, <2>2, Zenon
<1>b. g = x + z /\ y + f = b + h + z + 4 /\ z \in 1..255 /\ h \in 1..2 /\ b \in Nat
  BY <1>3, <1>6, <1>8
<1> QED
  BY <1>a, <1>b, <1>10, <1>11, <1>12, Zenon DEF z, h, y, e, b, x, t, w, f, g, ChunkStands

\* The tokens of the last chunk, which end the body, stand where they should.
LastChunkStands(p, i) ==
  LET b == BodyBegin(p, i) + ChunksEnd(p, i)
      t == SentAll(p) IN
  /\ b \in Nat /\ b + 5 = Begin(p, i + 1)
  /\ t[b + 1] = Token("digit", 0, 0)
  /\ t[b + 2] = Token("cr", 0, 0) /\ t[b + 3] = Token("lf", 0, 0)
  /\ t[b + 4] = Token("cr", 0, 0) /\ t[b + 5] = Token("lf", 0, 0)

\* It does, and the next reply begins behind it.
LEMMA LastChunkTokens ==
  ASSUME NEW p \in Plans, NEW i \in Replied(p), ~p[i].head, p[i].framing = "chunked"
  PROVE  LastChunkStands(p, i)
<1> DEFINE y == BodyBegin(p, i)
           d == ChunksEnd(p, i)
           t == SentAll(p)
           s == SentBody(p, i)
           m == Len(s)
           b == y + d
<1>1. /\ i \in 1..Depth /\ y \in Nat /\ m \in Nat /\ y + m = Begin(p, i + 1)
      /\ \A k \in 1..m : t[y + k] = s[k]
  BY BodyTokens
<1>2. /\ d \in Nat /\ m = d + 5
      /\ s[d + 1] = Token("digit", 0, 0)
      /\ s[d + 2] = Token("cr", 0, 0) /\ s[d + 3] = Token("lf", 0, 0)
      /\ s[d + 4] = Token("cr", 0, 0) /\ s[d + 5] = Token("lf", 0, 0)
  BY <1>1, ChunkedBodyIs
<1>3. b = y + d
  OBVIOUS
<1> HIDE DEF y, d, t, s, m, b
<1>4. b \in Nat /\ b + 5 = y + m
  BY <1>1, <1>2, <1>3
<1>5. ASSUME NEW k \in 1..5 PROVE t[b + k] = s[d + k]
  <2>1. d + k \in 1..m /\ y + (d + k) = b + k
    BY <1>1, <1>2, <1>3
  <2> QED
    BY <1>1, <2>1
<1>6. 1 \in 1..5 /\ 2 \in 1..5 /\ 3 \in 1..5 /\ 4 \in 1..5 /\ 5 \in 1..5
  OBVIOUS
<1>7. /\ t[b + 1] = s[d + 1] /\ t[b + 2] = s[d + 2] /\ t[b + 3] = s[d + 3]
      /\ t[b + 4] = s[d + 4] /\ t[b + 5] = s[d + 5]
  BY <1>5, <1>6, Zenon
<1> QED
  BY <1>1, <1>2, <1>4, <1>7, Zenon DEF y, d, t, b, LastChunkStands

\* What is left of a block, and what a read of it does.
BlockRead(l) ==
  /\ l.left > 0 => local' = l /\ at' = at /\ responses' = responses
  /\ l.left = 0 /\ l.length > 0 => Finish(l)
  /\ l.left = 0 /\ ~(l.length > 0) =>
       at' = "chunk" /\ local' = [l EXCEPT !.chunkSize = -1] /\ responses' = responses

\* ReadBlock reads between one and all of the bytes left of a block.
LEMMA ReadBlockIs ==
  ASSUME ReadBlock
  PROVE  /\ at = "block" /\ plan' = plan /\ stream' = stream
         /\ \E n \in 1..local.left :
              /\ pos' = pos + n
              /\ BlockRead(Block(n))
<1>1. /\ at = "block" /\ plan' = plan /\ stream' = stream
  BY DEF ReadBlock, network
<1>2. PICK n \in 1..local.left :
        /\ Reads(n)
        /\ LET l == [local EXCEPT !.left = @ - n,
                                  !.body = @ \o SubSeq(stream, pos + 1, pos + n)]
           IN  CASE l.left > 0 -> local' = l /\ UNCHANGED <<at, responses>>
                 [] l.left = 0 /\ l.length > 0 -> Finish(l)
                 [] OTHER -> /\ at' = "chunk"
                             /\ local' = [l EXCEPT !.chunkSize = -1]
                             /\ UNCHANGED responses
  BY DEF ReadBlock
<1> DEFINE m == Block(n)
<1>3. pos' = pos + n
  BY <1>2 DEF Reads
<1>4. /\ CASE m.left > 0 -> local' = m /\ UNCHANGED <<at, responses>>
           [] m.left = 0 /\ m.length > 0 -> Finish(m)
           [] OTHER -> /\ at' = "chunk"
                       /\ local' = [m EXCEPT !.chunkSize = -1]
                       /\ UNCHANGED responses
  BY <1>2 DEF Block
<1> HIDE DEF m
<1>5. BlockRead(m)
  BY <1>4 DEF BlockRead
<1> QED
  BY <1>1, <1>3, <1>5 DEF m

\* A block of a body of a known length.
LEMMA LengthBlockKeeps ==
  ASSUME NEW p \in Plans, NEW i \in Replied(p), i = Len(responses) + 1,
         plan = p, stream = SentAll(p),
         responses \in Seq(Answers), OwnResponses,
         InLength(p, i), ReadBlock
  PROVE  RecvInv'
<1> DEFINE z == Size(p[i].chunks)
           b == BodyBegin(p, i)
<1>1. PICK m \in 0..(z - 1) : pos = b + m /\ local = BodyRead(p, i, 0, z - m, m)
  BY DEF InLength
<1>2. ~p[i].head /\ p[i].framing = "length"
  BY DEF InLength
<1>3. /\ i \in 1..Depth /\ b \in Nat /\ z \in Nat
      /\ b + z = Begin(p, i + 1)
      /\ \A k \in 1..z : stream[b + k] = Sent(p, i, k)
  <2>1. /\ i \in 1..Depth /\ b \in Nat
        /\ b + Len(SentBody(p, i)) = Begin(p, i + 1)
        /\ \A k \in 1..Len(SentBody(p, i)) : stream[b + k] = SentBody(p, i)[k]
    BY BodyTokens
  <2>2. Len(SentBody(p, i)) = z /\ \A k \in 1..z : SentBody(p, i)[k] = Sent(p, i, k)
    BY <1>2, <2>1, LengthBodyIs
  <2>3. z \in Nat
    BY <2>1, SizeIs
  <2> QED
    BY <2>1, <2>2, <2>3
<1>4. local.left = z - m
  BY <1>1, BodyReadIs
<1>5. PICK n \in 1..(z - m) :
        /\ pos' = pos + n
        /\ BlockRead(Block(n))
  BY <1>4, ReadBlockIs
<1>6. at = "block" /\ plan' = p /\ stream' = SentAll(p)
  BY ReadBlockIs
<1> DEFINE l == Block(n)
<1>7. l = BodyRead(p, i, 0, z - m - n, m + n)
  <2>1. ASSUME NEW k \in 1..n PROVE stream[pos + k] = Sent(p, i, m + k)
    <3> HIDE DEF b, z
    <3>1. m + k \in 1..z /\ b + (m + k) = pos + k
      BY <1>1, <1>3
    <3> QED
      BY <1>3, <3>1
  <2>2. m \in Nat /\ n \in Nat \ {0} /\ pos \in Nat
    BY <1>1, <1>3
  <2> QED
    <3>1. BodyAt(p, i, m, stream, pos, n)
      BY <2>1 DEF BodyAt
    <3>2. local = BodyRead(p, i, 0, z - m, m)
      BY <1>1
    <3> HIDE DEF b, z
    <3> QED
      BY <1>3, <2>2, <3>1, <3>2, BlockIs
<1>8. BlockRead(l)
  BY <1>5
<1> HIDE DEF l
<1>9. /\ l.status = Status(i) /\ l.length = z /\ l.gzip = p[i].gzip
      /\ l.close = p[i].close /\ l.left = z - m - n /\ l.body = Bytes(p, i, m + n)
  BY <1>2, <1>7, BodyReadIs DEF Length
<1>a. m \in 0..(z - 1) /\ n \in 1..(z - m) /\ pos' = pos + n /\ pos = b + m
  BY <1>1, <1>5
<1>b. b \in Nat /\ z \in Nat /\ b + z = Begin(p, i + 1)
  BY <1>3
<1>c. l.left = z - m - n /\ l.length = z
  BY <1>9
<1> HIDE DEF b, z
<1>10. CASE m + n = z
  <2>1. l.left = 0 /\ l.length > 0 /\ pos' = Begin(p, i + 1)
    BY <1>a, <1>b, <1>c, <1>10
  <2>2. Finish(l)
    BY <1>8, <2>1 DEF BlockRead
  <2>3. l.body = Bytes(p, i, Size(p[i].chunks))
    BY <1>9, <1>10 DEF z
  <2> QED
    BY <1>2, <1>6, <1>9, <2>1, <2>2, <2>3, FinishKeeps
<1>11. CASE m + n # z
  <2>1. /\ l.left > 0 /\ m + n \in 0..(z - 1) /\ z - m - n = z - (m + n)
        /\ pos' = b + (m + n)
    BY <1>a, <1>b, <1>c, <1>11
  <2>2. local' = l /\ at' = at /\ responses' = responses
    BY <1>8, <2>1 DEF BlockRead
  <2>3. local' = BodyRead(p, i, 0, z - (m + n), m + n)
    BY <1>7, <2>1, <2>2
  <2>4. InLength(p, i)'
    BY <1>2, <1>6, <2>1, <2>2, <2>3 DEF InLength, z, b
  <2> QED
    BY <1>6, <2>2, <2>4, GoesOn DEF Responding
<1> QED
  BY <1>10, <1>11

\* A block of a chunk.
LEMMA DataBlockKeeps ==
  ASSUME NEW p \in Plans, NEW i \in Replied(p), i = Len(responses) + 1,
         plan = p, stream = SentAll(p),
         responses \in Seq(Answers), OwnResponses,
         ~p[i].head, p[i].framing = "chunked",
         NEW c \in 1..Len(p[i].chunks), InData(p, i, c), ReadBlock
  PROVE  RecvInv'
<1> DEFINE z == p[i].chunks[c]
           b == DataBegin(p, i, c)
           x == Before(p[i].chunks)[c - 1]
           y == Before(p[i].chunks)[c]
<1>1. PICK m \in 0..(z - 1) : pos = b + m /\ local = BodyRead(p, i, z, z - m, x + m)
  BY DEF InData
<1>2. /\ z \in 1..255 /\ x \in Nat /\ b \in Nat /\ y = x + z
      /\ \A k \in 1..z : stream[b + k] = Sent(p, i, x + k)
  <2> DEFINE h == HexLen(z)
             a == BodyBegin(p, i)
             e == ChunkBegin(p, i, c)
  <2>1. /\ z \in 1..255 /\ h \in 1..2 /\ a + e \in Nat /\ x \in Nat /\ y = x + z
        /\ \A k \in 1..z : SentAll(p)[a + e + h + 2 + k] = Sent(p, i, x + k)
    <3>1. ChunkStands(p, i, c)
      BY ChunkTokens
    <3> QED
      BY <3>1, Zenon DEF ChunkStands
  <2> DEFINE f == a + e
  <2>2. b = f + h + 2 /\ f \in Nat /\ \A k \in 1..z : stream[f + h + 2 + k] = Sent(p, i, x + k)
    BY <2>1 DEF DataBegin
  <2> HIDE DEF z, x, y, b, h, a, e, f
  <2> QED
    BY <2>1, <2>2
<1>3. i \in 1..Depth
  BY BodyTokens
<1>4. local.left = z - m
  BY <1>1, BodyReadIs
<1>5. PICK n \in 1..(z - m) :
        /\ pos' = pos + n
        /\ BlockRead(Block(n))
  BY <1>4, ReadBlockIs
<1>6. at = "block" /\ plan' = p /\ stream' = SentAll(p)
  BY ReadBlockIs
<1> DEFINE l == Block(n)
<1>7. l = BodyRead(p, i, z, z - m - n, x + m + n)
  <2>1. ASSUME NEW k \in 1..n PROVE stream[pos + k] = Sent(p, i, x + m + k)
    <3> HIDE DEF b, z, x
    <3>1. m + k \in 1..z /\ b + (m + k) = pos + k /\ x + (m + k) = x + m + k
      BY <1>1, <1>2
    <3> QED
      BY <1>2, <3>1
  <2>2. x + m \in Nat /\ n \in Nat \ {0} /\ pos \in Nat
    <3>1. m \in 0..(z - 1) /\ n \in 1..(z - m) /\ pos = b + m
      BY <1>1
    <3>2. z \in 1..255 /\ x \in Nat /\ b \in Nat
      BY <1>2
    <3> HIDE DEF b, z, x
    <3> QED
      BY <3>1, <3>2
  <2> QED
    <3>1. BodyAt(p, i, x + m, stream, pos, n)
      BY <2>1 DEF BodyAt
    <3>2. local = BodyRead(p, i, z, z - m, x + m)
      BY <1>1
    <3> HIDE DEF b, z, x
    <3> QED
      BY <1>3, <2>2, <3>1, <3>2, BlockIs
<1>8. BlockRead(l)
  BY <1>5
<1> HIDE DEF l
<1>9. /\ l.length = -1 /\ l.left = z - m - n
      /\ \A w : [l EXCEPT !.chunkSize = w] = BodyRead(p, i, w, z - m - n, x + m + n)
  <2>1. Length(p, i) = -1
    BY DEF Length
  <2> QED
    BY <1>7, <2>1, BodyReadIs
<1>a. m \in 0..(z - 1) /\ n \in 1..(z - m) /\ pos' = pos + n /\ pos = b + m
  BY <1>1, <1>5
<1>b. z \in 1..255 /\ x \in Nat /\ b \in Nat /\ y = x + z
  BY <1>2
<1>c. l.left = z - m - n /\ l.length = -1
  BY <1>9
<1> HIDE DEF b, z, x, y
<1>10. CASE m + n = z
  <2>1. l.left = 0 /\ ~(l.length > 0) /\ z - m - n = 0 /\ x + m + n = y /\ pos' = b + z
    BY <1>a, <1>b, <1>c, <1>10
  <2>2. at' = "chunk" /\ local' = [l EXCEPT !.chunkSize = -1] /\ responses' = responses
    BY <1>8, <2>1 DEF BlockRead
  <2>3. local' = BodyRead(p, i, -1, 0, y)
    BY <1>9, <2>1, <2>2
  <2>4. 0 \in 0..1 /\ pos' = b + z + 0
    BY <1>2, <2>1
  <2>5. InDataEnd(p, i, c)'
    BY <2>2, <2>3, <2>4 DEF InDataEnd, z, b, y
  <2>6. InChunks(p, i)'
    BY <2>5 DEF InChunks
  <2> QED
    BY <1>6, <2>2, <2>6, GoesOn DEF Responding
<1>11. CASE m + n # z
  <2>1. /\ l.left > 0 /\ m + n \in 0..(z - 1) /\ z - m - n = z - (m + n)
        /\ x + m + n = x + (m + n) /\ pos' = b + (m + n)
    BY <1>a, <1>b, <1>c, <1>11
  <2>2. local' = l /\ at' = at /\ responses' = responses
    BY <1>8, <2>1 DEF BlockRead
  <2>3. local' = BodyRead(p, i, z, z - (m + n), x + (m + n))
    BY <1>7, <2>1, <2>2
  <2>4. InData(p, i, c)'
    BY <1>6, <2>1, <2>2, <2>3 DEF InData, z, b, x
  <2>5. InChunks(p, i)'
    BY <2>4 DEF InChunks
  <2> QED
    BY <1>6, <2>2, <2>5, GoesOn DEF Responding
<1> QED
  BY <1>10, <1>11

-----------------------------------------------------------------------------
(* The lines between the blocks. *)

\* What a token between the blocks of a chunked body does.
ChunkTokenRead(t) ==
  /\ t.kind = "lf" /\ local.chunkSize = -2 => Finish(local)
  /\ t.kind = "lf" /\ local.chunkSize = -1 =>
       local' = [local EXCEPT !.chunkSize = 0] /\ at' = "chunk" /\ responses' = responses
  /\ t.kind = "lf" /\ local.chunkSize >= 0 => SizeRead(local)
  /\ t.kind = "digit" /\ local.chunkSize >= 0 =>
       /\ local' = [local EXCEPT !.chunkSize = local.chunkSize * 16 + t.n]
       /\ at' = "chunk" /\ responses' = responses
  /\ t.kind = "cr" => local' = local /\ at' = "chunk" /\ responses' = responses

\* ReadChunkLine reads one such token.
LEMMA ReadChunkLineIs ==
  ASSUME ReadChunkLine, local.chunkSize \in Int
  PROVE  /\ plan' = plan /\ stream' = stream /\ pos' = pos + 1
         /\ ChunkTokenRead(stream[pos + 1])
<1> DEFINE t == stream[pos + 1]
           s == local.chunkSize
<1>1. plan' = plan /\ stream' = stream /\ pos' = pos + 1 /\ at = "chunk"
  BY DEF ReadChunkLine, Reads, network
<1>2. /\ CASE t.kind = "lf" /\ s = -2 -> Finish(local)
           [] t.kind = "lf" /\ s = -1 ->
                local' = [local EXCEPT !.chunkSize = 0] /\ UNCHANGED <<at, responses>>
           [] t.kind = "lf" /\ s >= 0 -> SizeRead(local)
           [] t.kind = "digit" /\ s >= 0 ->
                /\ local' = [local EXCEPT !.chunkSize = s * 16 + t.n]
                /\ UNCHANGED <<at, responses>>
           [] OTHER -> UNCHANGED <<at, local, responses>>
  BY DEF ReadChunkLine, Here
<1>3. s \in Int
  OBVIOUS
<1> HIDE DEF t, s
<1>4. t.kind = "lf" /\ s = -2 => Finish(local)
  BY <1>2
<1>5. t.kind = "lf" /\ s = -1 =>
        local' = [local EXCEPT !.chunkSize = 0] /\ at' = at /\ responses' = responses
  BY <1>2
<1>6. t.kind = "lf" /\ s >= 0 => SizeRead(local)
  BY <1>2, <1>3
<1>7. t.kind = "digit" /\ s >= 0 =>
        /\ local' = [local EXCEPT !.chunkSize = s * 16 + t.n]
        /\ at' = at /\ responses' = responses
  BY <1>2
<1>8. t.kind = "cr" => local' = local /\ at' = at /\ responses' = responses
  BY <1>2
<1> QED
  BY <1>1, <1>4, <1>5, <1>6, <1>7, <1>8 DEF t, s, ChunkTokenRead

\* The kind and the number of a token.
LEMMA TokenKinds ==
  ASSUME NEW kind, NEW of, NEW n
  PROVE  Token(kind, of, n).kind = kind /\ Token(kind, of, n).n = n
BY DEF Token

\* The hex digits of a size, read one by one.
LEMMA HexReadIs ==
  ASSUME NEW z \in 1..255, NEW o \in 0..(HexLen(z) + 1)
  PROVE  /\ HexLen(z) \in 1..2 /\ HexRead(z, o) \in Nat
         /\ o < HexLen(z) =>
              /\ Hex(z)[o + 1].kind = "digit"
              /\ HexRead(z, o) * 16 + Hex(z)[o + 1].n = HexRead(z, o + 1)
         /\ o >= HexLen(z) => HexRead(z, o) = z
<1> DEFINE h == HexLen(z)
           d == z \div 16
           m == z % 16
           x == Hex(z)[1]
           y == Hex(z)[2]
<1>1. /\ d \in Nat /\ m \in Nat /\ d * 16 + m = z
      /\ h = IF z > 15 THEN 2 ELSE 1
  BY DEF HexLen
<1>2. /\ z > 15 => /\ x.kind = "digit" /\ x.n = d
                   /\ y.kind = "digit" /\ y.n = m
      /\ z <= 15 => x.kind = "digit" /\ x.n = z
  <2>1. /\ z > 15 => x = Token("digit", 0, d) /\ y = Token("digit", 0, m)
        /\ z <= 15 => x = Token("digit", 0, z)
    <3>1. z \in 0..255
      OBVIOUS
    <3> QED
      BY <3>1, HexIs, Zenon
  <2> HIDE DEF x, y, d, m
  <2> QED
    BY <2>1, TokenKinds
<1>3. HexRead(z, o) = IF o = 0 THEN 0 ELSE IF o = 1 /\ z > 15 THEN d ELSE z
  BY DEF HexRead
<1>4. HexRead(z, o + 1) = IF o + 1 = 0 THEN 0 ELSE IF o + 1 = 1 /\ z > 15 THEN d ELSE z
  BY DEF HexRead
<1>5. o \in 0..(h + 1)
  OBVIOUS
<1> HIDE DEF h, d, m, x, y
<1>6. h \in 1..2 /\ HexRead(z, o) \in Nat
  BY <1>1, <1>3
<1>7. o >= h => HexRead(z, o) = z
  BY <1>1, <1>3, <1>5
<1>8. CASE o = 0
  <2>1. Hex(z)[o + 1] = x
    BY <1>8 DEF x
  <2>2. HexRead(z, o) = 0 /\ HexRead(z, o + 1) = IF z > 15 THEN d ELSE z
    BY <1>3, <1>4, <1>8
  <2>3. x.kind = "digit" /\ 0 * 16 + x.n = HexRead(z, o + 1)
    BY <1>1, <1>2, <2>2
  <2> QED
    BY <1>6, <1>7, <2>1, <2>2, <2>3 DEF h
<1>9. CASE o = 1 /\ z > 15
  <2>1. Hex(z)[o + 1] = y
    BY <1>9 DEF y
  <2>2. HexRead(z, o) = d /\ HexRead(z, o + 1) = z
    BY <1>3, <1>4, <1>9
  <2>3. y.kind = "digit" /\ d * 16 + y.n = HexRead(z, o + 1)
    BY <1>1, <1>2, <1>9, <2>2
  <2> QED
    BY <1>6, <1>7, <2>1, <2>2, <2>3 DEF h
<1>10. CASE o # 0 /\ ~(o = 1 /\ z > 15)
  <2>1. ~(o < h)
    BY <1>1, <1>5, <1>10
  <2> QED
    BY <1>6, <1>7, <2>1 DEF h
<1> QED
  BY <1>8, <1>9, <1>10

\* recv in the size line of chunk c goes on to its end, then to the block.
LEMMA InSizeKeeps ==
  ASSUME NEW p \in Plans, NEW i \in Replied(p), i = Len(responses) + 1,
         plan = p, stream = SentAll(p),
         responses \in Seq(Answers), OwnResponses,
         ~p[i].head, p[i].framing = "chunked",
         NEW c \in 1..Len(p[i].chunks), InSize(p, i, c), ReadChunkLine
  PROVE  RecvInv'
<1> DEFINE z == p[i].chunks[c]
           h == HexLen(z)
           b == BodyBegin(p, i) + ChunkBegin(p, i, c)
           x == Before(p[i].chunks)[c - 1]
           t == stream[pos + 1]
<1>1. PICK o \in 0..(h + 1) : pos = b + o /\ local = BodyRead(p, i, HexRead(z, o), 0, x)
  BY DEF InSize
<1> DEFINE r == HexRead(z, o)
<1>2. /\ z \in 1..255 /\ h \in 1..2 /\ b \in Nat /\ x \in Nat
      /\ \A k \in 1..h : stream[b + k] = Hex(z)[k]
      /\ stream[b + h + 1] = Token("cr", 0, 0) /\ stream[b + h + 2] = Token("lf", 0, 0)
  <2>1. ChunkStands(p, i, c)
    BY ChunkTokens
  <2> QED
    BY <2>1, Zenon DEF ChunkStands
<1>3. /\ r \in Nat
      /\ o < h => Hex(z)[o + 1].kind = "digit" /\ r * 16 + Hex(z)[o + 1].n = HexRead(z, o + 1)
      /\ o >= h => r = z
  <2>1. z \in 1..255 /\ o \in 0..(HexLen(z) + 1)
    BY <1>1, <1>2
  <2> HIDE DEF z
  <2> QED
    BY <2>1, HexReadIs
<1>4. /\ local.chunkSize = r
      /\ \A w : [local EXCEPT !.chunkSize = w] = BodyRead(p, i, w, 0, x)
      /\ \A w : [local EXCEPT !.left = w] = BodyRead(p, i, r, w, x)
  BY <1>1, BodyReadIs
<1>5. plan' = p /\ stream' = SentAll(p) /\ pos' = pos + 1 /\ ChunkTokenRead(t)
  <2>1. local.chunkSize \in Int
    BY <1>3, <1>4
  <2> QED
    BY <2>1, ReadChunkLineIs
<1>6. pos = b + o /\ o \in 0..(h + 1) /\ local = BodyRead(p, i, r, 0, x)
  BY <1>1
<1>7. /\ z \in 1..255 /\ h \in 1..2 /\ b \in Nat /\ x \in Nat
  BY <1>2
<1> HIDE DEF z, h, b, x, t, r
<1>9. CASE o < h
  <2>1. o + 1 \in 1..h /\ b + (o + 1) = pos + 1
    BY <1>6, <1>7, <1>9
  <2>2. t = Hex(z)[o + 1]
    BY <1>2, <2>1 DEF t
  <2>3. t.kind = "digit" /\ r >= 0 /\ r * 16 + t.n = HexRead(z, o + 1)
    BY <1>3, <1>9, <2>2
  <2>4. /\ local' = [local EXCEPT !.chunkSize = r * 16 + t.n]
        /\ at' = "chunk" /\ responses' = responses
    BY <1>4, <1>5, <2>3 DEF ChunkTokenRead
  <2>5. local' = BodyRead(p, i, HexRead(z, o + 1), 0, x)
    BY <1>4, <2>3, <2>4
  <2>6. o + 1 \in 0..(h + 1) /\ pos' = b + (o + 1)
    BY <1>5, <1>6, <1>7, <1>9
  <2>7. InSize(p, i, c)'
    BY <2>4, <2>5, <2>6 DEF InSize, z, h, b, x
  <2>8. InChunks(p, i)'
    BY <2>7 DEF InChunks
  <2> QED
    BY <1>5, <2>4, <2>8, GoesOn DEF Responding
<1>10. CASE o = h
  <2>1. pos + 1 = b + h + 1
    BY <1>6, <1>7, <1>10
  <2>2. t.kind = "cr"
    BY <1>2, <2>1, TokenKinds DEF t
  <2>3. local' = local /\ at' = "chunk" /\ responses' = responses
    BY <1>5, <2>2 DEF ChunkTokenRead
  <2>4. o + 1 \in 0..(h + 1) /\ pos' = b + (o + 1) /\ o >= h /\ o + 1 >= h
    BY <1>5, <1>6, <1>7, <1>10
  <2>5. r = z /\ HexRead(z, o + 1) = z
    <3>1. HexRead(z, o + 1) = z
      BY <1>7, <2>4, HexReadIs DEF h
    <3> QED
      BY <1>3, <2>4, <3>1
  <2>6. local' = BodyRead(p, i, HexRead(z, o + 1), 0, x)
    BY <1>6, <2>3, <2>5
  <2>7. InSize(p, i, c)'
    BY <2>3, <2>4, <2>6 DEF InSize, z, h, b, x
  <2>8. InChunks(p, i)'
    BY <2>7 DEF InChunks
  <2> QED
    BY <1>5, <2>3, <2>8, GoesOn DEF Responding
<1>11. CASE o = h + 1
  <2>1. pos + 1 = b + h + 2 /\ o >= h
    BY <1>6, <1>7, <1>11
  <2>2. t.kind = "lf"
    BY <1>2, <2>1, TokenKinds DEF t
  <2>3. r = z /\ r >= 0 /\ r # 0
    <3>1. r = z
      BY <1>3, <2>1, Zenon
    <3>2. z \in 1..255
      BY <1>7
    <3> QED
      BY <3>1, <3>2
  <2>4. SizeRead(local)
    BY <1>4, <1>5, <2>2, <2>3 DEF ChunkTokenRead
  <2>5. local' = [local EXCEPT !.left = z] /\ at' = "block" /\ responses' = responses
    BY <1>4, <2>3, <2>4 DEF SizeRead
  <2>6. local' = BodyRead(p, i, z, z - 0, x + 0) /\ 0 \in 0..(z - 1)
    <3>1. local' = BodyRead(p, i, z, z, x)
      BY <1>4, <2>3, <2>5
    <3>2. z - 0 = z /\ x + 0 = x /\ 0 \in 0..(z - 1)
      BY <1>7
    <3> QED
      BY <3>1, <3>2, Zenon
  <2>7. pos' = DataBegin(p, i, c) + 0
    <3>1. DataBegin(p, i, c) = b + h + 2
      BY DEF DataBegin, z, b, h
    <3>2. pos' = (b + h + 2) + 0
      BY <1>5, <1>6, <1>7, <1>11
    <3> QED
      BY <3>1, <3>2
  <2>8. InData(p, i, c)'
    BY <2>5, <2>6, <2>7 DEF InData, z, x
  <2>9. InChunks(p, i)'
    BY <2>8 DEF InChunks
  <2> QED
    BY <1>5, <2>5, <2>9, GoesOn DEF Responding
<1> QED
  BY <1>6, <1>7, <1>9, <1>10, <1>11

\* recv behind the block of chunk c goes on to the next chunk, or the last.
LEMMA InDataEndKeeps ==
  ASSUME NEW p \in Plans, NEW i \in Replied(p), i = Len(responses) + 1,
         plan = p, stream = SentAll(p),
         responses \in Seq(Answers), OwnResponses,
         ~p[i].head, p[i].framing = "chunked",
         NEW c \in 1..Len(p[i].chunks), InDataEnd(p, i, c), ReadChunkLine
  PROVE  RecvInv'
<1> DEFINE z == p[i].chunks[c]
           h == HexLen(z)
           b == BodyBegin(p, i) + ChunkBegin(p, i, c)
           e == BodyBegin(p, i) + ChunkBegin(p, i, c + 1)
           y == Before(p[i].chunks)[c]
           n == Len(p[i].chunks)
           t == stream[pos + 1]
           d == DataBegin(p, i, c)
<1>1. PICK o \in 0..1 : pos = d + z + o
  BY DEF InDataEnd
<1>2. local = BodyRead(p, i, -1, 0, y)
  BY DEF InDataEnd
<1>3. /\ z \in 1..255 /\ h \in 1..2 /\ b \in Nat /\ e = b + h + z + 4
      /\ stream[b + h + 2 + z + 1] = Token("cr", 0, 0)
      /\ stream[b + h + 2 + z + 2] = Token("lf", 0, 0)
  <2>1. ChunkStands(p, i, c)
    BY ChunkTokens
  <2> QED
    BY <2>1, Zenon DEF ChunkStands
<1>4. d = b + h + 2
  BY DEF DataBegin
<1>5. /\ local.chunkSize = -1
      /\ \A w : [local EXCEPT !.chunkSize = w] = BodyRead(p, i, w, 0, y)
  BY <1>2, BodyReadIs
<1>6. plan' = p /\ stream' = SentAll(p) /\ pos' = pos + 1 /\ ChunkTokenRead(t)
  <2>1. local.chunkSize \in Int
    BY <1>5
  <2> QED
    BY <2>1, ReadChunkLineIs
<1>7. n \in Nat /\ c \in 1..n /\ i \in 1..Depth
  <2>1. i \in 1..Depth
    BY BodyTokens
  <2> QED
    BY <2>1, ReplyIs
<1>8. z \in 1..255 /\ h \in 1..2 /\ b \in Nat /\ e = b + h + z + 4
  BY <1>3
<1>9. pos = d + z + o /\ o \in 0..1
  BY <1>1
<1> HIDE DEF z, h, b, e, y, n, t, d
<1>10. CASE o = 0
  <2>1. pos + 1 = b + h + 2 + z + 1
    BY <1>4, <1>8, <1>9, <1>10
  <2>2. t.kind = "cr"
    BY <1>3, <2>1, TokenKinds DEF t
  <2>3. local' = local /\ at' = "chunk" /\ responses' = responses
    BY <1>6, <2>2 DEF ChunkTokenRead
  <2>4. pos' = d + z + 1 /\ 1 \in 0..1
    BY <1>4, <1>6, <1>8, <1>9, <1>10
  <2>5. local' = BodyRead(p, i, -1, 0, y)
    BY <1>2, <2>3
  <2>6. InDataEnd(p, i, c)'
    BY <2>3, <2>4, <2>5 DEF InDataEnd, d, z, y
  <2>7. InChunks(p, i)'
    BY <2>6 DEF InChunks
  <2> QED
    BY <1>6, <2>3, <2>7, GoesOn DEF Responding
<1>11. CASE o = 1
  <2>1. pos + 1 = b + h + 2 + z + 2
    BY <1>4, <1>8, <1>9, <1>11
  <2>2. t.kind = "lf"
    BY <1>3, <2>1, TokenKinds DEF t
  <2>3. /\ local' = [local EXCEPT !.chunkSize = 0]
        /\ at' = "chunk" /\ responses' = responses
    BY <1>5, <1>6, <2>2 DEF ChunkTokenRead
  <2>4. local' = BodyRead(p, i, 0, 0, y)
    BY <1>5, <2>3
  <2>5. pos' = e + 0
    BY <1>4, <1>6, <1>8, <1>9, <1>11
  <2>6. CASE c = n
    <3>1. e = BodyBegin(p, i) + ChunksEnd(p, i)
      BY <2>6 DEF e, n, ChunksEnd
    <3>2. y = Size(p[i].chunks)
      BY <1>7, <2>6, SizeIs DEF y, n
    <3>3. 0 \in 0..4 /\ 0 <= 2
      OBVIOUS
    <3>4. local' = BodyRead(p, i, IF 0 <= 2 THEN 0 ELSE -2, 0, Size(p[i].chunks))
      BY <2>4, <3>2, <3>3
    <3>5. InLastChunk(p, i)'
      BY <2>3, <2>5, <3>1, <3>3, <3>4 DEF InLastChunk
    <3>6. InChunks(p, i)'
      BY <3>5 DEF InChunks
    <3> QED
      BY <1>6, <2>3, <3>6, GoesOn DEF Responding
  <2>7. CASE c # n
    <3> DEFINE j == c + 1
               w == p[i].chunks[j]
    <3>1. j \in 1..n /\ j - 1 = c
      BY <1>7, <2>7
    <3>2. HexRead(w, 0) = 0
      BY DEF HexRead
    <3>3. 0 \in 0..(HexLen(w) + 1)
      BY DEF HexLen
    <3>4. pos' = BodyBegin(p, i) + ChunkBegin(p, i, j) + 0
      BY <2>5 DEF e
    <3>5. local' = BodyRead(p, i, HexRead(w, 0), 0, Before(p[i].chunks)[j - 1])
      BY <2>4, <3>1, <3>2 DEF y
    <3> HIDE DEF j
    <3>6. InSize(p, i, j)'
      BY <2>3, <3>3, <3>4, <3>5 DEF InSize
    <3>7. InChunks(p, i)'
      BY <3>1, <3>6 DEF InChunks, n
    <3> QED
      BY <1>6, <2>3, <3>7, GoesOn DEF Responding
  <2> QED
    BY <2>6, <2>7
<1> QED
  BY <1>9, <1>10, <1>11

\* recv in the last chunk goes on to the end of the body.
LEMMA InLastChunkKeeps ==
  ASSUME NEW p \in Plans, NEW i \in Replied(p), i = Len(responses) + 1,
         plan = p, stream = SentAll(p),
         responses \in Seq(Answers), OwnResponses,
         ~p[i].head, p[i].framing = "chunked",
         InLastChunk(p, i), ReadChunkLine
  PROVE  RecvInv'
<1> DEFINE b == BodyBegin(p, i) + ChunksEnd(p, i)
           y == Size(p[i].chunks)
           t == stream[pos + 1]
           s == local.chunkSize
<1>1. PICK o \in 0..4 :
        pos = b + o /\ local = BodyRead(p, i, IF o <= 2 THEN 0 ELSE -2, 0, y)
  BY DEF InLastChunk
<1>2. /\ b \in Nat /\ b + 5 = Begin(p, i + 1)
      /\ stream[b + 1] = Token("digit", 0, 0)
      /\ stream[b + 2] = Token("cr", 0, 0) /\ stream[b + 3] = Token("lf", 0, 0)
      /\ stream[b + 4] = Token("cr", 0, 0) /\ stream[b + 5] = Token("lf", 0, 0)
  <2>1. LastChunkStands(p, i)
    BY LastChunkTokens
  <2> QED
    BY <2>1, Zenon DEF LastChunkStands
<1>3. /\ s = IF o <= 2 THEN 0 ELSE -2
      /\ \A w : [local EXCEPT !.chunkSize = w] = BodyRead(p, i, w, 0, y)
      /\ local.status = Status(i) /\ local.gzip = p[i].gzip /\ local.close = p[i].close
      /\ local.body = Bytes(p, i, y)
  BY <1>1, BodyReadIs
<1>4. local = BodyRead(p, i, s, 0, y)
  BY <1>1, <1>3
<1>5. plan' = p /\ stream' = SentAll(p) /\ pos' = pos + 1 /\ ChunkTokenRead(t)
  <2>1. local.chunkSize \in Int
    BY <1>3
  <2> QED
    BY <2>1, ReadChunkLineIs
<1>6. pos = b + o /\ o \in 0..4 /\ b \in Nat
  BY <1>1, <1>2
<1>7. s = IF o <= 2 THEN 0 ELSE -2
  BY <1>3
\* A step inside the last chunk.
<1>8. ASSUME o # 4, local' = BodyRead(p, i, IF o + 1 <= 2 THEN 0 ELSE -2, 0, y),
             at' = "chunk", responses' = responses
      PROVE  RecvInv'
  <2>1. o + 1 \in 0..4 /\ pos' = b + (o + 1)
    BY <1>5, <1>6, <1>8
  <2>2. InLastChunk(p, i)'
    BY <1>8, <2>1 DEF InLastChunk
  <2>3. InChunks(p, i)'
    BY <2>2 DEF InChunks
  <2> QED
    BY <1>5, <1>8, <2>3, GoesOn DEF Responding
<1> HIDE DEF b, y, t, s
<1>9. CASE o = 0
  <2>1. pos + 1 = b + 1
    BY <1>6, <1>9
  <2>2. t.kind = "digit" /\ t.n = 0
    BY <1>2, <2>1, TokenKinds DEF t
  <2>3. s = 0 /\ s >= 0 /\ s * 16 + 0 = 0
    BY <1>7, <1>9
  <2>4. /\ local' = [local EXCEPT !.chunkSize = s * 16 + 0]
        /\ at' = "chunk" /\ responses' = responses
    BY <1>5, <2>2, <2>3 DEF ChunkTokenRead, s
  <2>5. local' = BodyRead(p, i, IF o + 1 <= 2 THEN 0 ELSE -2, 0, y) /\ o # 4
    <3>1. local' = BodyRead(p, i, 0, 0, y)
      BY <1>3, <2>3, <2>4
    <3> QED
      BY <1>9, <3>1
  <2> QED
    BY <1>8, <2>4, <2>5
<1>10. CASE o \in {1, 3}
  <2>1. pos + 1 = b + 2 \/ pos + 1 = b + 4
    BY <1>6, <1>10
  <2>2. t.kind = "cr"
    BY <1>2, <2>1, TokenKinds DEF t
  <2>3. local' = local /\ at' = "chunk" /\ responses' = responses
    BY <1>5, <2>2 DEF ChunkTokenRead
  <2>4. s = (IF o + 1 <= 2 THEN 0 ELSE -2) /\ o # 4
    BY <1>7, <1>10
  <2> QED
    BY <1>4, <1>8, <2>3, <2>4
<1>11. CASE o = 2
  <2>1. pos + 1 = b + 3
    BY <1>6, <1>11
  <2>2. t.kind = "lf"
    BY <1>2, <2>1, TokenKinds DEF t
  <2>3. s = 0 /\ s >= 0
    BY <1>7, <1>11
  <2>4. SizeRead(local)
    BY <1>5, <2>2, <2>3 DEF ChunkTokenRead, s
  <2>5. at = "chunk"
    BY DEF InLastChunk
  <2>6. /\ local' = [local EXCEPT !.chunkSize = -2]
        /\ at' = "chunk" /\ responses' = responses
    BY <2>3, <2>4, <2>5 DEF SizeRead, s
  <2>7. local' = BodyRead(p, i, IF o + 1 <= 2 THEN 0 ELSE -2, 0, y) /\ o # 4
    <3>1. local' = BodyRead(p, i, -2, 0, y)
      BY <1>3, <2>6
    <3> QED
      BY <1>11, <3>1
  <2> QED
    BY <1>8, <2>6, <2>7
<1>12. CASE o = 4
  <2>1. pos + 1 = b + 5
    BY <1>6, <1>12
  <2>2. t.kind = "lf"
    BY <1>2, <2>1, TokenKinds DEF t
  <2>3. s = -2
    BY <1>7, <1>12
  <2>4. Finish(local)
    BY <1>5, <2>2, <2>3 DEF ChunkTokenRead, s
  <2>5. pos' = Begin(p, i + 1)
    BY <1>2, <1>5, <2>1
  <2>6. local.body = Bytes(p, i, Size(p[i].chunks))
    BY <1>3 DEF y
  <2> QED
    BY <1>3, <1>5, <2>4, <2>5, <2>6, FinishKeeps
<1> QED
  BY <1>6, <1>9, <1>10, <1>11, <1>12

-----------------------------------------------------------------------------
(* The specification. *)

\* recv begins at the header of the first reply.
LEMMA InitIsRight ==
  ASSUME PipeInit
  PROVE  RecvInv
<1>1. /\ plan \in Plans /\ stream = SentAll(plan) /\ pos = 0
      /\ at = "header" /\ local = Fresh /\ responses = <<>>
  BY DEF PipeInit, Init, Plans
<1>2. 1 \in Replied(plan) /\ Begin(plan, 1) = 0
  BY <1>1, SentAllIs
<1>3. InHeader(plan, 1)
  BY <1>1, <1>2 DEF InHeader
<1>4. responses \in Seq(Answers) /\ 1 = Len(responses) + 1 /\ DOMAIN responses = {}
  BY <1>1
<1>5. OwnResponses /\ StreamAligned
  BY <1>1, <1>4 DEF OwnResponses, StreamAligned
<1> QED
  BY <1>1, <1>2, <1>3, <1>4, <1>5 DEF RecvInv

\* A step that fails keeps the responses there are.
LEMMA FailingKeeps ==
  ASSUME RecvInv, at' = "failed", plan' = plan, stream' = stream, responses' = responses
  PROVE  RecvInv'
BY DEF RecvInv, OwnResponses, StreamAligned

\* A step of the server, of the network, or one that only writes.
LEMMA NoReadKeeps ==
  ASSUME RecvInv, UNCHANGED <<plan, stream, pos, at, local, responses>>
  PROVE  RecvInv'
<1>1. OwnResponses /\ StreamAligned
  BY DEF RecvInv
<1>2. OwnResponses' /\ StreamAligned'
  BY <1>1 DEF OwnResponses, StreamAligned
<1>3. CASE at \in {"header", "block", "chunk"}
  <2>1. PICK i \in Replied(plan) :
          i = Len(responses) + 1 /\ (InHeader(plan, i) \/ InLength(plan, i) \/ InChunks(plan, i))
    BY <1>3 DEF RecvInv
  <2>2. InHeader(plan, i) => InHeader(plan, i)'
    BY DEF InHeader, InInterim, InFields
  <2>3. InLength(plan, i) => InLength(plan, i)'
    BY DEF InLength
  <2>4. InChunks(plan, i) => InChunks(plan, i)'
    BY DEF InChunks, InSize, InData, InDataEnd, InLastChunk
  <2> QED
    BY <1>2, <2>1, <2>2, <2>3, <2>4 DEF RecvInv
<1>4. CASE at \notin {"header", "block", "chunk"}
  BY <1>2, <1>4 DEF RecvInv
<1> QED
  BY <1>3, <1>4

\* Every step of recv keeps it at its place in the reply it is to answer.
LEMMA RecvKeeps ==
  ASSUME RecvInv, Recv
  PROVE  RecvInv'
<1>1. CASE ResponseError \/ EndOfStream
  BY <1>1, FailingKeeps DEF ResponseError, EndOfStream, network
<1>2. CASE ~(ResponseError \/ EndOfStream)
  <2>1. ReadHeader \/ ReadBlank \/ ReadBlock \/ ReadChunkLine
    BY <1>2 DEF Recv
  <2>2. /\ ReadHeader \/ ReadBlank => at = "header"
        /\ ReadBlock => at = "block"
        /\ ReadChunkLine => at = "chunk"
    BY DEF ReadHeader, ReadBlank, ReadBlock, ReadChunkLine
  <2> PICK p \in Plans : p = plan
    BY DEF RecvInv
  <2>3. plan = p /\ stream = SentAll(p) /\ responses \in Seq(Answers) /\ OwnResponses
    BY DEF RecvInv
  <2>4. PICK i \in Replied(p) :
          i = Len(responses) + 1 /\ (InHeader(p, i) \/ InLength(p, i) \/ InChunks(p, i))
    BY <2>1, <2>2 DEF RecvInv
  <2>5. /\ InHeader(p, i) => at = "header"
        /\ InLength(p, i) => at = "block"
        /\ InChunks(p, i) => at \in {"block", "chunk"}
    BY DEF InHeader, InLength, InChunks, InSize, InData, InDataEnd, InLastChunk
  <2>6. CASE ReadHeader
    <3>1. InHeader(p, i)
      BY <2>2, <2>4, <2>5, <2>6
    <3>2. plan' = p /\ stream' = SentAll(p) /\ responses' = responses /\ at' = "header"
      BY <2>3, <2>6 DEF ReadHeader, network
    <3>3. InHeader(p, i)'
      BY <2>3, <2>4, <2>6, <3>1, <3>2, ReadHeaderKeeps
    <3> QED
      BY <2>3, <2>4, <3>2, <3>3, GoesOn DEF Responding
  <2>7. CASE ReadBlank
    <3>1. InHeader(p, i)
      BY <2>2, <2>4, <2>5, <2>7
    <3> QED
      BY <2>3, <2>4, <2>7, <3>1, ReadBlankKeeps
  <2>8. CASE ReadBlock
    <3>1. InLength(p, i) \/ InChunks(p, i)
      BY <2>2, <2>4, <2>5, <2>8
    <3>2. CASE InLength(p, i)
      BY <2>3, <2>4, <2>8, <3>2, LengthBlockKeeps
    <3>3. CASE InChunks(p, i)
      <4>1. ~p[i].head /\ p[i].framing = "chunked"
        BY <3>3 DEF InChunks
      <4>2. PICK c \in 1..Len(p[i].chunks) : InData(p, i, c)
        BY <2>2, <2>8, <3>3 DEF InChunks, InSize, InDataEnd, InLastChunk
      <4> QED
        BY <2>3, <2>4, <2>8, <4>1, <4>2, DataBlockKeeps
    <3> QED
      BY <3>1, <3>2, <3>3
  <2>9. CASE ReadChunkLine
    <3>1. InChunks(p, i)
      BY <2>2, <2>4, <2>5, <2>9
    <3>2. ~p[i].head /\ p[i].framing = "chunked"
      BY <3>1 DEF InChunks
    <3>3. CASE InLastChunk(p, i)
      BY <2>3, <2>4, <2>9, <3>2, <3>3, InLastChunkKeeps
    <3>4. CASE ~InLastChunk(p, i)
      <4>1. PICK c \in 1..Len(p[i].chunks) : InSize(p, i, c) \/ InDataEnd(p, i, c)
        BY <2>2, <2>9, <3>1, <3>4 DEF InChunks, InData
      <4>2. CASE InSize(p, i, c)
        BY <2>3, <2>4, <2>9, <3>2, <4>2, InSizeKeeps
      <4>3. CASE InDataEnd(p, i, c)
        BY <2>3, <2>4, <2>9, <3>2, <4>3, InDataEndKeeps
      <4> QED
        BY <4>1, <4>2, <4>3
    <3> QED
      BY <3>3, <3>4
  <2> QED
    BY <2>1, <2>6, <2>7, <2>8, <2>9
<1> QED
  BY <1>1, <1>2

\* While Pipeline.pipeline reads, recv is at a place of the reply to the request
\* it is to answer next, and its local variables hold what was read of it.
THEOREM RecvInvariant == PipeSpec => []RecvInv
<1>1. PipeInit => RecvInv
  BY InitIsRight
<1>2. RecvInv /\ [PipeNext]_pipeVars => RecvInv'
  <2> SUFFICES ASSUME RecvInv, [PipeNext]_pipeVars PROVE RecvInv'
    OBVIOUS
  <2>1. CASE ServerReads \/ ServerWrites \/ Lost \/ send \/ UNCHANGED pipeVars
    <3>1. UNCHANGED <<plan, stream, pos, at, local, responses>>
      BY <2>1 DEF ServerReads, ServerWrites, Arrive, Lost, ConnectionLost, send,
                  pipeVars, vars, network
    <3> QED
      BY <3>1, NoReadKeeps
  <2>2. CASE SendFails
    BY <2>2, FailingKeeps DEF SendFails, network
  <2>3. CASE Recv
    BY <2>3, RecvKeeps
  <2> QED
    BY <2>1, <2>2, <2>3 DEF PipeNext, pipeline
<1> QED
  BY <1>1, <1>2, PTL DEF PipeSpec

\* Pipeline.responses holds, for each request, the status and the body that the
\* server sent for it, whatever the replies, the blocks and the chunks are.
THEOREM ResponsesAreOwn == PipeSpec => []OwnResponses
<1>1. RecvInv => OwnResponses
  BY DEF RecvInv
<1> QED
  BY <1>1, RecvInvariant, PTL

\* When pipeline has all its responses it has read all that was sent: no byte is
\* left on the connection for the next request to take for its own.
THEOREM StreamStaysAligned == PipeSpec => []StreamAligned
<1>1. RecvInv => StreamAligned
  BY DEF RecvInv
<1> QED
  BY <1>1, RecvInvariant, PTL
=============================================================================
