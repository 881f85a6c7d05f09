-------------------------- MODULE ShellUtilProofs --------------------------
(***************************************************************************)
(* A result of callSystem is complete, for pipes of any size, processes    *)
(* that write any number of blocks to either stream, and streams closed at *)
(* any time.                                                               *)
(***************************************************************************)
EXTENDS ShellUtil, FiniteSetTheorems, TLAPS

\* The writes to s among the first n.
WritesTo(s, n) == {i \in 1..n : script[i] = s}

ShellTypes ==
  /\ Len(script) \in Nat /\ DOMAIN script = 1..Len(script)
  /\ written \in 0..Len(script)
  /\ exited \in BOOLEAN
  /\ pipe \in [Streams -> Nat] /\ result \in [Streams -> Nat]

\* A block that was written was read or is in the pipe.
Accounted == \A s \in Streams : result[s] + pipe[s] = Cardinality(WritesTo(s, written))

\* Nothing more is written to a stream that was closed, and the end closes both.
ClosedForGood ==
  /\ \A s \in Streams \ fds : \A i \in DOMAIN script : i > written => script[i] # s
  /\ exited => written = Len(script) /\ fds = {}

\* The handlers take turns, and one that has ended has left nothing behind.
TakenTurns ==
  /\ at \in Streams \ {FirstStream} => EndOfStream(FirstStream)
  /\ at \in {"wait", "returned"} => \A s \in Streams : EndOfStream(s)
  /\ at = "returned" => exited

ShellInv == ShellTypes /\ Accounted /\ ClosedForGood /\ TakenTurns

-----------------------------------------------------------------------------
\* Counting the writes.

LEMMA NoWrites == ASSUME NEW s PROVE Cardinality(WritesTo(s, 0)) = 0
<1>1. WritesTo(s, 0) = {}
  BY DEF WritesTo
<1> QED
  BY <1>1, FS_EmptySet

LEMMA CountOneMore ==
  ASSUME NEW s, NEW n \in Nat
  PROVE  /\ Cardinality(WritesTo(s, n)) \in Nat
         /\ Cardinality(WritesTo(s, n + 1)) =
              Cardinality(WritesTo(s, n)) + (IF script[n + 1] = s THEN 1 ELSE 0)
<1>1. IsFiniteSet(1..n) /\ WritesTo(s, n) \subseteq 1..n
  BY FS_Interval DEF WritesTo
<1>2. IsFiniteSet(WritesTo(s, n))
  BY <1>1, FS_Subset
<1>3. Cardinality(WritesTo(s, n)) \in Nat
  BY <1>2, FS_CardinalityType
<1>4. CASE script[n + 1] = s
  <2>1. WritesTo(s, n + 1) = WritesTo(s, n) \cup {n + 1} /\ n + 1 \notin WritesTo(s, n)
    BY <1>4 DEF WritesTo
  <2> QED
    BY <1>2, <1>3, <1>4, <2>1, FS_AddElement
<1>5. CASE script[n + 1] # s
  <2>1. WritesTo(s, n + 1) = WritesTo(s, n)
    BY <1>5 DEF WritesTo
  <2> QED
    BY <1>3, <1>5, <2>1
<1> QED
  BY <1>4, <1>5

LEMMA AllAreWritten ==
  ASSUME DOMAIN script = 1..Len(script), NEW s
  PROVE  Writes(s) = Cardinality(WritesTo(s, Len(script)))
  BY DEF Writes, WritesTo

-----------------------------------------------------------------------------
\* The steps.

LEMMA InitShell == Init => ShellInv
<1> SUFFICES ASSUME Init PROVE ShellInv
  OBVIOUS
<1>1. PICK n \in 0..MaxWrites : script \in [1..n -> Streams]
  BY DEF Init, Scripts
<1>2. Len(script) = n /\ DOMAIN script = 1..Len(script)
  BY <1>1, ShellAssumption
<1>3. ShellTypes
  <2>1. Len(script) \in Nat /\ written = 0 /\ exited = FALSE
    BY <1>1, <1>2, ShellAssumption DEF Init
  <2>2. written \in 0..Len(script)
    BY <2>1
  <2>3. pipe \in [Streams -> Nat] /\ result \in [Streams -> Nat]
    BY DEF Init
  <2> QED
    BY <1>2, <2>1, <2>2, <2>3, Zenon DEF ShellTypes
<1>4. Accounted
  BY NoWrites DEF Accounted, Init
<1>5. ClosedForGood /\ TakenTurns
  BY DEF ClosedForGood, TakenTurns, Init, Streams
<1> QED
  BY <1>3, <1>4, <1>5 DEF ShellInv

\* A process that writes has not closed the stream, so its handler has not ended.
LEMMA WriteKeeps ==
  ASSUME ShellInv, NEW s \in Streams, Write(s)
  PROVE  ShellInv'
<1>1. /\ ~exited /\ written < Len(script) /\ script[written + 1] = s
      /\ pipe' = [pipe EXCEPT ![s] = @ + 1] /\ written' = written + 1
      /\ UNCHANGED <<script, fds, exited, at, result>>
  BY DEF Write
<1>2. ShellTypes /\ Accounted /\ ClosedForGood /\ TakenTurns
  BY DEF ShellInv
<1>3. written \in Nat /\ Len(script) \in Nat /\ pipe \in [Streams -> Nat] /\ result \in [Streams -> Nat]
  BY <1>2 DEF ShellTypes
<1>4. ShellTypes'
  BY <1>1, <1>2, <1>3 DEF ShellTypes
<1>5. Accounted'
  <2> SUFFICES ASSUME NEW t \in Streams
               PROVE  result'[t] + pipe'[t] = Cardinality(WritesTo(t, written)')
    BY DEF Accounted
  <2>1. WritesTo(t, written)' = WritesTo(t, written + 1)
    BY <1>1 DEF WritesTo
  <2>2. Cardinality(WritesTo(t, written + 1)) =
          Cardinality(WritesTo(t, written)) + (IF s = t THEN 1 ELSE 0)
    BY <1>1, <1>3, CountOneMore
  <2>3. result[t] + pipe[t] = Cardinality(WritesTo(t, written))
    BY <1>2 DEF Accounted
  <2>4. pipe'[t] = pipe[t] + (IF s = t THEN 1 ELSE 0) /\ result'[t] = result[t]
    BY <1>1, <1>3
  <2>5. result[t] \in Nat /\ pipe[t] \in Nat
    BY <1>3
  <2> QED
    BY <2>1, <2>2, <2>3, <2>4, <2>5
<1>6. s \in fds
  <2>1. written + 1 \in DOMAIN script /\ written + 1 > written
    BY <1>1, <1>2, <1>3 DEF ShellTypes
  <2> QED
    BY <1>1, <1>2, <2>1 DEF ClosedForGood
<1>7. ClosedForGood'
  <2>1. \A i \in DOMAIN script : i > written + 1 => i > written
    BY <1>2, <1>3 DEF ShellTypes
  <2> QED
    BY <1>1, <1>2, <2>1 DEF ClosedForGood
<1>8. TakenTurns'
  <2>1. \A t \in Streams : EndOfStream(t) => EndOfStream(t)'
    BY <1>1, <1>3, <1>6 DEF EndOfStream
  <2> QED
    BY <1>1, <1>2, <2>1 DEF TakenTurns, FirstStream, Streams
<1> QED
  BY <1>4, <1>5, <1>7, <1>8 DEF ShellInv

LEMMA ReadKeeps ==
  ASSUME ShellInv, NEW s \in Streams, Read(s)
  PROVE  ShellInv'
<1>1. /\ at = s /\ pipe[s] > 0
      /\ pipe' = [pipe EXCEPT ![s] = @ - 1] /\ result' = [result EXCEPT ![s] = @ + 1]
      /\ UNCHANGED <<script, written, fds, exited, at>>
  BY DEF Read, process
<1>2. ShellTypes /\ Accounted /\ ClosedForGood /\ TakenTurns
  BY DEF ShellInv
<1>3. pipe \in [Streams -> Nat] /\ result \in [Streams -> Nat]
  BY <1>2 DEF ShellTypes
<1>4. ShellTypes'
  BY <1>1, <1>2, <1>3 DEF ShellTypes
<1>5. Accounted'
  <2> SUFFICES ASSUME NEW t \in Streams
               PROVE  result'[t] + pipe'[t] = Cardinality(WritesTo(t, written)')
    BY DEF Accounted
  <2>1. WritesTo(t, written)' = WritesTo(t, written)
    BY <1>1 DEF WritesTo
  <2>2. result[t] + pipe[t] = Cardinality(WritesTo(t, written))
    BY <1>2 DEF Accounted
  <2>3. result'[t] + pipe'[t] = result[t] + pipe[t]
    <3>1. CASE t = s
      BY <1>1, <1>3, <3>1
    <3>2. CASE t # s
      BY <1>1, <1>3, <3>2
    <3> QED
      BY <3>1, <3>2
  <2> QED
    BY <2>1, <2>2, <2>3
<1>6. ClosedForGood'
  BY <1>1, <1>2 DEF ClosedForGood
<1>7. TakenTurns'
  <2>1. \A t \in Streams : EndOfStream(t) => EndOfStream(t)'
    BY <1>1, <1>3 DEF EndOfStream
  <2> QED
    BY <1>1, <1>2, <2>1 DEF TakenTurns, FirstStream, Streams
<1> QED
  BY <1>4, <1>5, <1>6, <1>7 DEF ShellInv

\* The process closes a stream, or ends and closes all.
LEMMA ClosingKeeps ==
  ASSUME ShellInv, Exit \/ \E s \in Streams : CloseEarly(s)
  PROVE  ShellInv'
<1>1. UNCHANGED <<script, written, pipe, at, result>> /\ fds' \subseteq fds
  BY DEF Exit, CloseEarly
<1>2. ShellTypes /\ Accounted /\ ClosedForGood /\ TakenTurns
  BY DEF ShellInv
<1>3. ShellTypes' /\ Accounted'
  BY <1>1, <1>2 DEF ShellTypes, Accounted, WritesTo, Exit, CloseEarly
<1>4. ClosedForGood'
  <2>1. CASE Exit
    <3>1. written = Len(script) /\ exited' = TRUE /\ fds' = {}
      BY <2>1 DEF Exit
    <3>2. \A i \in DOMAIN script : ~(i > written)
      BY <1>2, <3>1 DEF ShellTypes
    <3> QED
      BY <1>1, <3>1, <3>2 DEF ClosedForGood
  <2>2. ASSUME NEW s \in Streams, CloseEarly(s) PROVE ClosedForGood'
    BY <1>2, <2>2 DEF ClosedForGood, CloseEarly
  <2> QED
    BY <2>1, <2>2
<1>5. TakenTurns'
  <2>1. \A t \in Streams : EndOfStream(t) => EndOfStream(t)'
    BY <1>1 DEF EndOfStream
  <2>2. exited => exited'
    BY DEF Exit, CloseEarly
  <2> QED
    BY <1>1, <1>2, <2>1, <2>2 DEF TakenTurns, FirstStream, Streams
<1> QED
  BY <1>3, <1>4, <1>5 DEF ShellInv

\* callSystem goes from one stage to the next.
LEMMA StageKeeps ==
  ASSUME ShellInv,
         WaitFor \/ Exec \/ ExecFails \/ \E s \in Streams : HandlerEnds(s) \/ HandlerFails(s)
  PROVE  ShellInv'
<1>1. UNCHANGED <<script, written, fds, exited, pipe, result>>
  BY DEF WaitFor, Exec, ExecFails, HandlerEnds, HandlerFails, process
<1>2. ShellTypes /\ Accounted /\ ClosedForGood /\ TakenTurns
  BY DEF ShellInv
<1>3. ShellTypes' /\ Accounted' /\ ClosedForGood'
  BY <1>1, <1>2 DEF ShellTypes, Accounted, WritesTo, ClosedForGood
<1>4. \A t \in Streams : EndOfStream(t)' <=> EndOfStream(t)
  BY <1>1 DEF EndOfStream
<1>5. ASSUME WaitFor PROVE TakenTurns'
  <2>1. at = "wait" /\ exited /\ at' = "returned"
    BY <1>5 DEF WaitFor
  <2> QED
    BY <1>1, <1>2, <1>4, <2>1 DEF TakenTurns, Streams, FirstStream
<1>6. ASSUME Exec \/ ExecFails \/ \E s \in Streams : HandlerFails(s) PROVE TakenTurns'
  <2>1. at' \in {FirstStream, "failed"}
    BY <1>6 DEF Exec, ExecFails, HandlerFails
  <2> QED
    BY <2>1 DEF TakenTurns, FirstStream, Streams
<1>7. ASSUME NEW s \in Streams, HandlerEnds(s) PROVE TakenTurns'
  <2>1. at = s /\ EndOfStream(s) /\ at' = NextStage(s)
    BY <1>7 DEF HandlerEnds
  <2>2. CASE s = FirstStream
    <3>1. at' \in Streams
      BY <2>1, <2>2 DEF NextStage, Streams, FirstStream
    <3> QED
      BY <1>4, <2>1, <2>2, <3>1 DEF TakenTurns, Streams, FirstStream
  <2>3. CASE s # FirstStream
    <3>1. at' = "wait" /\ EndOfStream(FirstStream) /\ Streams = {s, FirstStream}
      BY <1>2, <2>1, <2>3 DEF NextStage, TakenTurns, Streams, FirstStream
    <3> QED
      BY <1>4, <2>1, <3>1 DEF TakenTurns, FirstStream, Streams
  <2> QED
    BY <2>2, <2>3
<1> QED
  BY <1>3, <1>5, <1>6, <1>7 DEF ShellInv

LEMMA NextShell == ShellInv /\ [Next]_vars => ShellInv'
<1> SUFFICES ASSUME ShellInv, [Next]_vars PROVE ShellInv'
  OBVIOUS
<1>1. CASE UNCHANGED vars
  BY <1>1 DEF vars, process, ShellInv, ShellTypes, Accounted, WritesTo, ClosedForGood, TakenTurns,
     EndOfStream
<1>2. CASE Process
  BY <1>2, WriteKeeps, ClosingKeeps DEF Process
<1>3. CASE Reader \/ Failure
  BY <1>3, ReadKeeps, StageKeeps DEF Reader, Failure
<1> QED
  BY <1>1, <1>2, <1>3 DEF Next

\* callSystem returns only when the process has ended and both streams were
\* read completely, whatever the process closed before its end.
THEOREM ResultIsAlwaysComplete == Spec => []ResultIsComplete
<1>1. ShellInv => ResultIsComplete
  <2> SUFFICES ASSUME ShellInv, at = "returned", NEW s \in Streams
               PROVE  exited /\ result[s] = Writes(s)
    BY DEF ResultIsComplete, Streams
  <2>1. exited /\ written = Len(script) /\ pipe[s] = 0
    BY DEF ShellInv, TakenTurns, ClosedForGood, EndOfStream
  <2>2. result[s] + pipe[s] = Writes(s) /\ result[s] \in Nat
    BY <2>1, AllAreWritten DEF ShellInv, ShellTypes, Accounted
  <2> QED
    BY <2>1, <2>2
<1> QED
  BY <1>1, InitShell, NextShell, PTL DEF Spec
=============================================================================
