------------------------------ MODULE ShellUtil ------------------------------
(***************************************************************************)
(* base/ShellUtil.java: callSystem starts a process and reads its standard *)
(* output to the end, then its standard error to the end, and then waits   *)
(* for it to exit.  The two streams are pipes of the operating system: a   *)
(* process that writes to a full one waits until somebody reads.           *)
(*                                                                         *)
(* The process is any program that ends if its writes succeed: a sequence  *)
(* of blocks, each written to one of the two streams.                      *)
(***************************************************************************)
EXTENDS Integers, Sequences, FiniteSets

CONSTANTS
  PipeSize,   \* the blocks a pipe holds
  MaxWrites   \* bound: the blocks one process writes

ASSUME ShellAssumption == PipeSize \in Nat \ {0} /\ MaxWrites \in Nat

Streams == {"out", "err"}

VARIABLES
  script,     \* the streams the process writes to, in order
  written,    \* how many of these writes are done
  fds,        \* the streams the process has not closed
  exited,     \* the process has ended
  pipe,       \* the blocks written and not yet read, per stream
  at,         \* where callSystem is
  result      \* the blocks read so far, per stream

process == <<script, written, fds, exited>>
vars == <<process, pipe, at, result>>

Scripts == UNION {[1..n -> Streams] : n \in 0..MaxWrites}
Ended == {"returned", "failed"}
Writes(s) == Cardinality({i \in DOMAIN script : script[i] = s})

-----------------------------------------------------------------------------
(* The process *)

\* Its next write goes to s, and the pipe has room.
Write(s) ==
  /\ at # "exec" /\ ~exited
  /\ written < Len(script) /\ script[written + 1] = s
  /\ pipe[s] < PipeSize
  /\ pipe' = [pipe EXCEPT ![s] = @ + 1]
  /\ written' = written + 1
  /\ UNCHANGED <<script, fds, exited, at, result>>

\* A process may close a stream it needs no more before it ends.
CloseEarly(s) ==
  /\ at # "exec" /\ ~exited /\ s \in fds
  /\ \A i \in DOMAIN script : i > written => script[i] # s
  /\ fds' = fds \ {s}
  /\ UNCHANGED <<script, written, exited, pipe, at, result>>

Exit ==
  /\ at # "exec" /\ ~exited /\ written = Len(script)
  /\ exited' = TRUE /\ fds' = {}
  /\ UNCHANGED <<script, written, pipe, at, result>>

-----------------------------------------------------------------------------
(* callSystem *)

\* The order in which the streams are read, and the other one.
ErrorFirst == "err"
FirstStream == "out"
NextStage(s) == IF s = FirstStream THEN CHOOSE x \in Streams : x # s ELSE "wait"

Exec ==
  /\ at = "exec"
  /\ at' = FirstStream
  /\ UNCHANGED <<process, pipe, result>>

ExecFails ==
  /\ at = "exec"
  /\ at' = "failed"
  /\ UNCHANGED <<process, pipe, result>>

\* The stream a handler is reading.
Read(s) ==
  /\ at = s /\ pipe[s] > 0
  /\ pipe' = [pipe EXCEPT ![s] = @ - 1]
  /\ result' = [result EXCEPT ![s] = @ + 1]
  /\ UNCHANGED <<process, at>>

\* readLine returns null only when everything was read and nobody can write.
AtOnce(s) == pipe[s] = 0
EndOfStream(s) == pipe[s] = 0 /\ s \notin fds

HandlerEnds(s) ==
  /\ at = s /\ EndOfStream(s)
  /\ at' = NextStage(s)
  /\ UNCHANGED <<process, pipe, result>>

\* An IOException while reading leaves callSystem as a RuntimeErrorException;
\* the process goes on.
HandlerFails(s) ==
  /\ at = s
  /\ at' = "failed"
  /\ UNCHANGED <<process, pipe, result>>

WaitFor ==
  /\ at = "wait" /\ exited
  /\ at' = "returned"
  /\ UNCHANGED <<process, pipe, result>>

-----------------------------------------------------------------------------

Process == Exit \/ \E s \in Streams : Write(s) \/ CloseEarly(s)
Reader == WaitFor \/ Exec \/ \E s \in Streams : Read(s) \/ HandlerEnds(s)
Failure == ExecFails \/ \E s \in Streams : HandlerFails(s)

Init ==
  /\ script \in Scripts
  /\ written = 0 /\ fds = Streams /\ exited = FALSE
  /\ pipe = [s \in Streams |-> 0]
  /\ at = "exec"
  /\ result = [s \in Streams |-> 0]

Next == Process \/ Reader \/ Failure

\* The operating system lets a process run that can, and the JVM a thread.
Spec == Init /\ [][Next]_vars /\ WF_vars(Process) /\ WF_vars(Reader)

-----------------------------------------------------------------------------
(* Properties *)

\* callSystem returns a result only when the process has ended and both
\* streams were read completely, whatever the process closed before its end.
ResultIsComplete ==
  at = "returned" => exited /\ \A s \in Streams : result[s] = Writes(s)

\* callSystem returns if what the process writes to standard error fits into
\* the pipe, however much it writes to standard output.
ReturnsIfErrorFits == Writes("err") <= PipeSize => <>(at \in Ended)

\* The comment in callSystem: "the output stream must be read to its end, only
\* then is it certain that the program runs to its end".  The handlers do read
\* both streams to the end, so callSystem should return for every process.
Returns == <>(at \in Ended)

=============================================================================
