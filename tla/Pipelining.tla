----------------------------- MODULE Pipelining -----------------------------
(***************************************************************************)
(* The whole of Pipeline.pipeline over a connection with room for a limited *)
(* amount each way: all requests are written before recv of HttpRecv reads  *)
(* the first response, and the server takes no request while it writes a   *)
(* reply.  Whoever finds no room waits.                                    *)
(***************************************************************************)
EXTENDS HttpRecv

CONSTANTS
  Parts,      \* the pieces a request is written in
  Rooms       \* bound: what may be under way, [requests, replies]

ASSUME RoomsAssumption ==
  /\ Depth \in Nat \ {0} /\ Parts \in Nat \ {0}
  /\ \A room \in Rooms : room.requests \in Nat \ {0} /\ room.replies \in Nat \ {0}

VARIABLES
  room,       \* one of Rooms
  sent,       \* the pieces the client has written
  taken       \* the pieces the server has read

pipeVars == <<vars, room, sent, taken>>

RepliesTo(k) ==
  FoldSeq(LAMBDA x, y : x + y, 0,
          [i \in 1..k |-> IF i \in Replied(plan) THEN Len(SentReply(plan, i)) ELSE 0])

\* The server closes the connection behind a reply that says so.
Closing == \E i \in 1..Depth : plan[i].close /\ arrived >= RepliesTo(i)

-----------------------------------------------------------------------------

\* What is written must have been asked for, and there is room for it.
ServerWrites ==
  /\ Arrive
  /\ arrived < RepliesTo(taken \div Parts)
  /\ arrived - pos < room.replies
  /\ UNCHANGED <<room, sent, taken>>

ServerReads ==
  /\ ~cut /\ ~Closing
  /\ taken < sent /\ arrived = RepliesTo(taken \div Parts)
  /\ taken' = taken + 1
  /\ UNCHANGED <<vars, room, sent>>

Lost == ConnectionLost /\ UNCHANGED <<room, sent, taken>>

\* The first loop ends before the second one begins.
AllWritten == sent = Depth * Parts

send ==
  /\ at = "header" /\ ~AllWritten /\ sent - taken < room.requests
  /\ sent' = sent + 1
  /\ UNCHANGED <<vars, room, taken>>

\* Writing to a connection that the other side has closed, or that is lost.
SendFails ==
  /\ at = "header" /\ ~AllWritten /\ (cut \/ Closing)
  /\ at' = "failed"
  /\ UNCHANGED <<network, pos, local, responses, room, sent, taken>>

pipeline == send \/ SendFails \/ (AllWritten /\ Recv /\ UNCHANGED <<room, sent, taken>>)

PipeInit == Init /\ room \in Rooms /\ sent = 0 /\ taken = 0

PipeNext == ServerReads \/ ServerWrites \/ Lost \/ pipeline

\* The server goes on when it can, and so does the client.
PipeSpec ==
  PipeInit /\ [][PipeNext]_pipeVars
    /\ WF_pipeVars(ServerReads \/ ServerWrites) /\ WF_pipeVars(pipeline)

-----------------------------------------------------------------------------
(* Properties. *)

\* The server can put a reply aside, or the client the requests behind it.
Fits ==
  \A k \in 1..Depth : RepliesTo(k) <= room.replies \/ (Depth - k) * Parts <= room.requests

\* pipeline ends, with every response unless the connection is lost or closed
\* or a reply is garbled: recv never waits for bytes that are not sent, and
\* client and server do not wait for each other to read.  The last holds only
\* if the requests behind a reply, or the replies, fit the connection.
EndsIfItFits ==
  Fits => <>(at = "done" \/ (at = "failed" /\ (cut \/ Garbled \/ Closing)))
=============================================================================
