------------------------------ MODULE HttpRecv ------------------------------
(***************************************************************************)
(* net/http/HttpUtil.java and net/http/Pipeline.java: a pipeline of        *)
(* requests is sent over one connection and recv is called once for each,  *)
(* reading the bytes of one response from a stream in which nothing else   *)
(* says where a response ends.                                             *)
(*                                                                         *)
(* The stream is a sequence of tokens.  A header line is one token, since  *)
(* recv collects it up to its '\n' before it looks at it; a body is read   *)
(* byte by byte or in blocks of whatever size a read returns.              *)
(*                                                                         *)
(* A number stands for the text the server writes for it.  parseInt takes  *)
(* a text that is no number of 32 bits for 0; servers of this model write  *)
(* none.  Nor do they send gzip data that cannot be unzipped, of which     *)
(* recv keeps what came out before the IOException, as if it were whole.   *)
(* Only the first would change where recv believes that a response ends: a *)
(* length it cannot read is no body, a status it cannot read a line to     *)
(* skip.                                                                   *)
(***************************************************************************)
EXTENDS Integers, Sequences, SequencesExt

(***************************************************************************)
(* A reply of the server is                                                *)
(*   [head : BOOLEAN, interim : BOOLEAN, close : BOOLEAN, gzip : BOOLEAN,  *)
(*    framing : {"none", "length", "chunked", "garbled"},                  *)
(*    chunks : Seq(1..255)]                                                *)
(* to a HEAD request or not, after a `100 Continue` or not, with or        *)
(* without `Connection: close`, and a body made of these chunks; or, when  *)
(* garbled, one with no status in its status line.                         *)
(***************************************************************************)
CONSTANTS
  Replies,    \* bound: the replies the server chooses from
  Depth       \* bound: the requests of one pipeline

ASSUME RepliesAssumption ==
  \A reply \in Replies :
    /\ {reply.head, reply.interim, reply.close, reply.gzip} \subseteq BOOLEAN
    /\ reply.framing \in {"none", "length", "chunked", "garbled"}
    /\ reply.chunks \in Seq(1..255)
    /\ reply.framing \in {"none", "garbled"} => reply.chunks = <<>>

VARIABLES
  plan,       \* the reply to each request
  stream,     \* the tokens the server sends for them
  arrived,    \* how many tokens have arrived
  cut,        \* the connection was lost: no more will arrive
  pos,        \* how many tokens recv has read
  at,         \* where recv is: "header", "block", "chunk" or at the end
  local,      \* the local variables of recv
  responses   \* Pipeline.responses

network == <<plan, stream, arrived, cut>>
vars == <<network, pos, at, local, responses>>

-----------------------------------------------------------------------------
(* The server *)

Token(kind, of, n) == [kind |-> kind, of |-> of, n |-> n]
Line(kind, n) == Token(kind, 0, n)
CRLF == <<Token("cr", 0, 0), Token("lf", 0, 0)>>
If(condition, tokens) == IF condition THEN tokens ELSE <<>>

\* The bytes of the first n chunks, and of all of them.
Before(chunks) ==
  LET sum[n \in 0..Len(chunks)] == IF n = 0 THEN 0 ELSE sum[n - 1] + chunks[n] IN sum
Size(chunks) == Before(chunks)[Len(chunks)]
Status(i) == 200 + i

\* The k-th byte of the body of response i, as data and as it is sent.
Data(i, k) == Token("data", i, k)
Sent(p, i, k) == IF p[i].gzip THEN Token("zipped", i, k) ELSE Data(i, k)

Hex(n) == If(n > 15, <<Token("digit", 0, n \div 16)>>) \o <<Token("digit", 0, n % 16)>>

Chunk(p, i, c) ==
  LET before == Before(p[i].chunks)[c - 1]
  IN  Hex(p[i].chunks[c]) \o CRLF
        \o [k \in 1..p[i].chunks[c] |-> Sent(p, i, before + k)] \o CRLF

SentBody(p, i) ==
  CASE p[i].head -> <<>>
    [] ~p[i].head /\ p[i].framing = "chunked" ->
         FlattenSeq([c \in DOMAIN p[i].chunks |-> Chunk(p, i, c)]) \o Hex(0) \o CRLF \o CRLF
    [] OTHER -> [k \in 1..Size(p[i].chunks) |-> Sent(p, i, k)]

Interim(p, i) == If(p[i].interim, <<Line("status", 100), Line("other", 0), Line("blank", 0)>>)

Fields(p, i) ==
  If(p[i].framing = "length", <<Line("length", Size(p[i].chunks))>>)
    \o If(p[i].framing = "chunked", <<Line("chunked", 0)>>)
    \o If(p[i].gzip, <<Line("gzip", 0)>>)
    \o If(p[i].close, <<Line("close", 0)>>)

SentReply(p, i) ==
  Interim(p, i)
    \o <<Line(IF p[i].framing = "garbled" THEN "other" ELSE "status", Status(i))>>
    \o Fields(p, i) \o <<Line("other", 0), Line("blank", 0)>>
    \o SentBody(p, i)

\* The server sends nothing after a reply with `Connection: close`.
Replied(p) == {i \in 1..Depth : \A j \in 1..(i - 1) : ~p[j].close}
SentAll(p) == FlattenSeq([i \in Replied(p) |-> SentReply(p, i)])

Arrive ==
  /\ ~cut /\ arrived < Len(stream)
  /\ arrived' = arrived + 1
  /\ UNCHANGED <<plan, stream, cut, pos, at, local, responses>>

ConnectionLost ==
  /\ ~cut
  /\ cut' = TRUE
  /\ UNCHANGED <<plan, stream, arrived, pos, at, local, responses>>

-----------------------------------------------------------------------------
(* recv *)

Fresh == [status |-> 0, length |-> 0, gzip |-> FALSE, close |-> FALSE,
          chunkSize |-> 0, left |-> 0, body |-> <<>>]

EmptyLine(t) == t.kind \in {"blank", "lf"}     \* a '\r' is skipped
Unzipped(bytes) == [k \in DOMAIN bytes |-> [bytes[k] EXCEPT !.kind = "data"]]

Here == stream[pos + 1]
Reads(n) == at \in {"header", "block", "chunk"} /\ pos + n <= arrived /\ pos' = pos + n

\* Pipeline keeps the response; it goes on with the next request unless this
\* was the last one or the server closes the connection.
Finish(l) ==
  LET last == Len(responses) + 1 = Depth IN
  /\ responses' = Append(responses,
       [status |-> l.status, body |-> IF l.gzip THEN Unzipped(l.body) ELSE l.body])
  /\ at' = IF last \/ l.close THEN "done" ELSE "header"
  /\ local' = Fresh

\* The header has ended: an empty body, one of a known length, or chunks.
Never == FALSE
ToHead == plan[Len(responses) + 1].head

BodyStarts(l) ==
  CASE ToHead \/ l.length = 0 -> Finish(l)
    [] ~ToHead /\ l.length > 0 ->
         at' = "block" /\ local' = [l EXCEPT !.left = l.length] /\ UNCHANGED responses
    [] OTHER -> at' = "chunk" /\ local' = l /\ UNCHANGED responses

\* The line that ends the header of an interim response, or of the response.
BlankEnds(l) == TRUE
BlankAfter100(l) == l.status # 100

\* What a header line does to the local variables, but for the blank one.
Header(l, t) ==
  CASE l.status = 0 /\ t.kind = "status"    -> [l EXCEPT !.status = t.n]
    [] l.status \notin {0, 100} /\ t.kind = "length"  -> [l EXCEPT !.length = t.n]
    [] l.status \notin {0, 100} /\ t.kind = "chunked" -> [l EXCEPT !.length = -1]
    [] l.status \notin {0, 100} /\ t.kind = "gzip"    -> [l EXCEPT !.gzip = TRUE]
    [] l.status \notin {0, 100} /\ t.kind = "close"   -> [l EXCEPT !.close = TRUE]
    [] OTHER -> l

ReadHeader ==
  /\ at = "header" /\ Reads(1)
  /\ ~EmptyLine(Here)
  /\ local.status = 0 => Here.kind \in {"status", "cr"}
  /\ local' = Header(local, Here)
  /\ UNCHANGED <<network, at, responses>>

ReadBlank ==
  /\ at = "header" /\ Reads(1)
  /\ EmptyLine(Here)
  /\ IF BlankAfter100(local)
     THEN BodyStarts(local)
     ELSE local' = [local EXCEPT !.status = 0] /\ UNCHANGED <<at, responses>>
  /\ UNCHANGED network

\* What stands where the status line should has no two words.
ResponseError ==
  /\ at = "header" /\ Reads(1)
  /\ local.status = 0 /\ ~EmptyLine(Here) /\ Here.kind \notin {"status", "cr"}
  /\ at' = "failed"
  /\ UNCHANGED <<network, local, responses>>

\* copyResponse: a read returns from one byte to all that are left.
ReadBlock ==
  /\ at = "block"
  /\ \E n \in 1..local.left :
       /\ Reads(n)
       /\ LET l == [local EXCEPT !.left = @ - n,
                                 !.body = @ \o SubSeq(stream, pos + 1, pos + n)]
          IN  CASE l.left > 0 -> local' = l /\ UNCHANGED <<at, responses>>
                [] l.left = 0 /\ l.length > 0 -> Finish(l)
                [] OTHER -> /\ at' = "chunk"
                            /\ local' = [l EXCEPT !.chunkSize = -1]
                            /\ UNCHANGED responses
  /\ UNCHANGED network

\* A size line has ended: the terminator is next, or a block of that size.
NoTerminator(l) ==
  IF l.chunkSize = 0 THEN Finish(l)
  ELSE at' = "block" /\ local' = [l EXCEPT !.left = l.chunkSize] /\ UNCHANGED responses
SizeRead(l) ==
  /\ IF l.chunkSize = 0
     THEN local' = [l EXCEPT !.chunkSize = -2] /\ UNCHANGED at
     ELSE local' = [l EXCEPT !.left = l.chunkSize] /\ at' = "block"
  /\ UNCHANGED responses

\* In chunks: hex digits add to the size, '\n' ends a line, the rest is skipped.
ReadChunkLine ==
  /\ at = "chunk" /\ Reads(1)
  /\ CASE Here.kind = "lf" /\ local.chunkSize = -2 -> Finish(local)
       [] Here.kind = "lf" /\ local.chunkSize = -1 ->
            local' = [local EXCEPT !.chunkSize = 0] /\ UNCHANGED <<at, responses>>
       [] Here.kind = "lf" /\ local.chunkSize >= 0 -> SizeRead(local)
       [] Here.kind = "digit" /\ local.chunkSize >= 0 ->
            /\ local' = [local EXCEPT !.chunkSize = @ * 16 + Here.n]
            /\ UNCHANGED <<at, responses>>
       [] OTHER -> UNCHANGED <<at, local, responses>>
  /\ UNCHANGED network

\* read returns -1: everything that arrived was read, and no more will arrive.
EndOfStream ==
  /\ at \in {"header", "block", "chunk"} /\ cut /\ pos = arrived
  /\ at' = "failed"
  /\ UNCHANGED <<network, pos, local, responses>>

-----------------------------------------------------------------------------

Recv == ReadHeader \/ ReadBlank \/ ResponseError \/ ReadBlock \/ ReadChunkLine \/ EndOfStream

Init ==
  /\ plan \in [1..Depth -> Replies]
  /\ stream = SentAll(plan)
  /\ arrived = 0 /\ cut = FALSE
  /\ pos = 0 /\ at = "header" /\ local = Fresh /\ responses = <<>>

-----------------------------------------------------------------------------
(* Properties *)

\* Framing: the i-th response has the status and, bytes in order and nothing
\* more, the body that the server sent for the i-th request, however the bytes
\* arrive; a response cut off half-way is never taken for a complete one.
OwnResponses ==
  \A i \in DOMAIN responses :
    /\ responses[i].status = Status(i)
    /\ responses[i].body =
         IF plan[i].head THEN <<>> ELSE [k \in 1..Size(plan[i].chunks) |-> Data(i, k)]

\* When the pipeline is done everything the server sent has been read: the
\* socket can carry the next request.
StreamAligned == at = "done" => pos = Len(stream)

Garbled == \E i \in 1..Depth : plan[i].framing = "garbled"
=============================================================================
