--------------------------- MODULE MCPipelining ---------------------------
(* Two requests and a dozen replies that use every header recv looks at: a    *)
(* body of one chunk, of two, of 17 bytes (two hex digits) and an empty one,  *)
(* by length and chunked, compressed and not, to HEAD too.                    *)
EXTENDS Pipelining

Reply(framing, chunks, gzip) ==
  [head |-> FALSE, interim |-> FALSE, close |-> FALSE, gzip |-> gzip,
   framing |-> framing, chunks |-> chunks]

MCReplies ==
  LET long == Reply("chunked", <<2, 1>>, FALSE)
      short == Reply("length", <<1>>, FALSE)
  IN  {Reply("none", <<>>, FALSE), Reply("garbled", <<>>, FALSE), short, long,
       Reply("length", <<>>, FALSE), Reply("chunked", <<>>, FALSE),
       Reply("length", <<3>>, TRUE), Reply("chunked", <<17>>, TRUE),
       [long EXCEPT !.head = TRUE], [short EXCEPT !.head = TRUE],
       [short EXCEPT !.interim = TRUE], [long EXCEPT !.interim = TRUE],
       [short EXCEPT !.close = TRUE], [long EXCEPT !.close = TRUE]}

\* Room for every reply and for one of the two pieces of a request; for one
\* request and part of a reply; for neither.
MCRooms ==
  {[requests |-> 1, replies |-> 80], [requests |-> 2, replies |-> 3], [requests |-> 1, replies |-> 9]}
=============================================================================
