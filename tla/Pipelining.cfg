\* A call that has returned or failed does nothing more, and a client and a
\* server that wait for each other neither.
CONSTANTS
  Depth = 2
  Parts = 2
  Replies <- MCReplies
  Rooms <- MCRooms
SPECIFICATION PipeSpec
INVARIANTS OwnResponses StreamAligned
PROPERTY EndsIfItFits
CHECK_DEADLOCK FALSE
