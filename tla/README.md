# A verification of Jade-Java-Utils

TLA+ modules that model the parts of Jade-Java-Utils where order, concurrency,
failure or boundary arithmetic decide whether the code is right, TLC
configurations that check them, and proofs of the properties that matter most.
`PROJECT.json` maps every definition to the lines of the source it stands for,
lists the runs, the hazards of the code and the theorems.

    tlc -workers 2 -config ObjectPool.cfg MCObjectPool.tla
    tlapm HttpPoolProofs.tla

## 1. Inventory

The repository is a set of Java libraries, no one program. What follows lists
its parts by what can go wrong in them; paths are below
`net/jadedungeon/javautil/`.

| part | state it keeps | operations | who it works with | what is hard |
|---|---|---|---|---|
| `net/Pool` (and the copy in `encryption/`) | deque of idle entries, time of the last sweep, `closed` | borrow, return, reopen, close | subclass hooks; any number of threads | no lock: every method is a sequence of atomic accesses |
| `net/SocketPool`, `net/http/HttpPool` | the idle sockets; per call a socket, requests sent and responses unread | request, postWithOutResponse, pipeline | the pool above, `HttpUtil` below | who owns a socket, what is unread on it when it goes back |
| `net/http/HttpUtil`, `Pipeline` | position in the stream, header fields, chunk size | send, recv, pipeline | the byte queue, sockets | where a response ends; a connection lost anywhere |
| `encryption/ByteArrayQueue` | array, offset, length | add, remove, clear, setCapacity, clone, two streams | `HttpUtil`, `Streams` | growth, compaction and sharing at the bounds of the array |
| `net/dns/DDNSService`, `RemoteDNSUpdater` | map of records | doService, updateDynamicRecords | `HttpPool`, the public DNS | two threads on one map; partial failure |
| `base/ShellUtil` | a process, two pipes | callSystem | the operating system | bounded pipes read one after the other |
| `dao/PageSpliter`, `PageSplitDto`, paged queries of `BaseHibernateDao` | the dto | splitPage, findBy...WithPagging | Hibernate, the caller that keeps the dto | boundaries; rows that change between two queries; old values in the dto |
| `encryption/MD5Coder`, `BinaryCoder`, `Bytes`, `Numbers` | one static `MessageDigest` | encode, get..., conversions | any thread | a shared mutable object; bit widths |
| `base/FileOperater`, `encryption/Streams` | files, streams | copy, delete, zip, walk | the file system | one step of several failing |
| `web/http/upload/UploadTools`, `FileUploadServlet` | request attributes; files under the upload path; the temporary directory | doPost, uploadManyFiles, doUpload, scaling of avatars | commons-fileupload, `FileOperater`, `ImageUtilsWrapper`; other requests over the disk | limits; one file of several failing; requests that race for a file or a directory |
| CDN application's scripts: `ajaxfileupload.js`, `ajaxupload.js`, `upload-avatar.jsp` | `jQuery.active`, the picture `#loading`, per upload a flag and a timer | uploadFile, ajaxFileUpload, uploadCallback | the upload servlet, through a hidden iframe | a timeout that races the answer; a failure handler that is not there |
| `base.js` | the cookies of the browser, option objects of the caller | cookieOperator, countLeafNode, number formats | the pages of a site | directories; an object that a call changes |
| `datastructures/TreeNodeHelper` | the lists inside the nodes | genTree | the rows of a table | a second call on the same nodes; rows in a circle |
| `text/HtmlUtil`, `BaseParser`, `TextTempletRanderTool`, `json/JsonUtils` | none between calls | parse, format | - | pure algorithms with state machines inside |
| `mongo/*`, `cache/*` | a client, a list of conditions, a cursor | CRUD, get, put | MongoDB, memcached | linked conditions, swallowed errors |
| `sandtable/*` | a grid | move | - | wrap-around at the edges |
| `net/email/MailUtil` | none | send, receive, walk the parts | JavaMail | recursion over parts |
| `net/dns/CustomResolver`, `FakeResolver`, `net/http/HttpParam`, filters, HAR reader, images, beans, dates | none or constant | - | the JDK | little: conversions and calls of libraries |

What makes the modelled parts correct, in words:

* pool: an object has one owner; none is lost; a closed pool keeps few objects;
  sweeps do not overlap; a sweep and a close end;
* HTTP pool: a thread reads the responses to its own requests; a socket goes
  back clean and open, is closed by its owner only, and is not forgotten;
* recv: the i-th response read is the i-th one sent, byte for byte, and after
  the last one the stream is at its end;
* byte queue: first in, first out, inside the bounds of the array;
* DDNS: the two writers of the map repair what they overwrite;
* shell: a result is complete, and a call returns;
* uploads: a file with a new name is its request's own, a success is complete, the
  temporary directory is there when it is needed;
* page: the counter of uploads and the picture agree, a user is told once and truly,
  and what the servlet answers is told;
* digests: a digest is of the caller's text; conditions: an append loses
  nothing, and the query says what was asked; trees: the lists are the
  parent relation; cookies: a page reads what was meant for it; mails: every
  part is text or attachment;
* paging: the pages divide the rows, and the list of pages is in range, in one
  piece and of full length.

## 2. Modules

| module | models | EXTENDS / INSTANCE |
|---|---|---|
| `ObjectPool` | `Pool.java`, one action per access to shared state | |
| `HttpPool` | `HttpPool.java`, `SocketPool.java` composed with the pool | `ObjectPool` |
| `HttpPoolProofs` | theorems about the pool and about the composition | `HttpPool`, `TLAPS` |
| `HttpRecv` | `HttpUtil.recv`, the read loop of `Pipeline.pipeline`, what a server sends | |
| `Pipelining` | `Pipeline.pipeline` and a server over a connection of bounded capacity | `HttpRecv` |
| `HttpRecvProofs` | theorems about recv in such a pipeline | `Pipelining`, `TLAPS` |
| `ByteFifo` | what a byte queue promises | |
| `ByteArrayQueue`, `ByteArrayQueueProofs` | `ByteArrayQueue.java`; implements `ByteFifo` | `ByteFifo` as `Fifo` |
| `ShellUtil`, `ShellUtilProofs` | `ShellUtil.callSystem`, a process, its pipes | |
| `DDNSService`, `DDNSServiceProofs` | `DDNSService.java` with `RemoteDNSUpdater.java` | |
| `Upload` | `FileUploadServlet.java`, `UploadTools.java`, `FileOperater.writeFile`, scaling | |
| `UploadPage` | `ajaxfileupload.js`, `ajaxupload.js`, `upload-avatar.jsp` in front of the servlet | `Upload` |
| `UploadProofs` | theorems about the servlet and the page | `UploadPage` |
| `MD5Coder` | the shared `MessageDigest` of `MD5Coder.java` | |
| `Condition` | `Condition.append`, `MongoUtil.parseCondition` | |
| `TreeNodeHelper` | `genTree`; `countLeafNode` of `base.js` | |
| `CookieOperator` | `cookieOperator` of `base.js` and the cookies of a browser | |
| `MailUtil` | `parseMessage` and its walks over the parts of a mail | |
| `Paging`, `PagingProofs` | `PageSpliter.java`, the paged queries | |
| `Toolbox` | a program that uses one of the last six | all six |
| `ToolboxProofs` | theorems about the digests, the conditions, the cookies and the trees | `MD5Coder`, `Condition`, `CookieOperator`, `TreeNodeHelper`, `TLAPS` |
| `MC...` | model values, small sets and symmetry for TLC | the module they are named for |

Names follow the source where TLA+ allows it. Where two forms of a step are
written next to each other (`PeekFirst` and `PollFirst`, `NoTest` and
`SeenOpen`), the second is the code; the first is what could be written by
mistake, and `PROJECT.json` pairs it with the property that notices.

### ObjectPool

`pc[t]` says where a thread is inside a method. Each call on the
`ConcurrentLinkedDeque`, the `AtomicLong` and the volatile flag is an action;
computation on local variables is part of the action before or after it. A
poll and the hook that follows are one action: the object polled is reachable
by that thread alone, so no other thread can tell when the hook runs. A hook may
return, throw the checked exception, or throw a `RuntimeException`; then
`leaked` has the object. `System.currentTimeMillis()` is `clock`, which never
goes back. `drained` is a history variable: a close has seen the deque empty and
nobody has reopened the pool.

Code to action: `borrowObject` is `BorrowStart`, `ReadAccessed`, `TrySweep`, then
`SweepDestroys` / `SweepKeeps`, `OfferBack` / `SweepEnds`, then `TakeIdle`,
`ActivateFails`, `ActivateBreaks`, `Make` or `MakeFails`; `returnObject` is
`ReturnToOpen`, `Stamp`, `Offer` or `ReturnDestroys`; `close` is `CloseStart`,
`Drain`, `CloseEnds`; `reopen` is `Reopen`.

### HttpPool

Runs the three request methods on top of the actions of `ObjectPool`. `wire[s]` is the
sequence of threads whose requests on socket s have an unread response; since responses
come in the order of the requests this is all that is needed to say who reads what. A
pipeline has `Depth` requests. `requestWithOutResponse` returns the socket and does not
set its variable to null, so that the `finally` block closes the socket after the
return, and the response stays unread. `tainted` holds the sockets it used: the
properties say what holds for the others, and `ClosedByOwner` says that these are the
only ones ever closed under an owner's hands.

### HttpRecv

The server's stream is a sequence of tokens: a header line is one token (recv
collects a line before it looks at it), every other byte is one. `ReadBlock`
returns any number of bytes that have arrived, as `InputStream.read` may.
`local` is the record of recv's local variables. Replies use Content-Length or
chunks, gzip or not, `Connection: close`, `100 Continue`, HEAD, and a status
line without a status. Bodies that end with the connection, chunk extensions and
trailers are left out: recv has no branch for them (see the hazards). So are two
texts a server may send in place of what its header promises: a number that
`Numbers.parseInt` cannot read, which recv takes for 0, and gzip data that cannot be
unzipped, of which it keeps what came out before the exception. The model's numbers
are those the server wrote, and its unzip succeeds.

### Pipelining

Writing and reading share one thread: `pipeline` writes the head and the body of
every request (`Parts` pieces) before recv reads anything, and the server takes no
request while it has a reply to write. What is under way is limited in each
direction (`room`), and whoever finds no room waits. So the two can wait for each
other; `Fits` says when they cannot, and `EndsIfItFits` holds under it only.

### ByteArrayQueue and ByteFifo

Arrays are objects of a heap, so that `clone`, which shares the array, is
modelled as it is. `ByteFifo` promises first in, first out for each handle, and
that what is done to one handle does not touch another unless they share. The
Javadoc promises no more: "shares this ByteArrayQueue's content".

### ShellUtil

A process is a sequence of writes to the two streams; it blocks on a full pipe
and may close a stream early. Reading one block at a time stands for
`readLine`: what matters is that the reader waits while a writer is there and
the pipe is empty. A process that starts others which inherit its streams, and
handlers a caller supplies, are left out.

### DDNSService

`dynamic` is the map keyed by the spelling of a name; the API may list a
spelling that no lookup uses, since `addIp` puts names as they come. The public
DNS may give any answer at any time. `cached` counts the records the service put.

### Upload

Each request is a thread with a place in the code (`at`), the parts it has still to
write (`left`), its attributes and one output stream. What requests share is the disk, a
function from paths to sequences of blocks, and the temporary directory. Opening a file
empties it, and a stream writes at its own place whatever others do, so that two streams
on one file mix. A limit of 0 makes the threshold `DefaultSize`, and a `funcName` that
was left empty is as good as none. The tests, the `delete` and the `mkdirs` on the
temporary directory are one action each; `delete` also removes an empty directory, as
`File.delete` does. A file larger than the threshold makes a temporary file, which is
gone some time after the request. A new name has a UUID that is unlike all others and
unlike any name of a client (`FormsAssumption`, which also gives files natural sizes and
says that what comes behind the stem of a name is an extension and not the `-H.jpg` of a
picture). Any parse, write or scaling may fail; a failed write leaves what it wrote.
Midnight may fall between any two steps. Directories under the upload path can always be
made and are left out, and so are the copies of form fields into attributes, and the
attribute with the name of the field.

### UploadPage

The scripts run in the browser's one thread: a handler runs to its end, or to the
exception that leaves it, before another starts, so a handler is one action.
Requests of kind "avatar" are clicks on one page and share `active`
(`jQuery.active`) and the picture; `timeout` says whether `jQuery.ajaxSettings` has
one; their forms are what `createUploadForm` builds around the file input
(`AvatarsAssumption`). The page loads jQuery 1.7.2 (in a file named 1.8.2), which has no
`handleError`: wherever the script means to report a failure it throws, twice
where the call in the `try` is repeated in the `catch`, and what comes after is left
out: the request stays counted and its handler bound. Bound or not, it is not called
again, since the iframe loads once (`AwaitsLoad`). That is also why an answer
that comes after the timeout is still told. `Servlet` is `doPost` of `Upload` as it
is. Left out: the load event some browsers send for the empty iframe, two uploads
in one millisecond (they would share an id), and the removal of iframe and form
after the answer.

### MD5Coder

`MD.digest(bytes)` is an update and a digest, with no lock: two actions. A digest
stands for the texts it was fed. Once two threads have been inside at once,
anything may be in the object (`Torn`) or the call may throw, which is caught and
gives null. `getMD5Code_16` and `getMD5Code_64` make an instance of their own.

### Condition

Conditions are objects that refer to each other, built and appended in any
order; the loop of `append` is an action (`Walk`), which does not move: it reads
`this.link` again, so a third append to a chain goes round for ever. No run asks
that an append returns. A condition without a key parses to null as one without a
value does. `parseCondition` and `addLink` call each other and themselves along
the chain: each is a function of the depth of the call, the deepest first.

### TreeNodeHelper

`genTree` calls itself for every node of a list, in order, after it has filled the
list: `todo` is what is still to be called, and one action is one call. A row that
is below itself makes the recursion endless (`Overflows`). What is below a node is
defined by the parents alone, as the least set closed under children, which owes
nothing to the lists that `genTree` makes. `Collections.sort` is what it does: a
place gets the rank of what is at it, equals in their order. `countLeafNode` is a
function of the depth of the call, as `addLink` is; no call on a tree is deeper
than there are nodes.

### CookieOperator

The browser is external: it keeps the cookies of each directory, one of a name, in the
order they were first set; shows a page those of its own directory and of all above it,
the nearest first; and may drop any. The options object is the caller's, and a deletion
writes into it. `meant` is the history the property compares with: what was last
written, or deleted, per directory and name. A page is its directory, a sequence of
folders.

### MailUtil

A message is a tree of parts. The three walks are recursive operators that return
the paths of the parts they take. `parseMessage` goes through several messages: the
body (`handleMailBody`), the attachments (`handleAttachments`), the next one. JavaMail
or a handler may throw at any part (`bodyThrows`, `attachmentThrows`): what came before
is done, and the loop is left with the messages that were still to come.

### Paging

`records`, the rows of the table, come and go one by one at any time, also between the
two queries. The caller keeps a dto, follows any of the links it holds, or starts with a
new one. A page size of 0 or page 0 asks for all rows, and `splitPage` is not called. Either query
may fail, the second one after `splitPage`. Numbers are
unbounded: searches whose row count comes near 2^31 are left out.

## 3. Runs

| run | bounds | checks |
|---|---|---|
| `pool` | 2 threads, 3 objects, clock to 2, timeout 1, interval 0 | `TypeOK` `Exclusive` `Conserved` `ResidueBounded` `SweepsApart` `SweepTerminates` `CloseTerminates` |
| `http_pool` | 2 threads, 2 sockets, pipelines of 2 | `HttpTypeOK` `OwnResponse` `IdleIsClean` `ClosedByOwner` `NoSocketLost` |
| `http_recv` | 2 requests of 2 pieces, 14 replies, three sizes of connection | `OwnResponses` `StreamAligned` `EndsIfItFits` |
| `byte_queue` | 2 handles, 3 arrays of up to 4 bytes, 2 byte values | `InBounds` `ImplementsFifo` |
| `shell` | pipes of 2 blocks, up to 6 writes | `ResultIsComplete` `ReturnsIfErrorFits` |
| `shell_blocks` | the same | violates `Returns` |
| `ddns` | 1 host in 2 spellings, 2 addresses | `TypeOK` `CachedOnce` `AnswersConverge` |
| `upload` | 2 requests, 6 forms (3 of them from the page), files of up to 2 blocks, limits 3 and 1, one midnight, with and without a timeout | `UploadTypeOK` `RenamedIsOwn` `FieldsRuleAllFiles` `SuccessIsComplete` `TmpReadyAtRest` `ToldTruly` `PictureAgrees` `AnswersAreTold` |
| `upload_total` | the same | violates `TotalWithinLimit` |
| `paging_flags` | 13 rows, pages of 1 | violates `FlagsTellOmitted` |
| `tools` | one tool at a time: 2 threads; 3 conditions, 2 keys; 4 rows, 2 calls; 2 names, 2 directories, 2 option objects; 2 mails nested twice; 12 rows, pages of 0, 1 and 2 | `DigestIsOwn` `QueryIsChain` `AppendsBehind` `TreeOfParents` `ReadsWhatWasMeant` `PartsInOnePlace` `PagingTypeOK` `WindowComplete` `PagesPartition` |
| `mail_attachments` | the same | violates `AttachmentsAreNoText` |

Why the bounds are enough. Two threads let a sweep, or a close, meet a thread that
returns, borrows, reopens or closes; three objects let each thread have one while
a third is idle, or two stand in the deque while the third is taken out. (What is true
of more threads is proved, section 5.) A clock of 2 with timeout 1 has fresh,
expired and out-of-order entries, and two sweeps. Two pipelined responses
suffice for one to be read as the other; the connections have room for every
reply, for one request and part of a reply, and for neither. The queue's threshold for a release is
3 and its first capacity 1, so growth by doubling, growth to fit, compaction and
release all happen below four bytes. A pipe of two blocks can be empty, half
full and full; six writes overfill both. A request that deletes the temporary
directory between the tests of another and its files is the race for it, and two
blocks let two writers of one file interleave; two clicks make the picture go
before the second answer. Requests end, and so do calls: `Upload.cfg`,
`Pipelining.cfg` and `Toolbox.cfg` do not check for deadlock. Twelve pages are more than the ten a
list shows, on both sides of it. Three conditions make the shortest chain that
`append` does not come back from, and two empty ones before one that parses; four rows
make siblings to sort and three levels; two nested levels bring every test of the
walks over mails into both positions, and a second mail shows what the first one
leaves behind.

What the runs show that the code's authors may want to know:

* `shell_blocks`: a process that writes more to standard error than the pipe
  holds, while its standard output is open, and `callSystem` wait for each other.
  The README of the repository lists the repair as to do.
* `paging_flags`: `appPos` and `appPre` say YES when nothing is left out (six
  pages, the first one current).
* `upload_total`: `setSizeMax` is called twice, so a request may be as large as
  `singleFileSize`, whatever `allFileSize` is.
* `upload`: a request that passes its tests of the temporary directory just before
  another deletes it can fail to parse; at rest the directory is there again.
* `http_pool`: only `postWithOutResponse` leaves sockets in the pool that are
  closed or have an old response on them, and `ClosedByOwner` shows that it does
  close sockets that others own by then.
* `pool`: `ResidueBounded` is the best that holds of a closed pool: up to
  one object less than there are threads stays idle in it, unclosed.

* `http_recv`: without `Fits` client and server deadlock: `pipeline` reads nothing until
  all requests are written.
* `upload`: after the first failure (no connection, an error page, the timeout
  without an answer) `jQuery.active` never comes back to 0 in that page, so the
  picture is never shown again; and with two uploads the first answer hides it
  while the second still runs. `PictureAgrees` says exactly that.
* `mail_attachments`: a text part that its disposition, or a name spelled `NAME`, makes
  an attachment is handed to the attachment handler and appended to the body too, which a
  comment in `parseMailTextContent` means to prevent. `PartsInOnePlace` says of which
  parts this is true.
* `tools`: OR links are dropped from the query, and
  a second condition that parses to null is asked for as `key: null` although the
  first one is passed over (`QueryIsChain`).
* `tools`: what was
  deleted with an options object makes later writes with it expire at once
  (`ReadsWhatWasMeant`); two threads on `encodeString` may mix their texts
  (`DigestIsOwn`).

Some of the hazards in `PROJECT.json` are in the models and are not caught, since no
text of the repository says what should be: the properties leave the bad case out, or
describe it as it is. These hazards list no property, and their notes say why:

* an entry lent after its time, whose peer has gone (`Pool.java:62`); the response that
  `requestWithOutResponse` leaves on the socket (`HttpPool.java:62`);
* rows that change between the two queries of a page (`BaseHibernateDao.java:115`);
* two threads on the one `MessageDigest` (`MD5Coder.java:8`);
* an append to a chain of three, which never returns (`Condition.java:21`);
* two uploads that keep one name (`FileOperater.java:81`); the counter of uploads that
  no failure takes back (`ajaxfileupload.js:107`);
* an options object that a deletion has changed (`base.js:61`); trees of overlapping
  roots (`TreeNodeHelper.java:42`).

## 4. Fairness

* `ObjectPool!FairSpec`: a thread inside a method goes on with it. The methods
  never block (the deque is lock-free) and the JVM runs runnable threads. Nothing
  says that a thread calls a method, nor that a close is not reopened:
  `CloseTerminates` allows for that.
* `Pipelining!PipeSpec`: the server writes and reads when there is something to write,
  or to read, and room; the client goes on when it can. The connection may be lost
  at any time and need not be.
* `UploadPage!PageSpec`: the browser runs the handler of an answer that has come.
  Nothing says that the servlet answers, that a timer fires or that a user clicks.
* `ShellUtil!Spec`: the process and the caller run when they can. The process may
  only block on its own writes: a program that never ends is left out.
* `DDNSService!Spec`: both threads run; the API does not fail for ever, and a
  record it lists is not rejected for ever. Without the last two the map need
  never learn the address, whatever the code does.

## 5. Proofs

The proofs hold for every value of the constants that satisfies the assumptions
(`PoolAssumption`, `DepthAssumption`, `RepliesAssumption`, `RoomsAssumption`,
`DDNSAssumption`, `PagingAssumption`, `LimitsAssumption`, `FormsAssumption`,
`RequestsAssumption`, `AvatarsAssumption`, `QueueAssumption`, `ShellAssumption`,
`ConditionsAssumption`, `CookiesAssumption`, `RowsAssumption`): finitely many threads,
upload requests, conditions and rows, each row once in a list and known by a number,
`NoObject`, `NoAddr`, `NoCondition` and `NoParent` no object, address, condition or row,
cookie values that are sequences of characters (null is none, and neither is `%3B` one
character), timeouts, limits, file sizes, page sizes and capacities that are natural
numbers, pipes, pipelines and the room of a connection of at least 1, replies made of
chunks of 1 to 255 bytes, and what is said above of the names in a form and of the forms
of an avatar. The runs evaluate each of them.

`HttpPoolProofs`, the object pool. `Exclusive` is not inductive by itself. When a thread makes
an object, that the object is nowhere else follows only from its not being
live, so the invariant needs `Conserved`; when a thread destroys one, that it
leaves no trace follows from `Exclusive`: the two are proved together, with
`TypeOK`, as `IInv`. One lemma (`Polled`) says once what taking an entry out of
either end of the deque does to all of them, and every action that polls cites
it. `ResidueBounded` counts: a close has seen an empty deque, and from then on an
entry can only be added by a thread that is in `Late`, which leaves `Late` by
that step and cannot come back while the pool is closed; so length plus number
of late threads never grows, and the closer itself is not late. `SweepsApart`
needs only that a thread about to compare found the last sweep overdue by what
it had read (`Overdue`), which the compare-and-set turns into a fact about the
value it replaces.

`HttpPoolProofs`, the HTTP pool. Sockets are handed on by a pool that is proved already, so the
first thing to show is that `HttpPool` uses it only as a client may: every step
of `HttpSpec` is a step of `ObjectPool` or leaves its variables alone
(`HttpPoolUsesPool`), and then `Exclusive`, `Conserved` and `ResidueBounded` hold
of sockets too (`SocketsAreExclusive`). The step that is not obvious is a thread
that closes the socket in its hands: to the pool this is `ReturnDestroys`
(`CloseOwnIsReturn`). That a thread never closes what the pool does not count as
its own, but after `postWithOutResponse`, needs to know where it is in both
components at once (`Place`): what is in `sock`, what it holds and where it is in
the pool. `OwnResponse` is not inductive: that a socket just borrowed has nothing
unread must have held while it was idle and before, while it was on its way back,
so the invariant says it of every socket that no thread waits on
(`UnaskedIsEmpty`), and exclusiveness keeps one thread from sending on the
socket of another. `IdleIsClean`, `ClosedByOwner` and `NoSocketLost` are read off the
same invariant (`HttpInv`).

`HttpRecvProofs`. Nothing on the wire says where a response ends, so the proof has
two halves. The first says what stands at each place of the stream: the lines of
a header (`FieldsAre`, `InterimIs`), the digits and bytes of a chunk (`ChunkIs`,
`ChunkTokens`), the body (`ChunkedBodyIs`, `LengthBodyIs`), a reply
(`SentReplyIs`), and all the replies one after the other (`SentAllIs`), where
`Begin(p, i)` is the place behind the first i - 1 of them. Sums and
concatenations are over sequences of any length and so need an induction; it is
stated as "this set of numbers has all of them", which follows from the
well-foundedness of < on the naturals (`Induction`), once for sums
(`BeforeIsNat`) and once for `FlattenSeq` (`Flattened`).

The second half is the invariant. `OwnResponses` is not inductive: that a response
is right when recv returns must have been so of every part of it while it was
read, and of the place where it began. `RecvInv` says that recv is at some place
of the reply to the request it is to answer next (`InHeader`, `InLength`,
`InSize`, `InData`, `InDataEnd`, `InLastChunk`) and that each local variable
holds what was read so far: what the fields until here said (`FieldsRead`), the
leading digits of the size, the first bytes of the body (`BodyRead`). One lemma for
each place shows that recv goes on to a place of the same reply or ends it
(`ReadHeaderKeeps`, `ReadBlankKeeps`, `LengthBlockKeeps`, `DataBlockKeeps`,
`InSizeKeeps`, `InDataEndKeeps`, `InLastChunkKeeps`), and one lemma what an end
means: the response is the one that was sent, and the next one begins here
(`FinishKeeps`). `StreamAligned` is the case that there is no next one. The blocks
that `read` returns may have any size: a body is the same in whatever pieces it
came (`Continues`).

`ShellUtilProofs`. `ResultIsComplete` is a matter of counting: what was read and
what is in the pipe is always what was written so far (`Accounted`); nothing is
written to a stream after it was closed (`ClosedForGood`); and the second handler
starts only when the first has found its stream empty and without a writer, which
stays so (`TakenTurns`). At the end both pipes are empty and every write is done.

`DDNSServiceProofs`. The types include that no answer is kept between two queries and
that what is put into the map is an address. `CachedOnce` follows from an invariant in
two parts: a host the service has put a record for is in the map from then on (nothing
removes), and a service that resolves a host has put none for it (it has just looked).

`PagingProofs`. The arithmetic of the window is a lemma about two numbers (`Window`);
that there is at least one page is a lemma about division (`PageCount`). The invariant
says that the lists in the dto are those of the page that is still current; they are
typed from what `splitPage` does to any dto (`SplitTypes`), so that a query that fails
behind it leaves types too. `PagesPartition` (theorem `PagesFit`) needs what dividing
is: row `i` is on page `i \div size` exactly when it lies between the first row of that
page and the first of the next (`Quotient`), and rounding the number of pages up leaves
no row and no page over (`LastPage`). Its invariant adds that, while the table is as it
was counted, the dto has its number of rows in between the two queries, and `shown` is
the window of the second one afterwards (`PInv`). That no page number leaves its range
rests on there being at most one page more than rows (`PageBound`) and on the links that
`splitPage` lists lying within one page of those (`LinkBound`).

`UploadProofs`. `UploadTypeOK` says of the attributes that each is one of the three a
file part of the request's form can leave, with a path the request may write to, and of an
open stream that it belongs to a part of the form, writes to the path in the attributes,
and stands within the blocks of that part. The step that matters is the one from one part
to the next (`AttrStays`, `NextAttrInv`): what the attributes hold was set by the part that
was begun last, under a path it may have (`PathOfTarget`).

The other proofs of the servlet go up in layers. `Control` says what a
request has when it is at each place in the code: its types, that the paths it
uses are its own, and which of its parts are done, with `left` the files behind
the current one. `DiskInv` says what is on the disk: a file saved under a new name
holds its part, and a stream has written the beginning of what it was given.
`SuccessIsComplete` and `FieldsRuleAllFiles` need the first layer, `RenamedIsOwn`
the second. What keeps requests apart there is names alone: the path a request
writes to has a stem no other request, part or client uses (`StemsAreOwn`), a
picture differs from every uploaded file in what comes behind the stem
(`ScaledIsOwn`), hence no step of one request touches a renamed file of another
(`OwnIsKept`). `PicturesInv` adds the pictures that are made so far, and `ToldInv`
what the page was told. The files are written in the order of the form: that what
is left of them has a least element is proved from the well-foundedness of < on
the naturals (`MinOfParts`), and that the last one written is the greatest of all
from `Progress` (`MaxOfParts`).

`TmpReadyAtRest` needs to know why the directory can be missing while requests
are beyond their tests: the one that deleted it is at its `mkdirs`. With the
fact that no plain file comes back once one request has passed, that is
inductive, for any number of requests (`TmpInv`).

The page leaves the servlet as it is, `PageSpec => Spec` (`PageUsesServlet`), so that
all this holds behind it, and `ToldTruly` follows with `ToldInv`: a success is told
only in the step that reads an answer, and the answer comes from a request that
has ended. `PictureAgrees` is nearly inductive; it lacks that no request outside
`Clicks` is counted and that the history of a request ends where its place says.
The step that matters is that a completed request leaves the set `Counted` by
exactly one, for which the set must be finite (`RequestsAssumption`).

`ToolboxProofs`, digests. That a digest is of the caller's own text holds of the
shared instance only because, until two threads have met (`raced`), one at most is
between its `update` and its `digest` and the instance holds what that one has
put there, or nothing (`Alone`); the invariant is `Alone` as long as nobody has
raced, with the property and the types.

`ToolboxProofs`, conditions. `AppendsBehind` needs that the variable of the loop is
the condition behind `this` throughout (`ConditionInv`), which is what makes it
stop at a chain of one or two (`LinksToLast`). `QueryIsChain` is about a
computation: `Overlaid` says that a query is another one with some of the links
put over it, later ones over earlier ones; that is what `addLink` makes from any
link to the end (`addLinkIs`), putting the same links over it a second time
changes nothing (`OverlaidTwice`), and so `parseCondition` gives the query that the chain
asks for from any of its conditions on (`RightFrom`, `parseConditionIs`). Both
are inductions on how far the end of the chain is. That the walk along the links
is a chain, without repetition and no longer than there are conditions, is `ChainIs`.

`ToolboxProofs`, cookies. The invariant (`CookieInv`) says that each directory has one
cookie of a name at most and that, until a value is written with a spoiled object,
it has what is meant for it, encoded. One lemma says what setting a cookie does to a
directory (`JarIs`): it concerns that name only. A page reads all the directories above
it one after the other, and the first cookie of a name in the whole is the one in the
first directory that has one (`FlattenedMatch`); that this is the nearest one with
a meaning is a matter of lengths of prefixes (`AboveIs`, `PrefixIs`, `NearestIs`), and
what was encoded comes back as it was (`EncodedIs`, `UpToIs`).

`ToolboxProofs`, trees. `TreeOfParents` is about the moments between two calls; within
one, the invariant (`TreeInv`) says where it stands: as long as the roots so far are
in no other's tree, the trees of the nodes in `todo` do not meet, these nodes and
those of no tree have no list, and every other node has the list of its children,
once each and in the order its call asked for (`Grown`). One step takes one node from the
first kind to the last, since its tree is itself and the trees of its children
(`TreeIs`), which do not meet (`ChildrenApart`), and since the trees of two roots meet only
when one has the other (`TreesApart`). These facts come from `Below` being the least
closed set. That the sort gives an ascending list follows from the ranks being
a permutation of the places (`RanksReach`), that `Added` has the children in the order of the
rows by induction along the rows (`AddedIs`), and that the page counts the leaves
(`CountIs`) by induction on the depth: the tree of a child has fewer nodes, and the
leaves of one child after the other add up.

The theorems of this module are about each tool for itself (`md5Spec`, `conditionSpec`,
`cookieSpec`, `treeSpec`); in `Toolbox`, which runs one of them at a time, TLC checks the same
properties.

`ByteArrayQueueProofs`. `InBounds` is inductive once every array is known to be a
function on `1..Len` (`HeapOK`) and a new array for one handle to leave the
arrays of the others alone (`Allocated`: a reference in use is never given out
again). On it rests the refinement, `QueueImplementsFifo`: every step of the
queue is a step of `ByteFifo` on what the handles hold. The proof is pointwise,
byte by byte: a copy puts each byte where it is looked for (`CopyAt`,
`ResizedAt`), so that growing, compacting and releasing move bytes and change
none, `add` appends (`Puts`) and `remove` takes from the front (`RemoveGets`). An
`add` in place reaches another handle's bytes only if both refer to one array,
and then both are in `Sharing`, for which `ByteFifo` allows it.

Only model-checked:

- every liveness property (`SweepTerminates`, `CloseTerminates`, `EndsIfItFits`,
  `ReturnsIfErrorFits`, `AnswersConverge`, `AnswersAreTold`):
  fairness speaks of ENABLED, about which the prover knows nothing;
- `PartsInOnePlace`: what the three walks over a mail collect is compared with the
  parts of a whole mail of any shape. A mail is nested data and the walks
  (`hasAttachment`, `parseAttachment`, `parseMailTextContent`) are recursive
  operators over it; the prover has no arithmetic in a module that reaches one, and
  no induction over nested records.

## 6. Plan

Done: the pool, its users, the wire, pipelines over bounded connections, the byte
queue, DDNS, shell calls, uploads with the page in front, and six
small tools, paging among them.
To come, in this order:

1. the rest of `FileOperater`: the recursive deletion, the walk, zip;
2. the algorithms: HTML tokens and tag matching, JSON formatting, template
   rendering, grid moves, bytes and numbers, each against a reference definition
   over bounded inputs.

Not modelled and not planned: images but for the scaling of avatars (calls of AWT),
the HAR reader (a mapping from JSON to beans), filters and listeners, reflection
helpers, sending mail, the form checks of `valid.js` (regular expressions;
`onUploadImgChange` calls `checkFileExt`, which is defined nowhere, so it throws
before it checks anything) and `unformatNumber` (it reads a variable that is not
there). By far the largest scripts of the repository, `docs/citycode/json.js` and
`city.pinyin.js` with 7571 lines, are tables of cities: they have no behaviour to
model, so the share of script lines that the map can name is about five in a
hundred.
