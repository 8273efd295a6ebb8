# Lambda, modelled in TLA+

Lambda is a small C++ HTTP server library: a listening socket, one thread per
connection that parses HTTP/1.1 requests and runs a user's handler, and response
helpers on top (web sockets, event streams, static files, JSON).  This directory
models the parts in which order, failure, concurrency and boundaries decide whether
the program is right.  TLC checks the models on small instances; TLAPS proves
theorems for every value of the constants about all of them but JSON.

Source locations below are relative to the repository root.

## 1. Inventory

| Component | Source | State | Operations |
|---|---|---|---|
| Server | `server/server.cpp`, `server/server.hpp` | `m_active`, the shared exit flag `m_exit`, the listener, the future `m_loop` | `serve`, the accept loop, `shutdown`, `~Server` |
| TcpListener | `net/tcp_listen.cpp` | `m_sock` | `bind_and_listen`, `next`, `shutdown` |
| TcpConnection | `net/tcp_conn.cpp` | `m_sock`, timeouts | `read`, `write`, `set_timeouts`, `close` |
| H1 pipeline | `server/pipeline_h1.cpp` | `StreamState`: `read_buff`, `http_body_pending`, `http_keep_alive`, `raw_io`, `stream_response` | `serve_conn`, `serve_request` |
| Request reader | `server/pipeline_h1_rx.cpp` | scan position, bytes read | `read_request_head`, `RequestBodyReader::read`, `discard_unread_body` |
| ResponseWriter | `server/pipeline_h1_tx.cpp` | `m_headers`, `m_header_written`, `m_deferred`, `m_announced`, `m_body_written` | `write_header`, `write`, `flush` |
| Websocket | `ws/websocket.cpp` | `m_read_buff`, `m_multipart`, `m_closed` | handshake, `next`, `write`, `close`, destructor |
| Event stream | `http/sse.cpp` | `m_ok` (never cleared) | constructor, `write`, `close`, destructor |
| Values, URL, cookies, auth | `http/*.cpp` | an ordered multimap of lower-case keys | parse, `get`, `set`, `append`, `del`, `href`, print |
| Static server | `fs/static_serve.cpp`, `fs/dir_reader.cpp` | none of its own; the file system | normalise a path, open, look at time and size, read, answer |
| JSON, Base64, SHA-1, log | `json/`, `base64/`, `hash/`, `log/` | none, or one block buffer | parse, print, encode, decode, hash |

How they interact.  `Server::serve` binds the listener and runs the accept loop in
a `std::async` thread; each accepted connection gets a detached thread that runs
`serve_conn` with the exit flag and the user's handler.  `serve_conn` builds, for
each exchange, a body reader and a `ResponseWriter` that share the connection and
its `StreamState`, reads a head, calls the handler and flushes the response.  The
handler calls the reader and the writer in any order.  A web socket or an event
stream is an object in the handler that uses the same two.  `shutdown()` sets the
flag, shuts the listener and waits for the accept loop.  There is no lock anywhere:
shared members are read and written by several threads as they come.

What is hard about it:

- **Interleaving.** `serve()`, `shutdown()` from other threads, the accept loop,
  the destructor and the connection threads share the members of `Server`.
- **Partial failure.** A send may be cut short, time out or find the socket gone,
  in the middle of a head that takes several sends; `write()` may then have told
  the peer more than its own counters say.
- **Order of calls.** The handler may call `write_header`, `write` and the body
  reader in any order, stop half-way, or throw.
- **Ordering of bytes.** Requests are pipelined in one buffer; heads and bodies
  arrive in any pieces.
- **Liveness.** A silent peer must not keep a thread for ever; `shutdown()` must
  come back.
- **A shared flag.** The threads of one `serve()` poll the exit flag that the next
  `serve()` clears.
- **Boundaries.** Unsigned differences, `read_buff.size() - 1`, sizes of zero, a
  line break cut in two, lengths of two, four and ten bytes, the last block of a hash.
- **Stale looks.** A file is looked at several times for one response, and may be
  rewritten, replaced or removed in between.

What makes each component correct:

- *ResponseWriter*: one head per exchange; never more body than announced; a
  response without a length is the connection's last; after a torn send, silence.
- *H1 pipeline, request reader*: requests are served in order, each once, each
  with its own body and one whole response; the thread ends.
- *Server*: one accept loop; an inactive server holds nothing; `shutdown()` and
  `serve()` return; the threads of plain connections end after it.
- *Websocket*: frames come out whole, in order, once; nothing after a close frame.
- *Event stream*: events are passed on at once, and the stream is ended.
- *Static server*: what is announced of a file is what is sent, and never newer
  than the contents; redirects settle.
- *Values, URL, JSON, frame headers, Base64*: what one half writes the other half
  reads.

## 2. Modules and the code

```
  TcpConnection     Conversation (abstract)    FrameDelivery (abstract)   LineSplitter (abstract)
       ^                  ^                         ^                          ^
  ResponseWriter     H1Pipeline                Websocket                  HeadReader
   ^      ^   ^           |
   |      |   +-----------+                    Server
   |      |
EventStream  StaticServer          Values  Base64       Values     Bytes
       ^      ^                      ^       ^            ^        ^    ^
       Handlers                        Url                Json   WsFrame Sha1
                                        ^                  ^       ^      ^
                                        +------ MCCodecs --+-------+------+
```

An arrow points from a module to the one it extends or instantiates.  `MCX` gives
module `X` its constants for TLC; `XProofs` holds theorems about module `X`
(`ResponseWriter`, `H1Pipeline` with its refinement of `Conversation`, `Websocket`,
`Server`, `Handlers` with `EventStream` and `StaticServer`, `Url` with `Values` and
`Base64`).  `FramingProofs` is about `H1Pipeline` too, `CodecProofs` about `WsFrame`,
`Sha1` and `HeadReader`.

**TcpConnection.**  One connection seen from the server: the peer's stream (a
sequence of *units*), whether the descriptor is open, how much was received, and
the receive timeout in the whole seconds that `cast_timeout_value` keeps.  `read`
is an operator per outcome (data, timeout, end or disconnect, another error);
`WriteResults` is the set of outcomes of `write`.  A `send` that returns less than
asked sets no `errno`, and the code then looks at a stale one, so a partial send
may be followed by either failure.  Failures of `setsockopt` on an open socket are
left out.

**ResponseWriter.**  The handler's side of an exchange.  The handler is any
sequence of at most `MaxOps` calls on the writer, then returns or throws.
`hdr`, `header_written`, `deferred`, `announced`, `body_written` are the members
of the class; `wire` records what was sent, failed sends included.  A head that
takes several sends is one step with the outcomes whole, lost, thrown, and "lost,
then thrown by the next send on the closed socket".  Header sets are reduced to
what the framing depends on: the connection token, event stream or not, length.

**Conversation / H1Pipeline.**  The thread of one connection, extending
`ResponseWriter` with the request side.  A unit is a request line, a header the
server acts on (content-length, content-type, connection: close), another header,
the blank line, or a body byte.  `read_buff` is the units in `(consumed, recvd]`;
`seek` is `reader_seek`.  Body bytes found where a head is expected stick to the
line that follows them, as in the code, where a body has no line break of its own.
The peer decides how many units each `recv` returns.  `done` is the exit flag:
`Shutdown` sets it at any moment, and `Restart` is the next `serve()`, which clears
it under a thread of the earlier one (`server.cpp:49`), up to `MaxRestarts` times.
`cut` is a history: after how many restarts a shutdown last cut the scan of a head
short (`NoCut` for never).  `Conversation` is what the thread promises the peer: a request is taken
up, gets one reply, whole, before the next is taken up, and a reply that breaks off
is the last thing said.  `Converses` maps `taken` to `exchange`, the replies to
`wire`, and the phase to where the thread is: over as soon as the socket is closed
or keep-alive is off at the loop, whatever handler and `flush()` still do.

**LineSplitter / HeadReader.**  The scan of `read_request_head` byte by byte
(CR, LF, other), with `reader_seek`, the jump to `read_buff.size() - 1` after a
chunk, the size limit and the end of a head at a line of at most two characters.
`LineSplitter` is what the scan owes: the lines of the byte stream, in order.
`HeadReader` implements it under the identity mapping of `input`, `from`, `lines`
(`SplitsLines`).

**Server.**  `serve()`, the accept loop, `shutdown()` by other threads and by
`~Server`, each access to a shared member a step of its own.  `m_sock` is the
number held by the listener together with what became of the descriptor:
uninitialised (`TcpListener() = default` leaves it so), live, shut, closed,
invalid.  A connection's thread is a slot: free, `plain`, or `held` by its handler, which
has upgraded the connection or does not return (`WorkerHeld`).  H1Pipeline shows that
a plain one ends once it sees the flag, whatever its peer does, and (run
`pipeline_raw`) that an upgraded one need not.

**FrameDelivery / Websocket / WsFrame.**  `FrameDelivery` says which payloads
`next()` owes its caller.  `Websocket` has the constructor, `next()` with its early
returns, `write`, `close` and the destructor.  A frame is where its bytes stand in
the client's stream (`start`, `body`, `stop`) and whether its first byte is valid,
its fragment bit and its mask; `m_read_buff` is the bytes in `[taken, got)`.
`early` bytes were buffered with the request head; the first raw read returns them
all, however many were asked for.  A payload is recorded as the range of the bytes
handed out, so the refinement says that no byte is lost, doubled or taken from a
neighbour.  `WsFrame` has the bytes themselves: `pack_paylen`, the header `write()`
makes, and `parse_frame` on a header that arrives byte by byte, so that the places
`Websocket` starts from are what the parser finds.

**EventStream.**  `SSEWriter` in the hands of a handler.  The constructor writes
the head through `write_header`, `write` and `close` send events (an event is the
number of its bytes), and the destructor sends a last one, also when an exception
unwinds the handler, and swallows what goes wrong with it.

**StaticServer.**  `handler_fn` step by step: method, path, redirect, opening the
file, its time, its size, the conditional headers, the range, and the body in one
piece or in chunks.  The file system moves between any two of these steps: the file
is rewritten in place, replaced by another of its name, or removed.  A file is the
version it holds and its size; two versions may share a second, the unit of
last-modified.  What an ifstream does then is written from its use: an open
descriptor keeps the old file, a name leads to the new one.  Paths begin with a slash
and are the sequences of the segments behind it; `flatten_path` is a function of each
of their beginnings.

**Handlers** puts the two behind one writer: an exchange is served by a user's
handler that may stream events, or by a static server.

**Values / Base64 / Url.**  Texts are sequences of bytes.  `Values` is the
container behind headers, cookies and query parameters: a function from names in
their looked-up form to sequences of values.  `Base64` has the two codecs block by
block.  `Url` is an object made by `URL(text)` or from a request (its target and its
Host and Authorization headers), whose search parameters the program then edits; the
percent escapes, the query string, the credentials, the cookies in both directions
and `href` are operators of it.  An escape that `std::stoi` cannot read makes the
constructor throw.  What `stoi` takes for a number (a sign, a single digit) is
modelled as it is.

**Json.**  `parse` and `stringify` with their helpers, over bytes: the entries of a
container are found by counting brackets and quotes again at every level.  A number is
its value, written as its shortest decimal (`NumberText`): `parse_number` drops the
zeros that do not count, and `FloatText` is what `std::to_string` and the trimming
behind it leave, a float rounded to six decimals.  The module's state is a property
that a program receives, edits and sends.

**Sha1.**  `update` and `digest` with the 64 byte block, the running length and the
padding.  The compression function is left out: `state` is the list of the blocks
it was given, and a byte of the message stands for its place in it.

## 3. Runs

| Run | Instance | What it shows |
|---|---|---|
| `writer` | one exchange, seven header sets, two statuses (one that the table lacks), chunks of 1 and 3, four calls | `OneHead`, `NoOverrun`, `ExchangeComplete`, `UnframedEndsConn`, `SilentAfterTear` |
| `writer_retry` | the same with a handler that catches | **finding**: a retried `write()` overruns the announced length |
| `pipeline` | nine peers with one to three requests, chunks of 3 units, bodies read by 1 or 2, plain, streaming and upgrading handlers, shutdown at any moment, one restart at any moment after it under three of the peers | the refinement `Converses`; `BodyAccounting`, `BodyBytesOnly` and `InOrder` (no byte of one request is taken for another); `ConnHeaderTruthful`; after a head that was cut short no exchange, unless the server was started again (`CutHeadIsLast`); `RawIsLast`; the thread of a plain connection ends (`IdleConnEnds`) |
| `pipeline_reject` | four well-behaved peers | **finding**: the rest of an unread body is answered as if it were a request |
| `pipeline_raw` | upgrading handlers | **finding**: a raw read never times out |
| `handlers` | a user's handler that may stream events; a static server with a root, a directory with an index page and one without, paths of up to three segments, ranges and conditions, files of size 0, 1 and 3 in up to four versions, one-shot limit 3 | `EventsPassThrough`, `StreamEnded`; `StaticFramed` (length and body agree although they come from different looks), `BodyNotOlder`, `RangeAsAsked`, `RedirectsSettle` |
| `server` | one controller, three `serve()`, two `shutdown()` each, two connections whose handlers may hold them, failing addresses, binds and accepts | `OneLoop`, `InactiveIsQuiet`, `NoTerminate`; `StopEnds`, `ServeEnds`, `WorkersDrain` |
| `server_accept_error` | failing accepts | **finding**: one failed `accept` ends the server |
| `codecs` | every text of up to three url pieces (separators, escapes, letters, blanks) and every combination of scheme, user, host, path, query and fragment; requests with 91 targets, whole and broken Authorization headers; up to two parameters set, added and removed; JSON documents of up to four properties with syntax in their strings and floats that six decimals do and do not hold; frame headers at the bounds of each width; messages of 0 to 200 bytes | what is printed is read back: urls (`UrlReadsBack`, `HrefReadsBack`), search parameters of any bytes, cookies, credentials, JSON (`JsonReadsBack`, `JsonParsesWritten`), frame headers (`HeaderWhenWhole`); SHA-1 gets the blocks of the padded message (`BlocksPadded`) |
| `url_target` | the url part, fewer texts | **finding**: a target with a query has no path |
| `head_reader` | every byte string of up to six bytes and four longer heads, chunks of 1 or 2 bytes, limit 4 | the incremental scan finds exactly the lines; what it skips holds no break |
| `websocket` | four clients of three frames, every cut into reads, every amount buffered early | the refinement of `FrameDelivery`; no false "clogging"; no read while a frame is complete; nothing after a close frame |

Every property of a passing run has a mutant of the code in the module (a dropped
guard, a missing reset, an off-by-one) under which TLC finds it violated; each
mutant stands above the definition it replaces.

**Bounds.**  In the writer two calls suffice for every order of head and write;
four allow a write before, at and beyond the boundary (lengths 0, 1 and 2 against
chunks of 1 and 3).  In the pipeline a body of two units cut into pieces of one is
the least that makes the discard fall short, and a third request shows that a
shift of the buffer would be carried on.  One restart lets a thread go on after a head
that was cut short, and a second shutdown cut the next; the three peers it happens to
send a body and a second request, a body of no known length, and a request that is
refused.  The other peers have no restart, which keeps the run within minutes.
`MaxHeader` = 2 lets the limit strike in
a head of three lines.  In the head reader the longest pattern that matters is
CR LF CR LF with a character on either side; chunks of one and two cut it
everywhere.  In the server a third `serve()` follows a restart, and a second
`shutdown()` meets a finished one.  The web socket's `read_chunk_size` is scaled
from 32 to 4, smaller than the largest header (14 bytes) and than a payload, so
that both are read in pieces; `max_header_size` has its own value.  The static
server's one-shot limit is scaled to 3, so that files of size 3 are sent in one
piece and a range may be sent in chunks; the fourth version is one more than the
looks it needs to be wrong, and ranges begin before, at and behind the ends of the
three sizes.  In `codecs` two values under one or two names are the least that
order and separators need; three pieces put any separator before, between and
behind two parts; four JSON properties give two levels of containers with a
neighbour at each, and of the three floats one needs all six decimals, one is rounded up through every
digit and one to zero; 200 bytes are more than three blocks.  Deadlock is not checked:
each of these systems may rightly stop.

**Fairness.**  `H1Pipeline`: the thread runs (weak fairness of its steps), and a
`recv` whose timeout is not zero returns; nothing is assumed of the peer or of
`shutdown()`.  A `recv` without a timeout may block for ever, which is what
`pipeline_raw` is about; `IdleConnEnds` therefore leaves out connections that were
upgraded.  `Server`: every thread that is inside a call makes its
steps; `accept` on a live socket may wait for ever, but returns an error once the
socket was shut down; the thread of a plain connection ends after the exit flag stays
set (from H1Pipeline's `IdleConnEnds`, which has it of such connections whatever the
flag does).  Of a thread that its handler holds nothing is assumed: by finding 1 an
upgraded connection with a silent peer outlives the shutdown, and `WorkersDrain` does
not promise its end.  Nobody is obliged to call `serve`, `shutdown` or the destructor.
The other modules state no fairness and claim no liveness.

## 4. Proofs

`ResponseWriterProofs` proves, for all header sets, statuses and chunk sizes and
any number of calls,

- `TypeCorrect`: `RwSpec => []RwTypeInv`;
- under `~Catches` (the handler lets a writer's exception through, as the code's
  own `serve_conn` expects): `ContentLengthRespected` (`NoOverrun`), `HeadIsSingle`
  (`OneHead`), `UnframedIsLast` (`UnframedEndsConn`), `KeptAliveIsComplete`
  (`ExchangeComplete`) and `TearIsFinal` (`SilentAfterTear`).

`NoOverrun` alone is not inductive: whether a write overruns depends on
`body_written` agreeing with what is on the wire and on the deferred body being
what the handler wrote so far.  The invariant that is, `IInv`, joins the types,
`WriterInv` (the agreement of counters, deferred body and wire at each control
point; a torn response is behind a closed socket or an exception), `Framed` and
`Done`.  `Invariance` proves it with one step per action.  Without `~Catches` the
theorem is false: run `writer_retry` shows the trace.

`H1PipelineProofs` is about a connection with any peer, any handler and any buffer
sizes; what the handler catches matters to the last of its theorems only.

- `ConnectionTyped`: `TypeInv` with `Reads`, what a blocked `recv` may ask for.
  The types need it: `http_body_pending` stays a natural number only because no
  read outside raw mode asks for more than is pending.  `AsksForSomething`
  (`RecvNonZero`, a part of `BodyAccounting`) follows.
- `UpgradeIsLast` (`RawIsLast`).  The invariant `RawInv` adds that raw mode turns
  keep-alive off, and that nobody discards a body in raw mode.
- `CutHeadEndsConnection` (`CutHeadIsLast`).  `CutInv` follows `Known`, that the
  head is complete or was cut short, from the scan through handler and `flush()` back
  to the loop, where only an exchange with an error reply, which closes the socket,
  may lack it.  A cut is as old as the restarts before it: while their number is the
  same the flag is still up, so that an exchange begins with `cut < restarts`.  That
  the next `serve()` clears the flag makes the condition necessary.
- `ConnHeaderIsTrue` (`ConnHeaderTruthful`).  `TruthInv` says why: keep-alive does not
  change between the moment a head is sent or deferred and the end of the exchange,
  because before that no head of this exchange is on the wire.
- `ConnectionConverses`: under `~Catches`, `Spec => Converses`, the refinement of
  `Conversation`.  The invariant `ConvInv` says, for a connection that is still
  alive, how many replies are on the wire at each point of the loop and that the
  last one is unbroken from its head on; a deferred head counts as written but is
  not on the wire.  Every action then is one of five: it takes up a request, begins
  a reply, breaks it off, ends it, or says nothing.  With a handler that catches,
  the theorem is false: after a torn body the handler goes on.

`FramingProofs` is about which bytes are whose.  It assumes nothing of the peer:
`Honest` (in the properties themselves) are the streams whose requests are framed as
this server frames them, wherever they break off, and what a raw connection carries
is not looked at.

- `BodyAccounted` (`BodyAccounting`), `ServedInOrder` (`InOrder`), `OnlyBodyTaken`
  (`BodyBytesOnly`).
- `RejectedInsideABody`: an honest peer is refused only when the reader stands in the
  unread rest of a body, which is finding 3, or after a head that was cut short.

All of it holds with restarts, on connections where no shutdown cut a head
(`cut = NoCut`).  Behind such a head nothing is promised: its lines stay in the
buffer, for the handler to read as a body or for the next exchange to parse again.

The invariant is `FInv`.  `Settled`: either nothing was read yet, or
`http_body_pending` behind the reader's place is where the body of a head it has
passed ends.  Inside a head, `Scan`: what was scanned begins with a request line, ends
no head, and its content-length is the last one read.  The number of the exchange is
the number of request lines passed.  None of it is inductive without the others, nor
without `CutInv`, which says where a head that was not cut is complete.
A head's end is found in a stream as the greatest one up to a place (`Greatest`, by
the well-foundedness of the numbers).

`HandlersProofs` is about the two handlers the library brings along.

*Event streams*, under `~Catches`: `EventsArePassedOn` (`EventsPassThrough`),
`StreamsAreEnded` (`StreamEnded`), `StreamIsLast`.  `EventInv` says for each stage of
the `SSEWriter`'s life what the head on the wire is (the stream's own, without a
length, so that nothing is deferred and `write()` never holds back) and that what
went out behind it is all that was asked for, unless the socket is closed or an
exception is on its way.  What `EventsPassThrough` counts is not enough: while an
event is being sent the counters are ahead of the wire by the piece under way.

*Static files*, for any files, sizes, requests and number of versions:

- `ContentsNotOlder` (`BodyNotOlder`), by an invariant (`SInv`) that orders the
  versions at the moments the file was opened, stamped and read.
- `ServesThroughWriter`: `StaticSpec => RwSpec`, the static server is a handler like
  any other, and so what is proved of the writer holds of it,
  `StaticResponsesFramed`.
- `StaticBodyFramed` (`StaticFramed`) and `PartialAsAsked` (`RangeAsAsked`).  `Served`
  says what each place of `handler_fn` knows of the head that was sent or deferred,
  of the length it announced, and of how much was read; `IInv` of the writer says
  what became of it on the wire.
- `RedirectsEnd` (`RedirectsSettle`), for every path and every set of files and
  directories.  `flatten_path` is a recursive function, whose existence is proved
  first (`Recursion`, from sets of numbers having a least element); then that what it
  leaves is in normal form, and that a path in normal form is left alone.

`HandlersInvariance`, `HandlersStreamEvents` and `HandlersServeFiles` carry both over
to `HandlersSpec`: a user's handler leaves the static server's members alone, and
the static server opens no stream.

`WebsocketProofs` proves, for every client whose frames lie one behind the other,
every read size and every order of calls, `TypeCorrect`, `CloseEndsSending`
(`CloseIsLast`), `MasksRespected` (a whole frame is unmasked with its own mask),
`CloggingNeverSeen` (`NeverClogged`), `NoReadWhileWhole` (`NoReadPastFrame`) and
`Refinement` (`DeliversFrames`).  The refinement needs to
know that `taken` stands at the start of the next frame whenever `next()` is not in
the middle of a payload, and inside that payload otherwise; the invariant says so,
together with what the mask of a message in fragments may be and that a socket
which sent a close frame is marked closed.

`ServerProofs` proves `TypeCorrect`, `NeverTwoLoops` (`OneLoop`) and
`NeverTerminates` (`NoTerminate`) for any number of threads that call `shutdown()`
at any moment (`EarlyStop`), of connections, and every fault.  `OneLoop` is not
inductive; what is, `LoopWaitedFor`, says that while the loop runs its future is
valid and `serve()` stands before or in `get()`: the result is taken only from a
loop that has ended, so `serve()` cannot return and be called again before.
`NoTerminate` rests on `DestroyInv`: the destructor runs alone.  `InactiveMeansQuiet`
(`InactiveIsQuiet`) is proved for one controller that does not call `shutdown()`
before `serve()` waits.  Both assumptions are needed: with two controllers the slower
one clears `m_active` under a server that was started again, and an early one clears
it under a starting loop.

`CodecProofs` is about bytes that come in pieces.

- `HeadersReadBack` (`HeaderWhenWhole`), for every first byte, with and without a
  mask, and every payload below 2^31 bytes: `parse_frame` waits for all of a header,
  however it is cut, and finds the size, mask and place that were sent.  Beyond that
  size the code shifts an `int` out of its range (section 5).  `FrameInv` says that
  what arrived begins the header; what remains is that the bytes of a number make it
  up again, which the mark 126 and the limit 65535 depend on.
- `MessagePadded` (`BlocksPadded`), for messages of every length: `m_transform` gets
  the blocks of the padded message, each once and in order.  `Filling` says that the
  blocks given so far and the first `datalen` bytes of the buffer are the message so
  far; the rest is the two ways `digest` ends, according to whether the mark leaves
  room for the length.
- `HeadSafety` and `HeadRefinement`, for every byte stream, chunk size and limit: what
  the scan of a head skips holds no break (`SkippedHasNoBreak`), the head is bounded by
  the limit and one chunk, and `HeadReader` implements `LineSplitter` (`SplitsLines`).
  `HeadInv` is needed because the code resumes at `read_buff.size() - 1`, which is
  right only while nothing before it ends a line.

`UrlProofs` is about the texts of `Url`, of any bytes and any length.

- `Base64ReadsBack`: what `encode` makes of any nonempty bytes `decode` reads back.
  The codecs are stated character by character (`EncBlock`, `DecBlock`), so that the
  proof is one about a block, with each of the three paddings, and not an induction
  over the text.
- `PercentReadsBack`: what `encode_uri_component` writes of any bytes
  `decode_uri_component` reads back.  From the end of the text on: behind an escape or
  a plain byte the decoder stands again where the encoder began a byte, and what it
  makes of the rest is known.
- `CredentialsRead` (`CredentialsReadBack`), for every url object: what is sent in an
  Authorization header is what is found there.  The first blank of the header is the
  one behind `Basic` and the first colon of what is decoded stands behind the name,
  because a name that came out of a url or of a header is not empty and holds no
  colon.
- `SearchParamsRead` (`SearchReadsBack`): whatever a program sets, adds and removes, the
  parameters that `to_string` prints are read as the same names with the same nonempty
  values in the same order.
- `CookiesRead` (`CookiesReadBack`): a client that is set the pairs and returns them is
  understood, if no pair holds a semicolon and no name an equals sign.
- `UrlRead` and `HrefRead` (`UrlReadsBack`, `HrefReadsBack`): the constructor finds the
  parts that `to_string` and `href` put together, and only those.

The invariant of a url object is `UrlInv`.  What is written can be read because of
what the constructor and the request reader leave in an object: a scheme is in lower
case and holds no `://`, a path no `?` and no `#`, a fragment is empty or begins with
`#`, the name of a user holds no colon, and the parameters are a *container*
(`IsContainer`): finitely many names, each as `reset_case` and `trim_space` leave it,
so that reading a name once more changes nothing.  None of the properties says so,
and each of them depends on a part of it.  `UrlInit` and `UrlStep` prove it.

The text of a container and of a cookie header is pieces with a glue between them.
`Spread` says where each of them lies, and (`PiecesOfJoined`) cutting at all the places
of the glue gives the pieces back if the glue is found nowhere else: between
parameters, because `&` and `=` are escaped; between cookies, because a pair holds no
semicolon.  The functions that are computed along a text (`FlattenSeq`, `decode`,
`Collected`) are recursive functions: that they exist is proved first
(`FlattensExists`, `DecodedExists`, `CollectedExists`), by induction over a set of
numbers (`Induct`), and then only their unrolling is used.  The order of the names
comes from counting how many stand before each of them, which needs that `Before` is
a strict total order of texts.

The constants' assumptions (`ASSUME` in the modules) are all that the theorems
rest on besides those named above; TLC evaluates them in every run.

Some of what is proved is no longer a run of its own, because a stronger property
is: the type invariants, `RecvNonZero` (in `BodyAccounting`), `WholeFrameMask`,
`HeadBounded`.

Three definitions had to change because a proof of them failed for a good reason.  The
branches of `FileHead` and of the connection header overlapped, and an overlapping
`CASE` is any of its branches to the prover, whichever TLC takes.  They now are
tried in the code's order.  `HexValue` chose among the digit of a byte and the value
for "no digit" (16), and nothing but TLC's order of choosing preferred the digit.

Only model-checked:

- Liveness (`IdleConnEnds`, `StopEnds`, `ServeEnds`, `WorkersDrain`), which is beyond
  the prover.
- The round trips of JSON (`JsonReadsBack`, `JsonParsesWritten`), with the rounding of
  floats.  A document is
  nested to any depth, and parser and printer are recursive operators over it, which
  the prover cannot reason about.  As functions of the depth they could be treated like
  `decode` above; this has not been done.
- What the runs that expect a violation show.

## 5. Findings

1. `net/tcp_conn.cpp:124`: 100 ms become zero seconds, that is, no timeout.  A raw
   read blocks while the peer is silent, and such a thread misses a shutdown.
2. `server/pipeline_h1_tx.cpp:265`: bytes of a send that threw are not counted; a
   handler that catches and writes again exceeds the content-length.
3. `server/pipeline_h1_rx.cpp:349`: an unread body is discarded with a single
   `recv`; the rest is parsed as a request and answered 400.
4. `server/server.cpp:70`: the catch of the accept loop tests the pointer to the
   flag, never null, so any exception ends the server.
5. `server/pipeline_h1_rx.cpp:60`: a request target with a query gives an empty
   path, which becomes `/` (run `url_target`); `examples/api.cpp` compares the path
   to `/api` and then reads a parameter.

Seen while modelling; the models do the same, and no property is claimed against
them:

- *Server.*  `m_active` stays set when the bind throws; later calls throw "Already
  running" (`server/server.cpp:48`, `ServeRefused`).  The stale descriptor number
  (`net/tcp_listen.cpp:43`) also makes the destructor's `shutdown()` throw, which ends
  the process (`NoTerminate` names the exception).  `shutdown()` throws
  `future_error` when `serve()` collects the result between `valid()` and `get()`
  (`server/server.cpp:101`).  A `shutdown()` before `serve()` has started its loop is
  undone by it (`server/server.cpp:49`; the run sets `EarlyStop` to FALSE).
  Detached threads may outlive the handler they call (`server/server.cpp:66`), and
  those of upgraded connections a shutdown.  A restart clears the flag under the
  threads of the earlier `serve()` (`server/server.cpp:49`): one that has not seen it
  goes on.
- *Request reader.*  A head cut short by a shutdown reaches the handler with an
  uninitialised method, and body reads return its bytes
  (`server/pipeline_h1_rx.cpp:214`); if the server is started again before the thread
  looks at the flag, the same head is read once more and served twice, or what is left
  of it is parsed.  A line of one or two characters ends a head.
- *Web socket.*  A failed `close()` is repeated by the destructor.  Middle fragments
  are unmasked with the first fragment's mask.
- *Event stream.*  `close()` does not clear `m_ok` (`http/sse.cpp:60`): the destructor
  sends a second last event, and writes stay possible.
- *Static server.*  The end of a range is exclusive, and there is no content-range;
  `bytes=-5` gives the first five; HEAD with a range gets a body.  A whole file that
  was cut short, or could not be opened, is announced longer than it is sent.  A
  directory named `index.html` is redirected to itself for ever (excluded by the
  model's assumptions).  A file replaced between opening and stamping gets the
  wrong time.
- *Values and urls.*  A token of one character counts as blank (`http/values.cpp:147`),
  so that one-letter names are not stored; `examples/kvserver.cpp:19` asks for the
  parameter `r`, which can never be there.  A shadowed `path_begin` makes the host
  behind credentials empty (`http/url.cpp:77`); `http/test_url.cpp:49` expects
  `localhost:8080`.
- *JSON.*  What `stringify` writes and `parse` does not read: quotes, backslashes and
  the escape byte in strings, `false` (longer than a literal may be), an empty
  array, strings with unbalanced brackets.  A float is written with six decimals
  (`json/stringify.cpp:28`): 0.0000001 is read back as zero, -9.9999996 as -10.
  `JsonReadsBack` has that what fits is read back, and that what was rounded once is
  not changed again.

Seen, and outside the models: `unpack_paylen` shifts an `int` by up to 56 bits; the
handshake lower-cases the client's key and puts the constant before it;
`Base64::decode("")` reads before the string, and an unpadded block of three
characters loses its second byte; Max-Age of a cookie is printed as a date; a header
without a space after the colon is dropped; `max_body_size` is read nowhere.

## 6. Not modelled, and why

- *SHA-1's arithmetic*: eighty rounds of 32-bit words have no specification but
  themselves; the blocks they are given are modelled.  With it the accept key of the
  web socket handshake is left out.
- *MIME types*: 1200 lines of one constant table with one look-up.
- *Dates, method names, log, formatter*: layout of text; the only time that matters,
  last-modified in whole seconds, is in `StaticServer`.
- *The page the static server sends for a missing file*: text; that it is sent, with
  which status, is modelled.
- *Page generator, examples, tests*: a build tool, and users of the library.
- *Targets that do not begin with a slash*: the reader accepts them
  (`server/pipeline_h1_rx.cpp:66`) and the static server would look for them relative
  to its root; `StaticServer` has rooted paths only.
- The thread-safety of the user's handler is the user's.

Where one would go on: a composition of `Server` with the threads of `H1Pipeline` in
place of the slots; and JSON's parser and printer as functions of the depth of a
document, so that their round trips can be proved.
