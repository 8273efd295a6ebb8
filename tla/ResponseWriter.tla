--------------------------- MODULE ResponseWriter ---------------------------
(***************************************************************************)
(* Impl::ResponseWriter (src/server/pipeline_h1_tx.cpp): the part of an    *)
(* HTTP/1.1 exchange that belongs to the user's handler.  The handler is   *)
(* any sequence of at most MaxOps calls on the writer, after which it      *)
(* returns, or throws, at any moment.  write_header() may defer the head   *)
(* until the body is known; write() may truncate; flush(), called by       *)
(* serve_request, ends the response.                                       *)
(*                                                                         *)
(* `wire` is what the peer has been sent: one record per response, from    *)
(* the first send() of its head on, the sends that failed included.        *)
(* An exception raised by a call goes to the handler.  A handler that      *)
(* Catches carries on; otherwise it ends the connection's thread.          *)
(***************************************************************************)
EXTENDS TcpConnection

CONSTANTS
  HandlerHeaders,   \* header sets a handler may put on its response
  Statuses,         \* status codes a handler may use
  Chunks,           \* sizes a handler may pass to write()
  MaxOps,           \* bound on a handler's calls in one exchange
  Catches           \* does the handler catch what a writer call throws?

NoLen == -1         \* an absent content-length

ConnToken == {"none", "keep-alive", "close", "upgrade"}
HeaderType == [conn : ConnToken, sse : BOOLEAN, len : Nat \cup {NoLen}]
NoHeaders == [conn |-> "none", sse |-> FALSE, len |-> NoLen]

ASSUME HandlerAssumption ==
  /\ HandlerHeaders \subseteq HeaderType
  /\ Statuses \subseteq Nat
  /\ Chunks \subseteq Nat
  /\ MaxOps \in Nat
  /\ Catches \in BOOLEAN

VARIABLES
  pc,                \* where the connection's thread is
  after,             \* where serve_request goes when flush() returns
  exchange,          \* number of the exchange on this connection
  ops,               \* calls the handler has made in this exchange
  asked,             \* history: body bytes the handler has passed to write()
  hdr,               \* m_headers: what the response framing depends on
  header_written,    \* m_header_written
  deferred,          \* m_deferred
  announced,         \* m_announced, NoLen = empty
  body_written,      \* m_body_written
  toWrite,           \* argument of the write() in progress
  http_body_pending, \* StreamState: request body bytes not read yet
  http_keep_alive,   \* StreamState
  raw_io,            \* StreamState
  stream_response,   \* StreamState
  wire               \* history: the responses on the wire

streamState == <<http_body_pending, http_keep_alive, raw_io, stream_response>>
writerState == <<hdr, header_written, deferred, announced, body_written>>
txVars == <<pc, after, exchange, ops, asked, toWrite, wire, streamState, writerState>>
rwVars == <<connVars, txVars>>

NoDeferred == [on |-> FALSE, st |-> 0, conn |-> "none", size |-> 0]

(* Members of enum Status that table_status has no entry for: EarlyHints,   *)
(* AlreadyReported, MisdirectedRequest, TooEarly, LoopDetected, NotExtended *)
TableLacks == {103, 208, 421, 425, 508, 510}
OK == 200

(* A fresh ResponseWriter, built by serve_request for every exchange. *)
FreshWriter ==
  /\ hdr' = NoHeaders
  /\ header_written' = FALSE
  /\ deferred' = NoDeferred
  /\ announced' = NoLen
  /\ body_written' = 0

------------------------------------------------------------------------------
(* write_head: the head goes out in several sends, any of which may fail.   *)
(* When a send that closed the socket is not the last one, the next one     *)
(* throws because the socket is closed.                                     *)

HeadResults ==
  [whole : {TRUE}, res : {"ok"}]
    \cup [whole : {FALSE}, res : {"lost", "throws", "lostThrows"}]

KeepsOpen(res) == res \in {"ok", "throws"}
Returns(res) == res \in {"ok", "lost"}

PutHead(st, conn, len, r) ==
  /\ wire' = Append(wire, [ex |-> exchange, st |-> st, conn |-> conn, len |-> len,
                           whole |-> r.whole, sent |-> 0, torn |-> r.res # "ok"])
  /\ open' = KeepsOpen(r.res)

HeadOnWire == wire # <<>> /\ wire[Len(wire)].ex = exchange

AddBody(w, r) == [w EXCEPT !.sent = @ + r.sent, !.torn = (@ \/ r.res # "ok")]

(* conn.write of part of a body.  Body bytes sent with no head before them *)
(* are what the peer takes for a response without a status line.            *)
PutBody(r) ==
  /\ wire' = IF HeadOnWire
             THEN [wire EXCEPT ![Len(wire)] = AddBody(@, r)]
             ELSE Append(wire, [ex |-> exchange, st |-> 0, conn |-> "none", len |-> NoLen,
                                whole |-> FALSE, sent |-> r.sent, torn |-> TRUE])
  /\ open' = KeepsOpen(r.res)

(* Mutant: the exception never leaves the call *)
RaiseSwallowed == pc' = "handler"

(* A writer call throws. *)
Raise == pc' = IF Catches THEN "handler" ELSE "exit"

(* Where control goes after a head that was to continue at `next`. *)
Continue(r, next) == IF Returns(r.res) THEN pc' = next ELSE Raise

------------------------------------------------------------------------------
(* write_header(st), continuing at `next` when it returns *)

Upgrades == hdr.conn = "upgrade"

(* Mutants: an event stream, an upgrade leaves keep-alive on *)
KeepsAliveStream == http_keep_alive /\ ~Upgrades
KeepsAliveUpgrade == http_keep_alive /\ ~hdr.sse

KeepsAlive == http_keep_alive /\ ~Upgrades /\ ~hdr.sse

(* Mutant: an event stream keeps the content-length it was given *)
FramedLenKept == IF Upgrades THEN NoLen ELSE hdr.len

FramedLen == IF Upgrades \/ hdr.sse THEN NoLen ELSE hdr.len
Deferrable == ~(raw_io \/ stream_response \/ Upgrades \/ hdr.sse)

(* Mutant: always announce keep-alive *)
ConnHeaderKeep == IF hdr.conn # "none" THEN hdr.conn ELSE "keep-alive"

ConnHeader == IF hdr.conn # "none" THEN hdr.conn
              ELSE IF KeepsAlive THEN "keep-alive" ELSE "close"

(* Mutant: the head is not marked as written *)
FlagStreamUnmarked ==
  /\ header_written' = header_written
  /\ http_keep_alive' = KeepsAlive
  /\ http_body_pending' = IF Upgrades THEN 0 ELSE http_body_pending
  /\ raw_io' = (raw_io \/ Upgrades)
  /\ stream_response' = (stream_response \/ hdr.sse)

FlagStream ==
  /\ header_written' = TRUE
  /\ http_keep_alive' = KeepsAlive
  /\ http_body_pending' = IF Upgrades THEN 0 ELSE http_body_pending
  /\ raw_io' = (raw_io \/ Upgrades)
  /\ stream_response' = (stream_response \/ hdr.sse)

(* set_timeouts throws on a closed socket, before the SSE test *)
UpgradeClosed ==
  /\ Upgrades /\ ~open
  /\ header_written' = TRUE
  /\ http_keep_alive' = FALSE
  /\ http_body_pending' = 0
  /\ raw_io' = TRUE
  /\ Raise
  /\ UNCHANGED <<stream_response, hdr, deferred, announced, body_written, wire, connVars>>

RawIoReadTimeout == 100

Defer(st, next) ==
  /\ Deferrable /\ hdr.len = NoLen
  /\ FlagStream
  /\ deferred' = [on |-> TRUE, st |-> st, conn |-> ConnHeader, size |-> 0]
  /\ hdr' = NoHeaders
  /\ pc' = next
  /\ UNCHANGED <<announced, body_written, wire, connVars>>

SendHead(st, next) ==
  /\ ~(Upgrades /\ ~open)
  /\ ~(Deferrable /\ hdr.len = NoLen)
  /\ FlagStream
  /\ rcvTimeout' = IF Upgrades THEN TimevalSeconds(RawIoReadTimeout) ELSE rcvTimeout
  /\ announced' = FramedLen
  /\ \/ /\ st \in TableLacks \/ ~open
        /\ Raise
        /\ UNCHANGED <<open, wire>>
     \/ /\ st \notin TableLacks /\ open
        /\ \E r \in HeadResults : PutHead(st, ConnHeader, FramedLen, r) /\ Continue(r, next)
  /\ UNCHANGED <<hdr, deferred, body_written, stream, recvd>>

Header(st, next) == UpgradeClosed \/ Defer(st, next) \/ SendHead(st, next)

------------------------------------------------------------------------------
(* The calls of the handler *)

InHandler == pc = "handler" /\ ops < MaxOps /\ ops' = ops + 1

(* wrt.header().set(...): only matters before the head is written *)
SetHeaders ==
  /\ InHandler
  /\ ~header_written
  /\ hdr' \in HandlerHeaders
  /\ UNCHANGED <<connVars, pc, after, exchange, asked, toWrite, wire, streamState,
                 header_written, deferred, announced, body_written>>

WriteHeader(st) ==
  /\ InHandler
  /\ ~header_written
  /\ Header(st, "handler")
  /\ UNCHANGED <<after, exchange, asked, toWrite>>

(* "Response header has been already written" *)
WriteHeaderAgain ==
  /\ InHandler
  /\ header_written
  /\ Raise
  /\ UNCHANGED <<connVars, after, exchange, asked, toWrite, wire, streamState, writerState>>

(* write(data): a head first when there is none yet *)
Write(n) ==
  /\ InHandler
  /\ toWrite' = n
  /\ asked' = asked + n
  /\ IF header_written
     THEN pc' = "put" /\ UNCHANGED <<connVars, wire, streamState, writerState>>
     ELSE Header(OK, "put")
  /\ UNCHANGED <<after, exchange>>

(* the rest of write(): keep for the deferred body, ... *)
PutDeferred ==
  /\ pc = "put" /\ deferred.on
  /\ deferred' = [deferred EXCEPT !.size = @ + toWrite]
  /\ pc' = "handler"
  /\ UNCHANGED <<connVars, after, exchange, ops, asked, toWrite, wire, streamState,
                 hdr, header_written, announced, body_written>>

(* ... discard what exceeds the announced length, ... *)
PutExtra ==
  /\ pc = "put" /\ ~deferred.on
  /\ announced # NoLen /\ body_written >= announced
  /\ pc' = "handler"
  /\ UNCHANGED <<connVars, after, exchange, ops, asked, toWrite, wire, streamState, writerState>>

(* Mutant: no truncation *)
CanWriteAll == toWrite

(* ... or send, truncated to the announced length. *)
CanWrite == IF announced # NoLen /\ toWrite > announced - body_written
            THEN announced - body_written ELSE toWrite

Put ==
  /\ pc = "put" /\ ~deferred.on
  /\ announced = NoLen \/ body_written < announced
  /\ \/ /\ ~open
        /\ Raise
        /\ UNCHANGED <<open, wire, body_written>>
     \/ /\ open
        /\ \E r \in WriteResults(CanWrite) :
             /\ PutBody(r)
             /\ body_written' = body_written + (IF r.res = "ok" THEN r.sent ELSE 0)
             /\ Continue(r, "handler")
  /\ UNCHANGED <<stream, recvd, rcvTimeout, after, exchange, ops, asked, toWrite, streamState,
                 hdr, header_written, deferred, announced>>

HandlerReturns ==
  /\ pc = "handler"
  /\ pc' = "flush"
  /\ UNCHANGED <<connVars, after, exchange, ops, asked, toWrite, wire, streamState, writerState>>

HandlerThrows ==
  /\ pc = "handler"
  /\ pc' = "exit"
  /\ UNCHANGED <<connVars, after, exchange, ops, asked, toWrite, wire, streamState, writerState>>

------------------------------------------------------------------------------
(* flush(), and where an exception from it goes: the catch of serve_conn *)

(* Mutant: flush() ignores what a send threw *)
ContinueFlushAlways(r, next) == pc' = next

ContinueFlush(r, next) == pc' = IF Returns(r.res) THEN next ELSE "exit"

FlushNothing ==
  /\ pc = "flush"
  /\ ~open \/ (header_written /\ ~deferred.on)
  /\ pc' = after
  /\ UNCHANGED <<connVars, after, exchange, ops, asked, toWrite, wire, streamState, writerState>>

FlushEmpty ==
  /\ pc = "flush" /\ open /\ ~header_written
  /\ hdr' = [hdr EXCEPT !.len = 0]
  /\ \E r \in HeadResults : PutHead(OK, hdr.conn, 0, r) /\ ContinueFlush(r, after)
  /\ UNCHANGED <<stream, recvd, rcvTimeout, after, exchange, ops, asked, toWrite, streamState,
                 header_written, deferred, announced, body_written>>

FlushHead ==
  /\ pc = "flush" /\ open /\ header_written /\ deferred.on
  /\ \/ /\ deferred.st \in TableLacks
        /\ pc' = "exit"
        /\ UNCHANGED <<open, wire>>
     \/ /\ deferred.st \notin TableLacks
        /\ \E r \in HeadResults : /\ PutHead(deferred.st, deferred.conn, deferred.size, r)
                                  /\ ContinueFlush(r, "flushBody")
  /\ UNCHANGED <<stream, recvd, rcvTimeout, after, exchange, ops, asked, toWrite, streamState, writerState>>

FlushBody ==
  /\ pc = "flushBody"
  /\ \/ /\ ~open
        /\ pc' = "exit"
        /\ UNCHANGED <<open, wire>>
     \/ /\ open
        /\ \E r \in WriteResults(deferred.size) : PutBody(r) /\ ContinueFlush(r, after)
  /\ UNCHANGED <<stream, recvd, rcvTimeout, after, exchange, ops, asked, toWrite, streamState, writerState>>

HandlerCall ==
  \/ SetHeaders
  \/ \E st \in Statuses : WriteHeader(st)
  \/ WriteHeaderAgain
  \/ \E n \in Chunks : Write(n)

WriterStep ==
  \/ PutDeferred \/ PutExtra \/ Put
  \/ HandlerReturns \/ HandlerThrows
  \/ FlushNothing \/ FlushEmpty \/ FlushHead \/ FlushBody

------------------------------------------------------------------------------
(* One exchange on its own: the peer may disconnect while the handler runs *)
(* and reads the body (the whole receive side is in H1Pipeline).            *)

PeerGone ==
  /\ pc = "handler" /\ RecvClosed
  /\ UNCHANGED txVars

RwInit ==
  /\ ConnInit
  /\ pc = "handler" /\ after = "loop" /\ exchange = 1
  /\ ops = 0 /\ asked = 0 /\ toWrite = 0 /\ wire = <<>>
  /\ hdr = NoHeaders /\ header_written = FALSE /\ deferred = NoDeferred
  /\ announced = NoLen /\ body_written = 0
  /\ http_body_pending \in {0, 1} /\ http_keep_alive \in BOOLEAN
  /\ raw_io = FALSE /\ stream_response = FALSE

RwNext == HandlerCall \/ WriterStep \/ PeerGone

RwSpec == RwInit /\ [][RwNext]_rwVars

------------------------------------------------------------------------------
(* Properties *)

ResponseType == [ex : Nat, st : Nat, conn : ConnToken, len : Nat \cup {NoLen},
                 whole : BOOLEAN, sent : Nat, torn : BOOLEAN]

WriterTypeOK ==
  /\ exchange \in Nat /\ ops \in 0 .. MaxOps /\ asked \in Nat /\ toWrite \in Nat
  /\ hdr \in HeaderType
  /\ header_written \in BOOLEAN
  /\ deferred \in [on : BOOLEAN, st : Nat, conn : ConnToken, size : Nat]
  /\ announced \in Nat \cup {NoLen}
  /\ body_written \in Nat
  /\ http_body_pending \in Nat
  /\ http_keep_alive \in BOOLEAN /\ raw_io \in BOOLEAN /\ stream_response \in BOOLEAN
  /\ wire \in Seq(ResponseType)

(* The variables of the exchange have the types of the members they model. *)
RwTypeInv ==
  /\ ConnTypeOK
  /\ WriterTypeOK
  /\ pc \in {"handler", "put", "flush", "flushBody", "loop", "exit"}
  /\ after = "loop"

(* The peer never gets more body bytes than the content-length it was told, *)
(* whatever the handler passes to write() and however the sends fail        *)
(* (write's "ensure we aren't writing over the specificed content-length"). *)
NoOverrun == \A i \in 1 .. Len(wire) : wire[i].len # NoLen => wire[i].sent <= wire[i].len

(* No exchange puts a second status line on the wire: the head comes from   *)
(* write_header, from the first write() or from flush(), never from two.    *)
OneHead == \A i \in 2 .. Len(wire) : wire[i - 1].ex < wire[i].ex

(* When serve_request is done with an exchange and the connection goes on,  *)
(* the peer has one whole response to it, with a length to frame it by, and *)
(* exactly the bytes the handler wrote, up to that length.                  *)
ExchangeComplete ==
  pc = "loop" /\ open /\ http_keep_alive /\ exchange > 0 =>
    /\ HeadOnWire
    /\ LET r == wire[Len(wire)] IN
         /\ r.whole /\ ~r.torn /\ r.len # NoLen
         /\ r.sent = IF asked <= r.len THEN asked ELSE r.len

(* A response without a length ends when the connection does: keep-alive is *)
(* off before its head is sent, also for an upgrade or an event stream.     *)
UnframedEndsConn == \A i \in 1 .. Len(wire) : wire[i].len = NoLen => ~http_keep_alive

(* Why the above hold.  While the handler composes the response, `Passed`   *)
(* of the bytes it wrote are accounted for: in the deferred body, or on the *)
(* wire up to the announced length; a torn response is behind a closed      *)
(* socket or an exception on its way out.                                   *)
Passed == IF pc = "put" THEN asked - toWrite ELSE asked

Composing ==
  /\ ~header_written => wire = <<>> /\ ~deferred.on /\ announced = NoLen
                         /\ asked = 0 /\ body_written = 0
  /\ deferred.on => header_written /\ wire = <<>> /\ deferred.size = Passed
  /\ header_written /\ ~deferred.on /\ open =>
       /\ wire # <<>> /\ wire[1].whole /\ ~wire[1].torn
       /\ wire[1].len = announced /\ wire[1].sent = body_written
       /\ announced # NoLen =>
            body_written = IF Passed <= announced THEN Passed ELSE announced

WriterInv ==
  /\ exchange = 1 /\ Len(wire) <= 1
  /\ wire # <<>> => wire[1].ex = exchange /\ (wire[1].torn => ~open \/ pc = "exit")
  /\ raw_io \/ stream_response => ~http_keep_alive
  /\ pc \in {"handler", "put", "flush"} => Composing
  /\ pc = "put" => header_written /\ toWrite <= asked
  /\ pc = "flushBody" =>
       /\ header_written /\ deferred.on /\ deferred.size = asked
       /\ open => /\ wire # <<>> /\ wire[1].whole /\ ~wire[1].torn
                  /\ wire[1].len = asked /\ wire[1].sent = 0

(* After a send that failed half-way the peer cannot tell where it is in    *)
(* the response: the connection's thread sends nothing more.                *)
SilentAfterTear == [][(\E i \in 1 .. Len(wire) : wire[i].torn) => wire' = wire]_rwVars
==============================================================================
