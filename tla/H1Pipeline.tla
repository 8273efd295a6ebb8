----------------------------- MODULE H1Pipeline -----------------------------
(***************************************************************************)
(* Pipelines::H1::serve_conn (src/server/pipeline_h1.cpp): the thread that *)
(* serves one connection, exchange after exchange, with the request reader *)
(* (src/server/pipeline_h1_rx.cpp) and, from ResponseWriter, the response  *)
(* side.  The peer decides when its bytes arrive; the server's shutdown()  *)
(* sets `done` at any moment, and the flag is shared: the next serve()     *)
(* clears it again under the threads of the earlier one.                   *)
(*                                                                         *)
(* read_buff is the units in (consumed, recvd]; reader_seek is the         *)
(* absolute position `seek`.  The scanner looks for the end of a line, and *)
(* body bytes hold none: they stick to the line that follows them.         *)
(***************************************************************************)
EXTENDS ResponseWriter, FiniteSets

CONSTANTS
  HeaderChunk,   \* header_chunk_size
  BodyReads,     \* sizes a handler may pass to read()
  MaxHeader,     \* options.max_header_size
  MaxRestarts    \* bound: calls of serve() after a shutdown(), by what the peer sends

ASSUME ReaderAssumption ==
  /\ HeaderChunk \in Nat \ {0}
  /\ BodyReads \subseteq Nat \ {0}
  /\ MaxHeader \in Nat
  /\ MaxRestarts \in [Streams -> Nat]

VARIABLES
  consumed,      \* units that left read_buff
  seek,          \* reader_seek of read_request_head
  total_read,    \* total_read of read_request_head
  head,          \* the RequestHead being read, and whether its end was
  want,          \* size of the recv() the thread is blocked in
  done,          \* ctx.done(): the server is shutting down
  restarts,      \* calls of serve() that cleared the flag
  cut            \* history: restarts before a shutdown last cut a head short

rxVars == <<consumed, seek, total_read, head, want>>
exitVars == <<done, restarts, cut>>
vars == <<connVars, txVars, rxVars, exitVars>>

NoCut == -1

EmptyHead == [line |-> FALSE, can |-> FALSE, clen |-> NoLen,
              ctype |-> FALSE, close |-> FALSE, complete |-> FALSE]

Smaller(a, b) == IF a <= b THEN a ELSE b

Buffered == recvd - consumed

(* Mutant: the bytes read are not counted off *)
TakeBodyUncounted(n) ==
  /\ consumed' = consumed + n
  /\ http_body_pending' = http_body_pending

(* n bytes leave the buffer, or the socket, as part of the body. *)
TakeBody(n) ==
  /\ consumed' = consumed + n
  /\ http_body_pending' = IF raw_io THEN http_body_pending ELSE http_body_pending - n

------------------------------------------------------------------------------
(* serve_conn and discard_unread_body *)

(* serve_request begins: a fresh writer, read_request_head from the start   *)
(* of read_buff                                                             *)
StartExchange ==
  /\ pc' = "head"
  /\ exchange' = exchange + 1
  /\ ops' = 0 /\ asked' = 0
  /\ FreshWriter
  /\ seek' = consumed' /\ total_read' = 0 /\ head' = EmptyHead

LoopEnds ==
  /\ pc = "loop"
  /\ ~(open /\ ~done /\ http_keep_alive)
  /\ pc' = "exit"
  /\ UNCHANGED <<connVars, after, exchange, ops, asked, toWrite, wire, streamState,
                 writerState, rxVars, exitVars>>

LoopAgain ==
  /\ pc = "loop" /\ open /\ ~done /\ http_keep_alive
  /\ TakeBody(IF raw_io THEN 0 ELSE Smaller(http_body_pending, Buffered))
  /\ IF ~raw_io /\ http_body_pending' > 0
     THEN /\ pc' = "discardRecv" /\ want' = http_body_pending'
          /\ UNCHANGED <<exchange, ops, asked, writerState, seek, total_read, head>>
     ELSE StartExchange /\ UNCHANGED want
  /\ UNCHANGED <<connVars, after, toWrite, wire, http_keep_alive, raw_io, stream_response, exitVars>>

(* The rest of the body is read from the socket only once. *)
DiscardRecv ==
  /\ pc = "discardRecv"
  /\ \/ \E n \in 1 .. want :
          /\ RecvData(want, n)
          /\ TakeBody(n)
     \/ (RecvTimeout(want) \/ RecvClosed) /\ UNCHANGED <<consumed, http_body_pending>>
  /\ StartExchange
  /\ UNCHANGED <<after, toWrite, wire, http_keep_alive, raw_io, stream_response, want, exitVars>>

(* read() throws where no handler is running *)
RecvThrows ==
  /\ pc \in {"discardRecv", "headRecv"}
  /\ RecvError
  /\ pc' = "exit"
  /\ UNCHANGED <<after, exchange, ops, asked, toWrite, wire, streamState, writerState, rxVars, exitVars>>

------------------------------------------------------------------------------
(* read_request_head *)

LineEnds == {j \in seek + 1 .. recvd : stream[j].kind # "body"}
IsLineEnd(e) == e \in LineEnds /\ \A i \in LineEnds : e <= i
Scanning == pc = "head" /\ ~done

(* Mutant: the scan may end before the head does *)
HeadAbortedAnyTime ==
  /\ pc = "head"
  /\ pc' = "serve"
  /\ cut' = restarts
  /\ UNCHANGED <<connVars, after, exchange, ops, asked, toWrite, wire, streamState,
                 writerState, rxVars, done, restarts>>

(* Shutdown ends the scan with whatever part of the head was read.  Its     *)
(* lines stay in the buffer.                                                *)
HeadAborted ==
  /\ pc = "head" /\ done
  /\ pc' = "serve"
  /\ cut' = restarts
  /\ UNCHANGED <<connVars, after, exchange, ops, asked, toWrite, wire, streamState,
                 writerState, rxVars, done, restarts>>

(* serve_request's answer to a head that cannot be read: a deferred         *)
(* response with a text, then flush(), then conn.close()                    *)
Reject(st) ==
  /\ header_written' = TRUE
  /\ deferred' = [on |-> TRUE, st |-> st, conn |-> "close", size |-> 1]
  /\ asked' = 1
  /\ pc' = "flush" /\ after' = "close"
  /\ UNCHANGED <<connVars, exchange, ops, toWrite, wire, streamState, hdr, announced,
                 body_written, rxVars>>

BadRequest == 400
LengthRequired == 411
HeaderFieldsTooLarge == 431

BadRequestLine(e) == e # seek + 1 \/ stream[e].kind # "reqline"

RequestLineInvalid(e) ==
  /\ Scanning /\ IsLineEnd(e) /\ ~head.line
  /\ BadRequestLine(e)
  /\ Reject(BadRequest)
  /\ UNCHANGED exitVars

(* a request line whose url cannot be decoded (val 2): the parser throws *)
RequestLineThrows(e) ==
  /\ Scanning /\ IsLineEnd(e) /\ ~head.line
  /\ ~BadRequestLine(e) /\ stream[e].val = 2
  /\ pc' = "exit"
  /\ UNCHANGED <<connVars, after, exchange, ops, asked, toWrite, wire, streamState,
                 writerState, rxVars, exitVars>>

(* val 1: a method that can have a body *)
RequestLine(e) ==
  /\ Scanning /\ IsLineEnd(e) /\ ~head.line
  /\ ~BadRequestLine(e) /\ stream[e].val # 2
  /\ head' = [head EXCEPT !.line = TRUE, !.can = stream[e].val = 1]
  /\ seek' = e
  /\ UNCHANGED <<connVars, pc, after, exchange, ops, asked, toWrite, wire, streamState,
                 writerState, consumed, total_read, want, exitVars>>

(* parse_header: a header the server acts on, or any other line; of two     *)
(* content-lengths the last one counts, as Values::get has it               *)
AddHeader(h, u) ==
  [h EXCEPT !.clen = IF u.kind = "clen" THEN u.val ELSE @,
            !.ctype = @ \/ u.kind = "ctype",
            !.close = @ \/ u.kind = "close"]

BlankLine(e) == e = seek + 1 /\ stream[e].kind = "end"

HeaderLine(e) ==
  /\ Scanning /\ IsLineEnd(e) /\ head.line
  /\ ~BlankLine(e)
  /\ head' = IF e = seek + 1 THEN AddHeader(head, stream[e]) ELSE head
  /\ seek' = e
  /\ UNCHANGED <<connVars, pc, after, exchange, ops, asked, toWrite, wire, streamState,
                 writerState, consumed, total_read, want, exitVars>>

(* Mutant: the head stays in the buffer *)
EraseNothing(e) == consumed' = consumed

EraseHead(e) == consumed' = e

HeadComplete(e) ==
  /\ Scanning /\ IsLineEnd(e) /\ head.line
  /\ BlankLine(e)
  /\ head' = [head EXCEPT !.complete = TRUE]
  /\ seek' = e /\ EraseHead(e)
  /\ pc' = "serve"
  /\ UNCHANGED <<connVars, after, exchange, ops, asked, toWrite, wire, streamState,
                 writerState, total_read, want, exitVars>>

(* "connection closed" *)
HeadOnClosed ==
  /\ Scanning /\ LineEnds = {} /\ ~open
  /\ pc' = "loop"
  /\ UNCHANGED <<connVars, after, exchange, ops, asked, toWrite, wire, streamState,
                 writerState, rxVars, exitVars>>

HeadTooBig ==
  /\ Scanning /\ LineEnds = {} /\ open
  /\ total_read > MaxHeader
  /\ Reject(HeaderFieldsTooLarge)
  /\ UNCHANGED exitVars

HeadNeedsMore ==
  /\ Scanning /\ LineEnds = {} /\ open
  /\ total_read <= MaxHeader
  /\ pc' = "headRecv" /\ want' = HeaderChunk
  /\ UNCHANGED <<connVars, after, exchange, ops, asked, toWrite, wire, streamState, writerState,
                 consumed, seek, total_read, head, exitVars>>

(* An empty chunk is "request timed out or client disconnected": the        *)
(* connection is closed without a response.                                 *)
HeadRecv ==
  /\ pc = "headRecv"
  /\ \/ \E n \in 1 .. want :
          /\ RecvData(want, n)
          /\ total_read' = total_read + n
          /\ pc' = "head"
     \/ /\ rcvTimeout > 0 /\ open
        /\ CloseConn
        /\ pc' = "loop" /\ UNCHANGED total_read
     \/ /\ RecvClosed
        /\ pc' = "loop" /\ UNCHANGED total_read
  /\ UNCHANGED <<after, exchange, ops, asked, toWrite, wire, streamState, writerState,
                 consumed, seek, head, want, exitVars>>

------------------------------------------------------------------------------
(* serve_request, from a head that was read on *)

(* req.method is not initialised when no request line was read. *)
MayHaveBody == IF head.line THEN {head.can} ELSE BOOLEAN

PendingBody(can) == IF can /\ head.clen # NoLen THEN head.clen ELSE 0

DropMutation ==
  /\ pc = "serve"
  /\ TRUE \in MayHaveBody /\ head.ctype /\ head.clen = NoLen
  /\ http_body_pending' = 0
  /\ header_written' = TRUE
  /\ deferred' = [on |-> TRUE, st |-> LengthRequired, size |-> 1,
                  conn |-> IF http_keep_alive THEN "keep-alive" ELSE "close"]
  /\ asked' = 1
  /\ pc' = "flush" /\ after' = "loop"
  /\ UNCHANGED <<connVars, exchange, ops, toWrite, wire, http_keep_alive, raw_io, stream_response,
                 hdr, announced, body_written, rxVars, exitVars>>

CallHandler ==
  /\ pc = "serve"
  /\ \E can \in MayHaveBody :
       /\ ~(can /\ head.ctype /\ head.clen = NoLen)
       /\ http_body_pending' = PendingBody(can)
  /\ http_keep_alive' = (http_keep_alive /\ ~head.close)
  /\ pc' = "handler" /\ after' = "loop"
  /\ UNCHANGED <<connVars, exchange, ops, asked, toWrite, wire, raw_io, stream_response,
                 writerState, rxVars, exitVars>>

------------------------------------------------------------------------------
(* RequestBodyReader::read(size), from the buffer or the socket *)

(* Mutant: reads are not limited to the body *)
ReadLimitNone(size) == size

ReadLimit(size) == IF raw_io THEN size ELSE Smaller(size, http_body_pending)

BodyLeft == raw_io \/ http_body_pending > 0

BodyReadNothing ==
  /\ InHandler
  /\ ~open \/ ~BodyLeft
  /\ UNCHANGED <<connVars, pc, after, exchange, asked, toWrite, wire, streamState, writerState,
                 rxVars, exitVars>>

(* read_raw_body returns the whole buffer, whatever the size asked for. *)
BodyReadBuffered(size) ==
  /\ InHandler
  /\ open /\ Buffered > 0
  /\ BodyLeft
  /\ TakeBody(IF raw_io THEN Buffered ELSE Smaller(ReadLimit(size), Buffered))
  /\ UNCHANGED <<connVars, pc, after, exchange, asked, toWrite, wire, http_keep_alive, raw_io,
                 stream_response, writerState, seek, total_read, head, want, exitVars>>

BodyReadSocket(size) ==
  /\ InHandler
  /\ open /\ Buffered = 0
  /\ BodyLeft
  /\ pc' = "bodyRecv" /\ want' = ReadLimit(size)
  /\ UNCHANGED <<connVars, after, exchange, asked, toWrite, wire, streamState, writerState,
                 consumed, seek, total_read, head, exitVars>>

BodyRecv ==
  /\ pc = "bodyRecv"
  /\ \/ \E n \in 1 .. want :
          /\ RecvData(want, n)
          /\ TakeBody(n)
          /\ pc' = "handler"
     \/ /\ RecvTimeout(want) \/ RecvClosed
        /\ pc' = "handler"
        /\ UNCHANGED <<consumed, http_body_pending>>
     \/ /\ RecvError
        /\ Raise
        /\ UNCHANGED <<consumed, http_body_pending>>
  /\ UNCHANGED <<after, exchange, ops, asked, toWrite, wire, http_keep_alive, raw_io,
                 stream_response, writerState, seek, total_read, head, want, exitVars>>

------------------------------------------------------------------------------
(* The end of the connection, and the shutdown of the server *)

(* conn.close() after an error response *)
CloseRejected ==
  /\ pc = "close"
  /\ CloseConn
  /\ pc' = "loop"
  /\ UNCHANGED <<after, exchange, ops, asked, toWrite, wire, streamState, writerState, rxVars, exitVars>>

(* serve_conn returns and ~TcpConnection closes the socket *)
ThreadEnds ==
  /\ pc = "exit"
  /\ CloseConn
  /\ pc' = "gone"
  /\ UNCHANGED <<after, exchange, ops, asked, toWrite, wire, streamState, writerState, rxVars, exitVars>>

Shutdown ==
  /\ ~done
  /\ done' = TRUE
  /\ UNCHANGED <<connVars, txVars, rxVars, restarts, cut>>

(* serve() is called again while the thread is still under way. *)
Restart ==
  /\ done /\ restarts < MaxRestarts[stream]
  /\ done' = FALSE
  /\ restarts' = restarts + 1
  /\ UNCHANGED <<connVars, txVars, rxVars, cut>>

RequestRead ==
  \/ LoopEnds \/ LoopAgain
  \/ HeadAborted
  \/ \E e \in LineEnds : \/ RequestLineInvalid(e) \/ RequestLineThrows(e) \/ RequestLine(e)
                          \/ HeaderLine(e) \/ HeadComplete(e)
  \/ HeadOnClosed \/ HeadTooBig \/ HeadNeedsMore
  \/ DropMutation \/ CallHandler
  \/ CloseRejected \/ ThreadEnds

BodyRead ==
  \/ BodyReadNothing
  \/ \E size \in BodyReads : BodyReadBuffered(size) \/ BodyReadSocket(size)

Respond == (HandlerCall \/ WriterStep) /\ UNCHANGED <<rxVars, exitVars>>

Recv == DiscardRecv \/ RecvThrows \/ HeadRecv \/ BodyRecv

Init ==
  /\ ConnInit
  /\ pc = "loop" /\ after = "loop" /\ exchange = 0
  /\ ops = 0 /\ asked = 0 /\ toWrite = 0 /\ wire = <<>>
  /\ hdr = NoHeaders /\ header_written = FALSE /\ deferred = NoDeferred
  /\ announced = NoLen /\ body_written = 0
  /\ http_body_pending = 0 /\ http_keep_alive = TRUE
  /\ raw_io = FALSE /\ stream_response = FALSE
  /\ consumed = 0 /\ seek = 0 /\ total_read = 0 /\ head = EmptyHead /\ want = 0
  /\ done = FALSE /\ restarts = 0 /\ cut = NoCut

ThreadStep == RequestRead \/ BodyRead \/ Respond

Next == ThreadStep \/ Recv \/ Shutdown \/ Restart

(* The scheduler runs the thread, and a recv() with a timeout returns; the  *)
(* peer need not send anything, and the server need not shut down.          *)
Fairness ==
  /\ WF_vars(ThreadStep)
  /\ WF_vars(Recv /\ rcvTimeout > 0)

Spec == Init /\ [][Next]_vars /\ Fairness

------------------------------------------------------------------------------
(* Peers whose bytes are framed the way this server frames them: requests   *)
(* with a readable head, and after the head as many body units as its       *)
(* content-length declares (none without one, or for a method that has no   *)
(* body here).  The stream may break off anywhere.                          *)

LineStart(s, e) == CHOOSE i \in 1 .. e : /\ s[i].kind = "reqline"
                                         /\ \A j \in i + 1 .. e : s[j].kind # "reqline"

DeclaredBody(s, e) ==
  LET b == LineStart(s, e)
      lens == {i \in b .. e : s[i].kind = "clen"}
  IN IF s[b].val = 1 /\ lens # {} THEN s[CHOOSE i \in lens : \A j \in lens : j <= i].val ELSE 0

HeadEnds(s) == {e \in 1 .. Len(s) : s[e].kind = "end"}

Honest(s) ==
  /\ s # <<>> => s[1].kind = "reqline"
  /\ \A i \in 1 .. Len(s) :
       /\ s[i].kind = "body" =>
            \E e \in HeadEnds(s) : e < i /\ i <= e + DeclaredBody(s, e)
       /\ s[i].kind = "reqline" =>
            /\ s[i].val \in {0, 1}
            /\ i = 1 \/ \E e \in HeadEnds(s) : i = e + DeclaredBody(s, e) + 1
  /\ \A e \in HeadEnds(s) :
       /\ \A i \in e + 1 .. Smaller(e + DeclaredBody(s, e), Len(s)) : s[i].kind = "body"
       /\ e + DeclaredBody(s, e) < Len(s) => s[e + DeclaredBody(s, e) + 1].kind = "reqline"

------------------------------------------------------------------------------
(* Properties *)

FlagTypeOK ==
  /\ done \in BOOLEAN
  /\ restarts \in 0 .. MaxRestarts[stream]
  /\ cut \in {NoCut} \cup 0 .. restarts

(* Every member of the stream, the reader and the writer has its type, and  *)
(* the buffer, the scanner and the body counter stay within what was sent.  *)
TypeInv ==
  /\ ConnTypeOK
  /\ WriterTypeOK
  /\ pc \in {"loop", "discardRecv", "head", "headRecv", "serve", "handler", "bodyRecv",
             "put", "flush", "flushBody", "close", "exit", "gone"}
  /\ after \in {"loop", "close"}
  /\ consumed \in 0 .. recvd
  /\ seek \in 0 .. recvd
  /\ total_read \in Nat
  /\ head \in [line : BOOLEAN, can : BOOLEAN, clen : Nat \cup {NoLen},
               ctype : BOOLEAN, close : BOOLEAN, complete : BOOLEAN]
  /\ want \in Nat
  /\ FlagTypeOK

(* The count of unread body bytes is right at every step: what it counts,   *)
(* as far as the peer sent it, is the body of the request being served,     *)
(* whether the handler, discard_unread_body, or nobody has read some of it. *)
(* A head cut short by a shutdown puts an end to it: its lines stay in the  *)
(* buffer, where a handler that reads a body finds them, and so does a      *)
(* thread that goes on when the server was started again.  Nor does anybody *)
(* ask the socket for the rest of a body when there is none: recv() would   *)
(* return 0, which read() takes for a disconnect.                           *)
RecvNonZero == pc \in {"discardRecv", "headRecv", "bodyRecv"} => want > 0

BodyAccounting ==
  /\ RecvNonZero
  /\ Honest(stream) /\ http_body_pending > 0 /\ cut = NoCut =>
       \A i \in consumed + 1 .. Smaller(consumed + http_body_pending, Len(stream)) :
         stream[i].kind = "body"

(* Pipelined requests are served in the order sent, none skipped and none   *)
(* twice, restarts or not: the head handed to the k-th exchange is the k-th *)
(* request's, unless a head was cut short, which is then read once more.    *)
InOrder ==
  pc = "serve" /\ cut = NoCut /\ Honest(stream) =>
    exchange = Cardinality({i \in 1 .. consumed : stream[i].kind = "reqline"})

(* The connection as Conversation has it.  It is over when the socket is    *)
(* closed or keep-alive is off, whatever is still to be done in the thread; *)
(* between exchanges it is idle, also while the server shuts down, because  *)
(* the thread may find it started again.                                    *)
Alive == open /\ pc \notin {"exit", "gone"}

Phase == IF ~Alive \/ (pc = "loop" /\ ~http_keep_alive) THEN "over"
         ELSE IF pc \in {"loop", "discardRecv"} THEN "idle" ELSE "serving"

Peer == INSTANCE Conversation WITH
  taken   <- exchange,
  replies <- [i \in 1 .. Len(wire) |->
                [to |-> wire[i].ex, unbroken |-> wire[i].whole /\ ~wire[i].torn]],
  phase   <- Phase

(* Every request gets one reply, in order and whole, before the next is     *)
(* taken up; after a reply that broke off, and after the connection was     *)
(* given up, nothing more is said, whatever handler and flush() still do.   *)
Converses == Peer!Spec

(* The thread goes on to another exchange only after one whose head it read *)
(* to the end.  After a head that a shutdown cut short it takes up none,    *)
(* although the socket is open and more may be buffered, unless the server  *)
(* was started again in between.                                            *)
CutHeadIsLast ==
  [][exchange' # exchange =>
       /\ HeadOnWire => head.complete \/ cut # NoCut
       /\ cut < restarts]_vars

(* Unless the handler sets it, the connection header the peer gets tells    *)
(* what the server does next: "keep-alive" while it serves another request, *)
(* "close" when it does not.                                                *)
ConnHeaderTruthful ==
  (\A h \in HandlerHeaders : h.conn \in {"none", "upgrade"}) /\ pc = "loop" /\ open /\ HeadOnWire =>
    /\ wire[Len(wire)].conn = "keep-alive" => http_keep_alive
    /\ wire[Len(wire)].conn = "close" => ~http_keep_alive

(* Outside a head only body bytes leave the buffer or the socket: neither   *)
(* the handler's reads nor the discard take bytes of the next request.      *)
BodyBytesOnly ==
  [][/\ Honest(stream) /\ ~raw_io /\ cut = NoCut
     /\ pc \in {"loop", "discardRecv", "handler", "bodyRecv"}
     => \A i \in consumed + 1 .. consumed' : stream[i].kind = "body"]_vars

(* After an upgrade the connection belongs to the handler: no further       *)
(* request is read from it.                                                 *)
RawIsLast == [][raw_io => exchange' = exchange]_vars

(* A connection whose peer has nothing more to say is given up, and so its  *)
(* thread sees a shutdown: silent peers and handlers that read included.    *)
(* One that was upgraded is its handler's (RawReadReturns).                 *)
IdleConnEnds == <>(pc = "gone" \/ raw_io)

(* In raw mode a read returns soon although the peer is silent ("set raw    *)
(* read timeout to a small value").                                         *)
RawReadReturns == pc = "bodyRecv" /\ raw_io ~> pc # "bodyRecv"

(* A peer that frames its requests properly is never told "Bad Request".    *)
NoSpuriousReject ==
  Honest(stream) => \A i \in 1 .. Len(wire) : wire[i].st # BadRequest
==============================================================================
