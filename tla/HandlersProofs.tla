---------------------------- MODULE HandlersProofs ----------------------------
(* Theorems about the handlers the library brings along: event streams      *)
(* (EventSpec), the static server (StaticSpec), and the two of them on one  *)
(* connection's exchange (HandlersSpec).                                    *)
EXTENDS Handlers, ResponseWriterProofs, NaturalsInduction, WellFoundedInduction

------------------------------------------------------------------------------
(* Event streams *)

(* The connection is not kept alive once a stream was begun. *)
StreamEndsConn == sse # "none" => ~http_keep_alive

(* A handler that has not begun its response has left nothing behind. *)
Unsent == wire = <<>> /\ ~deferred.on /\ announced = NoLen /\ asked = 0 /\ body_written = 0

(* The writer behind the head of a stream *)
Streaming == header_written /\ ~deferred.on /\ announced = NoLen /\ ~http_keep_alive

(* The head of a stream on the wire *)
StreamHead ==
  /\ Len(wire) = 1 /\ wire[1].ex = exchange
  /\ wire[1].whole /\ wire[1].st = OK /\ wire[1].len = NoLen

EventType ==
  /\ ConnTypeOK /\ WriterTypeOK /\ after = "loop"
  /\ pc \in {"handler", "put", "flush", "flushBody", "loop", "exit", "sseHead", "sseMade"}
  /\ sse \in {"none", "live", "gone"}

EventInv ==
  /\ EventType
  /\ sse = "none" /\ pc \in {"handler", "sseHead"} /\ ~header_written => Unsent
  /\ pc = "put" => header_written
  /\ pc = "sseHead" => sse # "live" /\ hdr.sse /\ hdr.conn = "keep-alive"
  /\ pc = "sseMade" =>
       /\ sse = "none" /\ Streaming /\ asked = 0
       /\ open => StreamHead /\ ~wire[1].torn /\ wire[1].sent = 0
  /\ sse = "live" =>
       /\ Streaming /\ pc \in {"handler", "put", "exit"}
       /\ open /\ pc # "exit" => StreamHead /\ ~wire[1].torn /\ wire[1].sent = Passed
  /\ sse = "gone" =>
       /\ Streaming /\ pc \in {"handler", "put", "flush", "loop", "exit", "sseHead"}
       /\ open /\ pc # "exit" =>
            StreamHead /\ (wire[1].torn \/ (asked >= CloseEvent /\ wire[1].sent = Passed))

(* The head of a stream goes out at once, and without a length. *)
LEMMA StreamBegins ==
  ASSUME ~Catches, EventInv, SseHead, ~header_written
  PROVE  EventInv'
<1>1. /\ pc = "sseHead" /\ sse # "live" /\ hdr.sse /\ hdr.conn = "keep-alive"
      /\ EventType /\ sse \in {"none", "live", "gone"}
  BY DEF SseHead, EventInv, EventType
<1>2. sse = "none" /\ Unsent
  BY <1>1 DEF EventInv, Streaming
<1>3. ~Upgrades /\ ~Deferrable /\ ~KeepsAlive /\ FramedLen = NoLen /\ ConnHeader = "keep-alive"
  BY <1>1 DEF Upgrades, Deferrable, KeepsAlive, FramedLen, ConnHeader
<1>4. SendHead(OK, "sseMade") /\ UNCHANGED <<after, exchange, ops, asked, toWrite, sse>>
  BY <1>1, <1>3 DEF SseHead, Header, UpgradeClosed, Defer
<1>5. /\ header_written' = TRUE /\ http_keep_alive' = FALSE /\ stream_response' = TRUE
      /\ raw_io' = raw_io /\ http_body_pending' = http_body_pending
      /\ announced' = NoLen /\ rcvTimeout' = rcvTimeout
      /\ UNCHANGED <<hdr, deferred, body_written, stream, recvd>>
  <2>1. raw_io \in BOOLEAN /\ KeepsAlive \in BOOLEAN
    BY <1>1, <1>3 DEF EventType, WriterTypeOK, KeepsAlive, HeaderType
  <2> QED BY <1>1, <1>3, <1>4, <2>1 DEF SendHead, FlagStream
<1>6. CASE UNCHANGED <<open, wire>> /\ pc' = "exit"
  <2>1. EventType'
    BY <1>1, <1>4, <1>5, <1>6 DEF EventType, ConnTypeOK, WriterTypeOK
  <2> QED BY <1>2, <1>4, <1>5, <1>6, <2>1 DEF EventInv
<1>7. CASE \E r \in HeadResults : PutHead(OK, "keep-alive", NoLen, r) /\ Continue(r, "sseMade")
  <2>1. PICK r \in HeadResults : PutHead(OK, "keep-alive", NoLen, r) /\ Continue(r, "sseMade")
    BY <1>7
  <2>2. wire' \in Seq(ResponseType) /\ open' \in BOOLEAN
    <3>1. wire \in Seq(ResponseType) /\ exchange \in Nat
      BY <1>1 DEF EventType, WriterTypeOK
    <3>2. OK \in Nat /\ "keep-alive" \in ConnToken /\ NoLen \in Nat \cup {NoLen}
      BY DEF OK, ConnToken
    <3> QED BY <2>1, <3>1, <3>2, PutHeadType
  <2>3. pc' \in {"sseMade", "exit"}
    BY <2>1 DEF Continue, Raise
  <2>4. EventType'
    BY <1>1, <1>4, <1>5, <2>2, <2>3 DEF EventType, ConnTypeOK, WriterTypeOK
  <2>5. pc' = "sseMade" /\ open' => r.res = "ok"
    BY <2>1, HeadResultType DEF Continue, Raise, Returns, PutHead, KeepsOpen
  <2> DEFINE h == [ex |-> exchange, st |-> OK, conn |-> "keep-alive", len |-> NoLen,
                   whole |-> r.whole, sent |-> 0, torn |-> r.res # "ok"]
  <2>6. wire' = <<h>>
    BY <1>2, <2>1 DEF PutHead, Unsent
  <2>7. h.ex = exchange /\ h.st = OK /\ h.len = NoLen /\ h.whole = r.whole /\ h.sent = 0
    OBVIOUS
  <2>8. h.torn <=> r.res # "ok"
    OBVIOUS
  <2>9. r.res = "ok" <=> r.whole
    BY HeadResultType
  <2>10. Len(wire') = 1 /\ wire'[1] = h
    BY <2>6
  <2> HIDE DEF h
  <2>11. r.res = "ok" => StreamHead' /\ ~wire'[1].torn /\ wire'[1].sent = 0
    BY <1>4, <2>7, <2>8, <2>9, <2>10 DEF StreamHead
  <2> QED BY <1>2, <1>4, <1>5, <2>3, <2>4, <2>5, <2>11 DEF EventInv, Streaming, Unsent
<1>8. CASE OK \in TableLacks
  BY <1>8 DEF OK, TableLacks
<1> QED BY <1>3, <1>4, <1>6, <1>7, <1>8 DEF SendHead, Raise

(* Bytes of an event behind the head of the stream *)
LEMMA StreamGrows ==
  ASSUME WriterTypeOK, StreamHead, UNCHANGED exchange,
         NEW m \in Nat, NEW r \in WriteResults(m), PutBody(r)
  PROVE  /\ StreamHead' /\ wire' \in Seq(ResponseType) /\ open' \in BOOLEAN
         /\ wire'[1].torn <=> wire[1].torn \/ r.res # "ok"
         /\ wire[1].sent \in Nat
         /\ wire'[1].sent = wire[1].sent + r.sent
         /\ open' <=> r.res \in {"ok", "throws"}
<1>0. wire \in Seq(ResponseType) /\ exchange \in Nat /\ Len(wire) = 1
  BY DEF WriterTypeOK, StreamHead
<1>1. wire \in Seq(ResponseType) /\ Len(wire) = 1 /\ wire # <<>> /\ exchange \in Nat
  BY <1>0
<1>2. wire[1] \in ResponseType
  BY <1>1
<1> DEFINE w == AddBody(wire[1], r)
<1>3. wire' = [wire EXCEPT ![1] = w]
  BY <1>1 DEF PutBody, HeadOnWire, StreamHead
<1>4. Len(wire') = 1 /\ wire'[1] = w
  BY <1>1, <1>3
<1>5. /\ w.ex = wire[1].ex /\ w.whole = wire[1].whole /\ w.len = wire[1].len
      /\ w.st = wire[1].st /\ w.sent = wire[1].sent + r.sent
      /\ w.torn <=> wire[1].torn \/ r.res # "ok"
  BY <1>2, AddBodyType
<1>7. wire' \in Seq(ResponseType) /\ open' \in BOOLEAN
  BY <1>1, PutBodyType
<1>8. open' <=> r.res \in {"ok", "throws"}
  BY DEF PutBody, KeepsOpen
<1>9. wire[1].sent \in Nat
  BY <1>2 DEF ResponseType
<1> HIDE DEF w
<1> QED BY <1>4, <1>5, <1>7, <1>8, <1>9 DEF StreamHead

(* The end of the SSEWriter's scope, when the handler's or by unwinding *)
LEMMA DestroyedInv ==
  ASSUME EventInv, SseDestroy
  PROVE  EventInv'
<1>1. /\ EventType /\ Streaming /\ sse = "live" /\ sse' = "gone" /\ pc \in {"handler", "exit"}
      /\ UNCHANGED <<stream, recvd, rcvTimeout, pc, after, exchange, ops, toWrite, streamState,
                     hdr, header_written, deferred, announced>>
      /\ asked \in Nat /\ body_written \in Nat
  BY DEF EventInv, SseDestroy, Destroyed, EventType, WriterTypeOK
<1>2. Streaming'
  BY <1>1 DEF Streaming, streamState
<1>3. CASE ~open
  <2>1. UNCHANGED <<open, wire, body_written>> /\ asked' = asked
    BY <1>1, <1>3 DEF SseDestroy, Destroyed
  <2>2. EventType'
    BY <1>1, <2>1 DEF EventType, ConnTypeOK, WriterTypeOK, streamState
  <2> QED BY <1>1, <1>2, <1>3, <2>1, <2>2 DEF EventInv
<1>4. CASE open
  <2>1. PICK r \in WriteResults(CloseEvent) :
          /\ PutBody(r)
          /\ body_written' = body_written + (IF r.res = "ok" THEN r.sent ELSE 0)
    BY <1>4 DEF SseDestroy, Destroyed
  <2>2. /\ CloseEvent = 1 /\ CloseEvent \in Nat /\ r.sent \in Nat
        /\ r.res = "ok" => r.sent = CloseEvent
    BY WriteResultType DEF CloseEvent
  <2>3. asked' = asked + CloseEvent /\ asked' \in Nat /\ asked' >= CloseEvent
        /\ body_written' \in Nat
    BY <1>1, <1>4, <2>1, <2>2 DEF SseDestroy, Destroyed
  <2>4. wire' \in Seq(ResponseType) /\ open' \in BOOLEAN
    BY <1>1, <2>1, <2>2, PutBodyType DEF EventType, WriterTypeOK
  <2>5. EventType'
    BY <1>1, <2>3, <2>4 DEF EventType, ConnTypeOK, WriterTypeOK, streamState
  <2>6. CASE pc = "exit"
    BY <1>1, <1>2, <2>5, <2>6 DEF EventInv
  <2>7. CASE pc = "handler"
    <3>1. StreamHead /\ ~wire[1].torn /\ wire[1].sent = asked
      BY <1>1, <1>4, <2>7 DEF EventInv, Passed
    <3>2. /\ StreamHead' /\ wire'[1].sent = asked + r.sent
          /\ wire'[1].torn <=> r.res # "ok"
      BY <1>1, <2>1, <2>2, <3>1, StreamGrows DEF EventType
    <3>3. wire'[1].torn \/ wire'[1].sent = asked'
      BY <2>2, <2>3, <3>2
    <3>4. Passed' = asked'
      BY <1>1, <2>7 DEF Passed
    <3> QED BY <1>1, <1>2, <2>3, <2>5, <2>7, <3>2, <3>3, <3>4 DEF EventInv
  <2> QED BY <1>1, <2>6, <2>7
<1> QED BY <1>3, <1>4

(* The handler's and the writer's steps that do not begin a response *)
LEMMA StreamedType ==
  ASSUME EventInv, HandlerCall \/ WriterStep \/ PeerGone, sse' = sse
  PROVE  EventType' /\ pc' \in {"handler", "put", "flush", "flushBody", "loop", "exit"}
         /\ pc \in {"handler", "put", "flush", "flushBody"}
<1>1. pc \in {"handler", "put", "flush", "flushBody"}
  BY DEF HandlerCall, WriterStep, PeerGone, SetHeaders, WriteHeader, WriteHeaderAgain, Write,
         InHandler, PutDeferred, PutExtra, Put, HandlerReturns, HandlerThrows, FlushNothing,
         FlushEmpty, FlushHead, FlushBody
<1>2. RwTypeInv
  BY <1>1 DEF EventInv, EventType, RwTypeInv
<1>3. RwTypeInv'
  BY <1>2, NextType DEF RwNext
<1> QED BY <1>1, <1>3 DEF RwTypeInv, EventInv, EventType

(* Before a stream was begun *)
LEMMA PlainInv ==
  ASSUME ~Catches, EventInv, sse = "none", HandlerCall \/ WriterStep \/ PeerGone, sse' = sse
  PROVE  EventInv'
<1>1. EventType' /\ pc' \notin {"sseHead", "sseMade"} /\ pc \in {"handler", "put", "flush", "flushBody"}
      /\ sse' = "none"
  BY StreamedType
<1>2. pc' = "put" => header_written'
  BY <1>1 DEF EventInv, HandlerCall, WriterStep, PeerGone, SetHeaders, WriteHeader, WriteHeaderAgain,
              Write, InHandler, Header, UpgradeClosed, Defer, SendHead, FlagStream, Raise, Continue,
              PutDeferred, PutExtra, Put, HandlerReturns, HandlerThrows, FlushNothing, FlushEmpty,
              FlushHead, FlushBody, ContinueFlush, EventType, txVars, writerState
<1>3. pc' = "handler" /\ ~header_written' => Unsent'
  <2>1. ASSUME SetHeaders PROVE Unsent'
    BY <2>1 DEF EventInv, SetHeaders, InHandler, Unsent
  <2>2. ASSUME NEW st, NEW next, Header(st, next) PROVE header_written'
    BY <2>2 DEF Header, UpgradeClosed, Defer, SendHead, FlagStream
  <2>3. ASSUME (\E st \in Statuses : WriteHeader(st)) \/ WriteHeaderAgain \/ \E n \in Chunks : Write(n)
        PROVE  header_written' \/ pc' = "exit"
    BY <2>2, <2>3 DEF WriteHeader, WriteHeaderAgain, Write, InHandler, Raise, writerState
  <2>4. ASSUME PutDeferred \/ PutExtra \/ Put PROVE header_written'
    BY <2>4 DEF EventInv, PutDeferred, PutExtra, Put, writerState
  <2>5. ASSUME HandlerReturns \/ HandlerThrows \/ FlushNothing \/ FlushEmpty \/ FlushHead \/ FlushBody
        PROVE  pc' # "handler"
    BY <2>5 DEF HandlerReturns, HandlerThrows, FlushNothing, FlushEmpty, FlushHead, FlushBody,
                ContinueFlush, EventInv, EventType
  <2>6. ASSUME PeerGone, ~header_written PROVE Unsent'
    BY <2>6 DEF EventInv, PeerGone, txVars, writerState, Unsent
  <2>7. PeerGone => header_written' = header_written
    BY DEF PeerGone, txVars, writerState
  <2> QED BY <2>1, <2>3, <2>4, <2>5, <2>6, <2>7 DEF HandlerCall, WriterStep
<1> QED BY <1>1, <1>2, <1>3 DEF EventInv

(* write() behind the head of a stream, by the handler or by the SSEWriter *)
LEMMA WriteInv ==
  ASSUME EventInv, sse # "none", NEW n \in Nat, Write(n), sse' = sse
  PROVE  EventInv'
<1>1. /\ EventType /\ Streaming /\ header_written /\ pc = "handler"
      /\ asked \in Nat /\ sse \in {"live", "gone"}
  BY DEF EventInv, EventType, WriterTypeOK, Streaming, Write, InHandler
<1>2. /\ pc' = "put" /\ toWrite' = n /\ asked' = asked + n /\ ops' = ops + 1 /\ ops < MaxOps
      /\ UNCHANGED <<connVars, wire, streamState, writerState, after, exchange>>
  BY <1>1 DEF Write, InHandler
<1>3. asked' \in Nat /\ toWrite' \in Nat /\ ops' \in 0 .. MaxOps
  BY <1>1, <1>2, HandlerAssumption DEF EventType, WriterTypeOK
<1>4. EventType'
  BY <1>1, <1>2, <1>3 DEF EventType, ConnTypeOK, WriterTypeOK, connVars, streamState, writerState
<1>5. Passed = asked /\ Passed' = asked
  BY <1>1, <1>2 DEF Passed
<1>6. asked >= CloseEvent => asked' >= CloseEvent
  BY <1>1, <1>2 DEF CloseEvent
<1>7. Streaming' /\ (StreamHead' <=> StreamHead)
  BY <1>1, <1>2 DEF Streaming, StreamHead, connVars, streamState, writerState
<1> QED BY <1>1, <1>2, <1>4, <1>5, <1>6, <1>7
        DEF EventInv, connVars, streamState, writerState

(* The rest of a write() to a stream *)
LEMMA StreamPut ==
  ASSUME ~Catches, EventInv, sse # "none", Put, sse' = sse
  PROVE  EventInv'
<1>1. /\ EventType /\ Streaming /\ pc = "put" /\ sse \in {"live", "gone"}
      /\ asked \in Nat /\ toWrite \in Nat /\ CanWrite = toWrite
  BY DEF EventInv, EventType, WriterTypeOK, Put, Streaming, CanWrite
<1>2. EventType' /\ UNCHANGED <<asked, exchange>>
  BY StreamedType DEF WriterStep, Put
<1>3. Streaming'
  BY <1>1 DEF Put, Streaming, streamState
<1>4. CASE ~open \/ pc' = "exit"
  <2>1. pc' = "exit"
    BY <1>4 DEF Put, Raise
  <2> QED BY <1>1, <1>2, <1>3, <2>1 DEF EventInv
<1>5. CASE open /\ pc' # "exit"
  <2>1. PICK r \in WriteResults(toWrite) : PutBody(r) /\ Continue(r, "handler")
    BY <1>1, <1>5 DEF Put
  <2>2. pc' = "handler" /\ r.res \in {"ok", "lost"}
    BY <1>5, <2>1 DEF Continue, Returns, Raise
  <2>3. r.sent \in Nat /\ (r.res = "ok" => r.sent = toWrite)
    BY <1>1, WriteResultType
  <2>4. StreamHead
    BY <1>1, <1>5 DEF EventInv
  <2>5. /\ StreamHead' /\ wire[1].sent \in Nat
        /\ wire'[1].torn <=> wire[1].torn \/ r.res # "ok"
        /\ wire'[1].sent = wire[1].sent + r.sent
        /\ open' <=> r.res \in {"ok", "throws"}
    BY <1>1, <1>2, <2>1, <2>4, StreamGrows DEF EventType
  <2>6. Passed = asked - toWrite /\ Passed' = asked
    BY <1>1, <1>2, <2>2 DEF Passed
  <2>7. CASE r.res = "ok"
    <3>1. wire[1].sent = Passed => wire'[1].sent = Passed'
      BY <1>1, <2>3, <2>5, <2>6, <2>7
    <3> QED BY <1>1, <1>2, <1>3, <1>5, <2>2, <2>5, <2>7, <3>1 DEF EventInv
  <2>8. CASE r.res # "ok"
    BY <1>1, <1>2, <1>3, <2>2, <2>5, <2>8 DEF EventInv
  <2> QED BY <2>7, <2>8
<1> QED BY <1>4, <1>5

(* The other steps with a stream begun *)
LEMMA StreamQuiet ==
  ASSUME ~Catches, EventInv, sse # "none", HandlerStep, ~Put, ~\E n \in Chunks : Write(n)
  PROVE  EventInv'
<1>1. EventType' /\ EventType /\ Streaming /\ sse' = sse /\ sse \in {"live", "gone"}
      /\ after = "loop" /\ (sse = "live" => pc' # "flush")
  BY StreamedType DEF EventInv, EventType, HandlerStep
<1>2. ~SetHeaders /\ ~\E st \in Statuses : WriteHeader(st)
  BY <1>1 DEF Streaming, SetHeaders, WriteHeader
<1>3. ~PutDeferred /\ ~PutExtra /\ ~FlushEmpty /\ ~FlushHead
  BY <1>1 DEF Streaming, PutDeferred, PutExtra, FlushEmpty, FlushHead
<1>4. ~FlushBody
  BY <1>1 DEF EventInv, FlushBody
<1>5. \/ WriteHeaderAgain \/ HandlerReturns \/ HandlerThrows \/ FlushNothing \/ PeerGone
  BY <1>2, <1>3, <1>4 DEF HandlerStep, HandlerCall, WriterStep
<1>6. /\ UNCHANGED <<wire, exchange, asked, toWrite, streamState, writerState>>
      /\ \/ pc' = "exit"
         \/ UNCHANGED open /\ pc = "handler" /\ pc' = "flush"
         \/ UNCHANGED open /\ pc = "flush" /\ pc' = "loop"
         \/ ~open' /\ pc = "handler" /\ pc' = "handler"
  BY <1>1, <1>5 DEF WriteHeaderAgain, HandlerReturns, HandlerThrows, FlushNothing, PeerGone, Raise,
                    InHandler, RecvClosed, CloseConn, txVars, connVars
<1>7. Streaming' /\ (StreamHead' <=> StreamHead)
  BY <1>1, <1>6 DEF Streaming, StreamHead, streamState, writerState
<1>8. pc' \in {"flush", "loop"} => Passed' = Passed
  BY <1>6 DEF Passed
<1> QED BY <1>1, <1>6, <1>7, <1>8 DEF EventInv

LEMMA EventStep == ASSUME ~Catches PROVE EventInv /\ [EventNext]_eventVars => EventInv'
<1> SUFFICES ASSUME EventInv, [EventNext]_eventVars PROVE EventInv'
  OBVIOUS
<1>1. CASE HandlerStep
  <2>1. Chunks \subseteq Nat /\ sse' = sse
    BY <1>1, HandlerAssumption DEF HandlerStep
  <2> QED BY <1>1, <2>1, PlainInv, WriteInv, StreamPut, StreamQuiet DEF HandlerStep
<1>2. CASE SseHeaders
  <2>1. /\ pc = "handler" /\ pc' = "sseHead" /\ sse' = sse /\ sse # "live" /\ EventType
        /\ hdr \in HeaderType /\ hdr' = [hdr EXCEPT !.conn = "keep-alive", !.sse = TRUE]
        /\ ops' \in 0 .. MaxOps
        /\ UNCHANGED <<connVars, after, exchange, asked, toWrite, wire, streamState,
                       header_written, deferred, announced, body_written>>
    BY <1>2, HandlerAssumption DEF SseHeaders, InHandler, EventInv, EventType, WriterTypeOK
  <2>2. hdr' \in HeaderType /\ hdr'.sse /\ hdr'.conn = "keep-alive"
    BY <2>1 DEF HeaderType, ConnToken
  <2>3. EventType'
    BY <2>1, <2>2 DEF EventType, ConnTypeOK, WriterTypeOK, connVars, streamState
  <2>4. Passed = asked /\ Passed' = asked
    BY <2>1 DEF Passed
  <2>5. (Streaming' <=> Streaming) /\ (StreamHead' <=> StreamHead) /\ (Unsent' <=> Unsent)
    BY <2>1 DEF Streaming, StreamHead, Unsent, streamState
  <2> QED BY <2>1, <2>2, <2>3, <2>4, <2>5 DEF EventInv, EventType, connVars, streamState
<1>3. CASE SseHead
  <2>1. CASE header_written
    <3>1. pc' = "exit" /\ UNCHANGED <<connVars, wire, streamState, writerState, after, exchange,
                                      ops, asked, toWrite, sse>>
      BY <1>3, <2>1 DEF SseHead, Raise
    <3>2. EventType'
      BY <3>1 DEF EventInv, EventType, ConnTypeOK, WriterTypeOK, connVars, streamState, writerState
    <3>3. pc = "sseHead" /\ sse # "live"
      BY <1>3 DEF SseHead, EventInv
    <3>4. Streaming' <=> Streaming
      BY <3>1 DEF Streaming, streamState, writerState
    <3> QED BY <3>1, <3>2, <3>3, <3>4 DEF EventInv
  <2> QED BY <1>3, <2>1, StreamBegins
<1>4. CASE SseMade
  <2>1. /\ pc = "sseMade" /\ pc' = "handler" /\ sse' = "live"
        /\ UNCHANGED <<connVars, after, exchange, ops, asked, toWrite, wire, streamState, writerState>>
    BY <1>4 DEF SseMade
  <2>2. EventType'
    BY <2>1 DEF EventInv, EventType, ConnTypeOK, WriterTypeOK, connVars, streamState, writerState
  <2>3. Passed' = asked
    BY <2>1 DEF Passed
  <2>4. (Streaming' <=> Streaming) /\ (StreamHead' <=> StreamHead)
    BY <2>1 DEF Streaming, StreamHead, streamState, writerState
  <2> QED BY <2>1, <2>2, <2>3, <2>4 DEF EventInv, connVars
<1>5. CASE (\E n \in Chunks : SseWrite(n)) \/ SseClose
  <2>1. sse = "live" /\ sse' = sse
    BY <1>5 DEF SseWrite, SseClose
  <2>2. CASE open
    <3>1. (\E n \in Chunks : Write(n)) \/ Write(CloseEvent)
      BY <1>5, <2>2 DEF SseWrite, SseClose
    <3>2. CloseEvent \in Nat /\ Chunks \subseteq Nat
      BY HandlerAssumption DEF CloseEvent
    <3> QED BY <2>1, <3>1, <3>2, WriteInv
  <2>3. CASE ~open
    <3>1. /\ pc = "handler" /\ pc' \in {"handler", "exit"} /\ ops' \in 0 .. MaxOps
          /\ UNCHANGED <<connVars, after, exchange, asked, toWrite, wire, streamState, writerState>>
      BY <1>5, <2>3, HandlerAssumption
      DEF SseWrite, SseClose, InHandler, Raise, EventInv, EventType, WriterTypeOK
    <3>2. EventType'
      BY <2>1, <3>1 DEF EventInv, EventType, ConnTypeOK, WriterTypeOK, connVars, streamState, writerState
    <3>3. Streaming' <=> Streaming
      BY <3>1 DEF Streaming, streamState, writerState
    <3> QED BY <2>1, <2>3, <3>1, <3>2, <3>3 DEF EventInv, connVars
  <2> QED BY <2>2, <2>3
<1>6. CASE SseDestroy
  BY <1>6, DestroyedInv
<1>7. CASE UNCHANGED eventVars
  <2>1. UNCHANGED <<connVars, txVars, sse>>
    BY <1>7 DEF eventVars, rwVars
  <2> USE DEF txVars, connVars, streamState, writerState
  <2>2. EventType'
    BY <2>1 DEF EventInv, EventType, ConnTypeOK, WriterTypeOK
  <2>3. Passed' = Passed /\ (Streaming' <=> Streaming) /\ (StreamHead' <=> StreamHead)
        /\ (Unsent' <=> Unsent)
    BY <2>1 DEF Passed, Streaming, StreamHead, Unsent
  <2> QED BY <2>1, <2>2, <2>3 DEF EventInv
<1> QED BY <1>1, <1>2, <1>3, <1>4, <1>5, <1>6, <1>7 DEF EventNext, SseStep

LEMMA EventInitInv == EventInit => EventInv
<1> SUFFICES ASSUME EventInit PROVE EventInv
  OBVIOUS
<1>1. RwTypeInv /\ after = "loop" /\ pc = "handler" /\ sse = "none" /\ Unsent
  BY InitType DEF EventInit, RwInit, Unsent, NoDeferred
<1>2. EventType
  BY <1>1 DEF EventType, RwTypeInv
<1> QED BY <1>1, <1>2 DEF EventInv

THEOREM EventInvariance == ASSUME ~Catches PROVE EventSpec => []EventInv
<1> QED BY EventInitInv, EventStep, PTL DEF EventSpec

(* What EventInv says of a stream at the places the runs look at it *)
LEMMA EventInvSays == EventInv => EventsPassThrough /\ StreamEnded /\ StreamEndsConn
<1> SUFFICES ASSUME EventInv PROVE EventsPassThrough /\ StreamEnded /\ StreamEndsConn
  OBVIOUS
<1>1. EventsPassThrough
  BY DEF EventInv, EventsPassThrough, StreamHead
<1>2. StreamEnded
  <2> SUFFICES ASSUME sse = "gone", open, pc \in {"flush", "loop"}
               PROVE  wire[1].torn \/ (asked >= CloseEvent /\ wire[1].sent = asked)
    BY DEF StreamEnded
  <2>1. Passed = asked
    BY DEF Passed
  <2> QED BY <2>1 DEF EventInv
<1>3. StreamEndsConn
  BY DEF EventInv, EventType, Streaming, StreamEndsConn
<1> QED BY <1>1, <1>2, <1>3

(* Events are not held back or cut off: while the handler can use its       *)
(* SSEWriter every byte of every event it wrote is on the wire, behind one  *)
(* whole head without a length.                                             *)
THEOREM EventsArePassedOn == ASSUME ~Catches PROVE EventSpec => []EventsPassThrough
<1> QED BY EventInvariance, EventInvSays, PTL

(* A stream that outlives its handler was ended by an event.                *)
THEOREM StreamsAreEnded == ASSUME ~Catches PROVE EventSpec => []StreamEnded
<1> QED BY EventInvariance, EventInvSays, PTL

(* The connection of an event stream serves no further request, whatever    *)
(* the handler does before and after it.                                    *)
THEOREM StreamIsLast == ASSUME ~Catches PROVE EventSpec => []StreamEndsConn
<1> QED BY EventInvariance, EventInvSays, PTL

------------------------------------------------------------------------------
(* Static files.  A StaticServer is a handler like any other, so that what  *)
(* is proved of the writer holds of its responses; and no client gets       *)
(* contents older than their last-modified, whatever happens to the file in *)
(* between.                                                                 *)

(* Sizes the handler may pass on *)
Offered(n) == \A k \in 0 .. n : k \in Chunks

(* The members of handler_fn, and the sizes it has seen *)
StaticType ==
  /\ req \in Requests
  /\ disk \in [entry : {"file", "none"}, ver : Nat, size : Sizes]
  /\ fd \in [state : {"good", "failed"}, link : {"kept", "lost"}, ver : Nat, size : Nat] /\ Offered(fd.size)
  /\ size \in Nat /\ Offered(size)
  /\ body \in [ver : Nat, begin : Nat, n : Nat] /\ Offered(body.n)
  /\ mod \in [time : Nat \cup {NoTime}, link : {"kept", "lost"}]
  /\ written \in Nat

(* What was read of the opened file is at least as new as the time that was *)
(* read before it, if its name stood for the opened file then.              *)
Loaded ==
  \/ at = "body" \/ written > 0
  \/ at = "head" /\ (req.range # NoRange \/ ~Streamed)

Fresh ==
  /\ at \in {"start", "page", "stat", "size", "content", "partial", "head", "body", "loop", "done"}
  /\ at = "partial" => req.range # NoRange
  /\ at = "content" => req.range = NoRange
  /\ at \in {"start", "stat"} => stamp = NoTime /\ written = 0
  /\ at = "start" => mod.link = "lost"
  /\ stamp \in {NoTime, mod.time}
  /\ fd.link = "kept" => fd.ver = disk.ver
  /\ mod.link = "kept" => mod.time <= Seconds(fd.ver)
  /\ mod.link = "kept" /\ Loaded => mod.time <= Seconds(body.ver)

SInv == StaticType /\ Fresh

LEMMA SecondsMonotone ==
  ASSUME NEW a \in Nat, NEW b \in Nat, a <= b
  PROVE  Seconds(a) \in Nat /\ Seconds(b) \in Nat /\ Seconds(a) <= Seconds(b)
BY DEF Seconds, VersionsPerSecond

LEMMA ContentType ==
  ASSUME StaticType, NEW b \in Nat, NEW e \in Nat, Content(b, e)
  PROVE  /\ fd' \in [state : {"good", "failed"}, link : {"kept", "lost"}, ver : Nat, size : Nat] /\ Offered(fd.size)'
         /\ body' \in [ver : Nat, begin : Nat, n : Nat] /\ Offered(body.n)'
         /\ fd'.ver = fd.ver /\ fd'.link = fd.link /\ body'.ver = fd.ver
<1> DEFINE begin == IF b >= e THEN 0 ELSE b
           end   == IF e > size \/ e < begin THEN size ELSE e
           n     == IF fd.state = "failed" \/ Smaller(end, fd.size) < begin THEN 0
                    ELSE Smaller(end, fd.size) - begin
           keeps == IF n = end - begin THEN fd.state ELSE "failed"
<1>1. body' = [ver |-> fd.ver, begin |-> begin, n |-> n] /\ fd' = [fd EXCEPT !.state = keeps]
  BY Zenon DEF Content
<1>2. begin \in Nat /\ end \in Nat /\ fd.size \in Nat /\ fd.ver \in Nat /\ fd.state \in {"good", "failed"}
  BY DEF StaticType
<1>3. n \in 0 .. fd.size
  BY <1>2 DEF Smaller
<1>4. Offered(n)
  BY <1>2, <1>3 DEF StaticType, Offered
<1>5. keeps \in {"good", "failed"}
  BY <1>2
<1> HIDE DEF begin, end, n, keeps
<1>6. /\ body' \in [ver : Nat, begin : Nat, n : Nat] /\ body'.n = n /\ body'.ver = fd.ver
  BY <1>1, <1>2, <1>3
<1>7. /\ fd' \in [state : {"good", "failed"}, link : {"kept", "lost"}, ver : Nat, size : Nat]
      /\ fd'.ver = fd.ver /\ fd'.link = fd.link /\ fd'.size = fd.size
  BY <1>1, <1>2, <1>5 DEF StaticType
<1> QED BY <1>4, <1>6, <1>7 DEF StaticType, Offered
(* A request's range, when there is one *)
LEMMA RangeType ==
  ASSUME StaticType, req.range # NoRange
  PROVE  req.range.begin \in Nat /\ RangeEnd(size) \in Nat
BY SMTT(30), StaticAssumption DEF StaticType, RangeEnd, ToTheEnd

LEMMA SizesOffered == \A n \in Sizes : n \in Nat /\ Offered(n)
BY StaticAssumption DEF Offered

LEMMA StaticInitInv == StaticInit => SInv
<1> SUFFICES ASSUME StaticInit PROVE SInv
  OBVIOUS
<1> USE DEF StaticInit, StaticIdle
<1>1. disk \in [entry : {"file", "none"}, ver : Nat, size : Sizes] /\ disk.size \in Sizes
  OBVIOUS
<1>2. Offered(0)
  <2>1. \A n \in Sizes : n \in Nat /\ Offered(n)
    BY SizesOffered
  <2>2. disk.size \in Nat /\ 0 \in 0 .. disk.size /\ Offered(disk.size)
    BY <1>1, <2>1
  <2>3. 0 \in Chunks /\ \A k \in 0 .. 0 : k = 0
    BY <2>2 DEF Offered
  <2> QED BY <2>3, Zenon DEF Offered
<1>3. /\ fd \in [state : {"good", "failed"}, link : {"kept", "lost"}, ver : Nat, size : Nat]
      /\ fd.size = 0 /\ fd.link = "lost"
  OBVIOUS
<1>4. body \in [ver : Nat, begin : Nat, n : Nat] /\ body.n = 0
  BY DEF NoBody
<1>5. mod \in [time : Nat \cup {NoTime}, link : {"kept", "lost"}] /\ mod.link = "lost"
  BY DEF NoMod
<1>6. StaticType
  BY <1>1, <1>2, <1>3, <1>4, <1>5 DEF StaticType
<1>7. Fresh
  BY <1>3, <1>5 DEF Fresh
<1> QED BY <1>6, <1>7 DEF SInv

(* A step of the file system *)
LEMMA FileChangesInv == ASSUME SInv, FileChanges PROVE SInv'
<1>1. /\ disk.ver \in Nat /\ fd.ver \in Nat /\ fd \in [state : {"good", "failed"}, link : {"kept", "lost"}, ver : Nat, size : Nat]
      /\ \A n \in Sizes : n \in Nat /\ Offered(n)
  BY StaticAssumption DEF SInv, StaticType, Offered
<1>2. UNCHANGED <<at, req, mod, size, body, written, stamp>>
  BY DEF FileChanges, FileRewritten, FileReplaced, readVars
<1>3. CASE FileRewritten
  <2> PICK n \in Sizes : disk' = [Newer EXCEPT !.size = n]
    BY <1>3 DEF FileRewritten
  <2>1. disk' \in [entry : {"file", "none"}, ver : Nat, size : Sizes] /\ disk'.ver = disk.ver + 1 /\ disk'.size = n
    BY <1>1 DEF Newer
  <2>2. fd' = IF fd.link = "kept" THEN [fd EXCEPT !.ver = disk'.ver, !.size = disk'.size] ELSE fd
    BY <1>3 DEF FileRewritten
  <2>3. /\ fd' \in [state : {"good", "failed"}, link : {"kept", "lost"}, ver : Nat, size : Nat]
        /\ fd'.link = fd.link /\ fd'.size \in {fd.size, n}
        /\ fd'.ver = IF fd.link = "kept" THEN disk'.ver ELSE fd.ver
    BY <1>1, <2>1, <2>2
  <2>4. Offered(fd'.size)
    BY <1>1, <2>3 DEF SInv, StaticType
  <2>5. StaticType'
    BY <1>2, <2>1, <2>3, <2>4 DEF SInv, StaticType, Offered
  <2>6. fd.ver <= fd'.ver /\ fd'.ver \in Nat
    BY <1>1, <2>1, <2>3 DEF SInv, Fresh
  <2>7. Seconds(fd.ver) \in Nat /\ Seconds(fd'.ver) \in Nat /\ Seconds(fd.ver) <= Seconds(fd'.ver)
    BY <1>1, <2>6, SecondsMonotone
  <2>8. mod.time \in Nat \cup {NoTime}
    BY DEF SInv, StaticType
  <2>9. mod'.link = "kept" => mod'.time <= Seconds(fd'.ver)
    BY <1>2, <2>7, <2>8 DEF SInv, Fresh, NoTime
  <2>10. fd'.link = "kept" => fd'.ver = disk'.ver
    BY <2>3
  <2>11. Fresh'
    BY <1>2, <2>9, <2>10 DEF SInv, Fresh, Loaded, Streamed, Seconds
  <2> QED BY <2>5, <2>11 DEF SInv
<1>4. CASE FileReplaced
  <2> PICK n \in Sizes : disk' \in {[Newer EXCEPT !.size = n], [disk EXCEPT !.entry = "none"]}
    BY <1>4 DEF FileReplaced
  <2>1. disk' \in [entry : {"file", "none"}, ver : Nat, size : Sizes]
    BY <1>1 DEF Newer, SInv, StaticType
  <2>2. fd' = [fd EXCEPT !.link = "lost"]
    BY <1>4 DEF FileReplaced
  <2>3. /\ fd' \in [state : {"good", "failed"}, link : {"kept", "lost"}, ver : Nat, size : Nat]
        /\ fd'.link = "lost" /\ fd'.size = fd.size /\ fd'.ver = fd.ver
    BY <1>1, <2>2
  <2>4. StaticType'
    BY <1>2, <2>1, <2>3 DEF SInv, StaticType, Offered
  <2>5. Fresh'
    BY <1>2, <2>3 DEF SInv, Fresh, Loaded, Streamed, Seconds
  <2> QED BY <2>4, <2>5 DEF SInv
<1> QED BY <1>3, <1>4 DEF FileChanges

(* A step that leaves the file and what was read of it alone, and does not  *)
(* come to a place that has read more                                       *)
LEMMA QuietStep ==
  ASSUME SInv,
         UNCHANGED <<req, disk, fd, mod, size, body, written, stamp>>,
         at' = at \/ at' \in {"page", "done"}
  PROVE  SInv'
BY DEF SInv, StaticType, Fresh, Loaded, Streamed, Seconds, Offered, RangeEnd

(* A step of the handler *)
LEMMA StaticStepInv == ASSUME SInv, StaticStep PROVE SInv'
<1>1. ASSUME Options \/ NotAllowed \/ RedirectFlat \/ RedirectDirectory \/ NotFound
               \/ NotFoundPage \/ FileChunksEnd \/ StaticReturns \/ StaticWriterStep
      PROVE  SInv'
  BY <1>1, QuietStep
  DEF Options, NotAllowed, RedirectFlat, RedirectDirectory, NotFound, NotFoundPage, FileChunksEnd,
      StaticReturns, StaticWriterStep, Answer, fileVars, readVars
<1>2. CASE OpenFile
  <2>1. /\ disk \in [entry : {"file", "none"}, ver : Nat, size : Sizes] /\ disk.ver \in Nat /\ disk.size \in Sizes
        /\ disk.size \in Nat /\ Offered(disk.size)
    BY ZenonT(60), StaticAssumption DEF SInv, StaticType, Offered
  <2>2. /\ fd' \in [state : {"good", "failed"}, link : {"kept", "lost"}, ver : Nat, size : Nat]
        /\ fd'.size = disk.size /\ fd'.ver = disk.ver
    BY <1>2, <2>1 DEF OpenFile
  <2>3. UNCHANGED <<req, disk, mod, size, body, written, stamp>> /\ at' = "stat" /\ at = "start"
    BY <1>2 DEF OpenFile, Readable, readVars
  <2>4. mod.link = "lost" /\ stamp = NoTime /\ fd'.ver = disk'.ver
    BY <2>2, <2>3 DEF SInv, Fresh
  <2>5. StaticType'
    BY <2>1, <2>2, <2>3 DEF SInv, StaticType, Offered
  <2>6. Fresh'
    BY <2>3, <2>4 DEF SInv, Fresh
  <2> QED BY <2>5, <2>6 DEF SInv
<1>3. CASE ReadModified
  <2>1. UNCHANGED <<req, disk, fd, size, body, written, stamp>> /\ at = "stat" /\ written = 0 /\ stamp = NoTime
    BY <1>3 DEF ReadModified, fileVars, SInv, Fresh
  <2>2. CASE UNCHANGED mod
    BY <1>3, <2>1, <2>2, QuietStep
    DEF ReadModified, StatThrows, Answer, SInv, Fresh, StaticType, Loaded, Offered, Seconds
  <2>3. CASE mod' # mod
    <3>1. mod' = [time |-> Seconds(disk.ver), link |-> fd.link] /\ at' \in {"done", "size"}
      BY <1>3, <2>3 DEF ReadModified, Answer, StatThrows
    <3>2. Seconds(disk.ver) \in Nat /\ fd.link \in {"kept", "lost"}
      BY SecondsMonotone DEF SInv, StaticType
    <3>3. mod' \in [time : Nat \cup {NoTime}, link : {"kept", "lost"}] /\ mod'.time = Seconds(disk.ver) /\ mod'.link = fd.link
      BY <3>1, <3>2
    <3>4. mod'.link = "kept" => mod'.time <= Seconds(fd'.ver)
      BY <2>1, <3>2, <3>3 DEF SInv, Fresh
    <3>5. StaticType'
      BY <2>1, <3>3 DEF SInv, StaticType, Offered
    <3>6. ~Loaded'
      BY <2>1, <3>1 DEF Loaded
    <3>7. Fresh'
      BY <2>1, <3>1, <3>4, <3>6 DEF SInv, Fresh
    <3> QED BY <3>5, <3>7 DEF SInv
  <2> QED BY <2>2, <2>3
<1>4. CASE ReadSize
  <2>1. /\ UNCHANGED <<req, disk, fd, mod, body, written, stamp>> /\ at = "size"
        /\ size' \in {size, disk.size}
        /\ at' \in {"done", "partial", "content"}
        /\ at' = "partial" => req.range # NoRange
        /\ at' = "content" => req.range = NoRange
    BY <1>4 DEF ReadSize, StatThrows, Answer, fileVars
  <2>2. size' \in Nat /\ Offered(size')
    <3>1. disk.size \in Sizes
      BY DEF SInv, StaticType
    <3>2. disk.size \in Nat /\ Offered(disk.size)
      BY ZenonT(60), <3>1, StaticAssumption DEF Offered
    <3> QED BY <2>1, <3>2 DEF SInv, StaticType
  <2>3. StaticType'
    BY <2>1, <2>2 DEF SInv, StaticType, Offered
  <2>4. Loaded' => Loaded
    BY <2>1 DEF Loaded
  <2>5. Fresh'
    BY <2>1, <2>4 DEF SInv, Fresh, Seconds
  <2> QED BY <2>3, <2>5 DEF SInv
<1>5. ASSUME ReadPartial \/ ReadWhole \/ FileChunk PROVE SInv'
  <2>1. /\ UNCHANGED <<req, disk, mod, size, stamp>>
        /\ at \in {"partial", "content", "loop"} /\ at' \in {"done", "head", "loop"}
    BY <1>5 DEF ReadPartial, ReadWhole, FileChunk, Answer, Announce
  <2>2. /\ fd' \in [state : {"good", "failed"}, link : {"kept", "lost"}, ver : Nat, size : Nat] /\ Offered(fd.size)'
        /\ body' \in [ver : Nat, begin : Nat, n : Nat] /\ Offered(body.n)'
        /\ fd'.ver = fd.ver /\ fd'.link = fd.link /\ body'.ver = fd.ver
    <3>1. CASE ReadPartial
      <4>1. req.range # NoRange
        BY <3>1 DEF ReadPartial, SInv, Fresh
      <4>2. req.range.begin \in Nat /\ RangeEnd(size) \in Nat /\ Content(req.range.begin, RangeEnd(size))
        BY <3>1, <4>1, RangeType DEF ReadPartial, SInv
      <4> QED BY <4>2, ContentType DEF SInv
    <3>2. CASE ReadWhole \/ FileChunk
      <4>1. size \in Nat /\ Content(0, size)
        BY <3>2 DEF ReadWhole, FileChunk, SInv, StaticType
      <4> QED BY <4>1, ContentType DEF SInv
    <3> QED BY <1>5, <3>1, <3>2
  <2>3. written' \in Nat /\ (written' = written \/ FileChunk)
    <3>1. body'.n \in Nat /\ written \in Nat
      BY <2>2 DEF SInv, StaticType
    <3> QED BY <1>5, <3>1 DEF ReadPartial, ReadWhole, FileChunk
  <2>4. StaticType'
    BY <2>1, <2>2, <2>3 DEF SInv, StaticType, Offered
  <2>5. mod'.link = "kept" => mod'.time <= Seconds(fd'.ver) /\ mod'.time <= Seconds(body'.ver)
    BY <2>1, <2>2 DEF SInv, Fresh
  <2>6. Fresh'
    BY <2>1, <2>2, <2>5 DEF SInv, Fresh
  <2> QED BY <2>4, <2>6 DEF SInv
<1>6. CASE ReadLater
  <2>1. /\ UNCHANGED <<req, disk, fd, mod, size, body, written, stamp>>
        /\ at = "content" /\ at' = "head" /\ Streamed /\ req.range = NoRange
    BY <1>6 DEF ReadLater, Announce, fileVars, readVars, SInv, Fresh
  <2>2. Loaded' => Loaded
    BY <2>1 DEF Loaded, Streamed
  <2>3. StaticType'
    BY <2>1 DEF SInv, StaticType, Offered
  <2>4. Fresh'
    BY <2>1, <2>2 DEF SInv, Fresh, Seconds
  <2> QED BY <2>3, <2>4 DEF SInv
<1>7. CASE FileHead
  <2>1. /\ UNCHANGED <<req, disk, fd, mod, size, body, written>>
        /\ at = "head" /\ at' \in {"done", "loop", "body"} /\ stamp' = mod.time
        /\ at' = "body" => req.range # NoRange \/ ~Streamed
    BY <1>7 DEF FileHead, fileVars, LastModified
  <2>2. Loaded' => Loaded
    BY <2>1 DEF Loaded
  <2>3. StaticType'
    BY <2>1 DEF SInv, StaticType, Offered
  <2>4. Fresh'
    BY <2>1, <2>2 DEF SInv, Fresh, Seconds
  <2> QED BY <2>3, <2>4 DEF SInv
<1>8. CASE FileBody
  <2>1. /\ UNCHANGED <<req, disk, fd, mod, size, body, stamp>>
        /\ at = "body" /\ at' = "done" /\ written' = body.n /\ body.n \in Nat
    BY <1>8 DEF FileBody, fileVars, SInv, StaticType
  <2>2. StaticType'
    BY <2>1 DEF SInv, StaticType, Offered
  <2>3. Fresh'
    BY <2>1 DEF SInv, Fresh, Loaded, Seconds
  <2> QED BY <2>2, <2>3 DEF SInv
<1> QED
  BY <1>1, <1>2, <1>3, <1>4, <1>5, <1>6, <1>7, <1>8 DEF StaticStep

LEMMA StaticNextInv == SInv /\ [StaticNext]_staticVars => SInv'
<1> SUFFICES ASSUME SInv, [StaticNext]_staticVars PROVE SInv'
  OBVIOUS
<1>1. CASE UNCHANGED staticVars
  BY <1>1, QuietStep DEF staticVars, fileVars, readVars
<1> QED BY <1>1, StaticStepInv, FileChangesInv DEF StaticNext

THEOREM StaticInvariance == StaticSpec => []SInv
<1> QED BY StaticInitInv, StaticNextInv, PTL DEF StaticSpec

LEMMA NotOlder == SInv => BodyNotOlder
<1> SUFFICES ASSUME SInv, written > 0, mod.link = "kept" PROVE stamp <= Seconds(body.ver)
  BY DEF BodyNotOlder
<1>1. mod.time <= Seconds(body.ver)
  BY DEF SInv, Fresh, Loaded
<1>2. Seconds(body.ver) \in Nat
  BY SecondsMonotone DEF SInv, StaticType
<1> QED BY <1>1, <1>2 DEF SInv, Fresh, NoTime

(* A client never gets contents older than the last-modified that comes     *)
(* with them, although the file may be rewritten, replaced or removed       *)
(* between every two looks at it; the name stood for the opened file when   *)
(* its time was read.                                                       *)
THEOREM ContentsNotOlder == StaticSpec => []BodyNotOlder
<1> QED BY NotOlder, StaticInvariance, PTL

(* The static server is one of the handlers of RwSpec: each of its steps is *)
(* a call of the writer, a step of the writer, or none of the writer's      *)
(* business.                                                                *)
LEMMA StaticIsHandler == SInv /\ [StaticNext]_staticVars => [RwNext]_rwVars
<1> SUFFICES ASSUME SInv, StaticNext PROVE RwNext \/ UNCHANGED rwVars
  BY DEF staticVars
<1>1. {200, 204, 206, 302, 304, 308, 404, 405, 416} \subseteq Statuses /\ PageSize \in Chunks
  BY StaticAssumption
<1>2. ASSUME NEW st \in Statuses, WriteHeader(st) PROVE RwNext
  BY <1>2 DEF RwNext, HandlerCall
<1>3. ASSUME NEW n \in Chunks, Write(n) PROVE RwNext
  BY <1>3 DEF RwNext, HandlerCall
<1>4. ASSUME HandlerReturns \/ HandlerThrows PROVE RwNext
  BY <1>4 DEF RwNext, WriterStep
<1>5. ASSUME Options \/ NotAllowed \/ RedirectFlat \/ RedirectDirectory \/ NotFound PROVE RwNext
  BY <1>1, <1>2, <1>5 DEF Options, NotAllowed, RedirectFlat, RedirectDirectory, NotFound, Answer
<1>6. ASSUME NotFoundPage PROVE RwNext
  BY <1>1, <1>3, <1>6 DEF NotFoundPage
<1>7. ASSUME OpenFile \/ FileChanges PROVE UNCHANGED rwVars
  BY <1>7 DEF OpenFile, FileChanges, FileRewritten, FileReplaced
<1>8. ASSUME ReadModified \/ ReadSize PROVE RwNext \/ UNCHANGED rwVars
  BY <1>1, <1>2, <1>4, <1>8 DEF ReadModified, ReadSize, StatThrows, Answer
<1>9. ASSUME ReadPartial \/ ReadWhole \/ ReadLater PROVE RwNext
  <2>1. SetHeaders \/ WriteHeader(304)
    BY <1>9 DEF ReadPartial, ReadWhole, ReadLater, Answer, Announce
  <2> QED BY <1>1, <1>2, <2>1 DEF RwNext, HandlerCall
<1>10. ASSUME FileHead PROVE RwNext
  <2>1. WriteHeader(206) \/ WriteHeader(OK)
    BY <1>10 DEF FileHead
  <2> QED BY <1>1, <1>2, <2>1 DEF OK
<1>11. ASSUME FileBody PROVE RwNext
  <2>1. body.n \in Chunks /\ Write(body.n)
    <3>1. body.n \in Nat /\ body.n \in 0 .. body.n /\ Offered(body.n)
      BY DEF SInv, StaticType
    <3> QED BY <1>11, <3>1 DEF FileBody, Offered
  <2> QED BY <1>3, <2>1
<1>12. ASSUME FileChunk PROVE RwNext \/ UNCHANGED rwVars
  <2>1. size \in Nat /\ Content(0, size)
    BY <1>12 DEF FileChunk, SInv, StaticType
  <2>2. body'.n \in Nat /\ Offered(body'.n)
    BY <2>1, ContentType DEF SInv, Offered
  <2>3. body'.n \in Chunks
    <3>1. body'.n \in 0 .. body'.n
      BY <2>2
    <3> QED BY <2>2, <3>1 DEF Offered
  <2> QED BY <1>3, <1>12, <2>3 DEF FileChunk
<1>13. ASSUME FileChunksEnd \/ StaticReturns \/ StaticWriterStep PROVE RwNext
  BY <1>4, <1>13 DEF FileChunksEnd, StaticReturns, StaticWriterStep, RwNext
<1> QED
  BY <1>5, <1>6, <1>7, <1>8, <1>9, <1>10, <1>11, <1>12, <1>13 DEF StaticNext, StaticStep

(* StaticSpec implements RwSpec: what is proved of every handler holds of   *)
(* the static server.                                                       *)
THEOREM ServesThroughWriter == StaticSpec => RwSpec
<1>1. StaticInit => RwInit
  BY DEF StaticInit
<1> QED BY <1>1, StaticInvariance, StaticIsHandler, PTL DEF StaticSpec, RwSpec

(* Whatever the file does in between, the body of a response is never       *)
(* longer than its content-length, and on a connection that goes on it is   *)
(* what the handler wrote, up to that length.                               *)
THEOREM StaticResponsesFramed == StaticSpec => [](NoOverrun /\ ExchangeComplete) /\ SilentAfterTear
<1>1. ~Catches
  BY StaticAssumption
<1> QED BY <1>1, ServesThroughWriter, ContentLengthRespected, KeptAliveIsComplete, TearIsFinal, PTL

------------------------------------------------------------------------------
(* What a static response holds, compared with what its head said *)

(* What the head of a file's reply said, when the peer can still see it *)
HeadSays(st, n) ==
  /\ header_written /\ ~deferred.on /\ announced = n
  /\ open => wire # <<>> /\ wire[1].st = st /\ wire[1].len = n

(* A reply that waits for flush(), and one that flush() sent *)
Waiting ==
  /\ header_written /\ deferred.on /\ deferred.st # 206
  /\ open /\ pc \in {"flushBody", "loop"} =>
       wire # <<>> /\ wire[1].st = deferred.st /\ wire[1].len = asked

Ranged == req.range # NoRange

RangeOk == req.range.begin < RangeEnd(size) /\ RangeEnd(size) <= size

RangeRead ==
  /\ body.begin = req.range.begin
  /\ body.n = RangeEnd(size) - req.range.begin \/ fd.state = "failed"

WholeRead == body.n = size \/ fd.state = "failed"

(* Replies to a range, and to a whole file *)
Announced ==
  \/ Ranged /\ RangeOk /\ RangeRead /\ HeadSays(206, body.n)
  \/ ~Ranged /\ HeadSays(OK, size)

(* Nothing was said of the file yet. *)
Untold ==
  /\ ~header_written /\ hdr = NoHeaders /\ ~raw_io /\ ~stream_response
  /\ pc = "handler" /\ written = 0

ToSend ==
  /\ ~header_written /\ pc = "handler" /\ written = 0
  /\ Ranged => RangeOk /\ RangeRead /\ hdr = Announcing(body.n)
  /\ ~Ranged => (Streamed \/ WholeRead) /\ hdr = Announcing(size)

Served ==
  \/ pc = "exit"
  \/ at \in {"start", "stat", "size", "content"} /\ Untold
  \/ at = "partial" /\ Untold /\ RangeOk
  \/ at = "head" /\ ToSend
  \/ at = "page" /\ pc = "handler" /\ Waiting /\ req.method # "HEAD"
  \/ /\ at = "body" /\ pc = "handler" /\ Announced /\ asked = 0
     /\ ~Ranged => req.method # "HEAD" /\ WholeRead
  \/ /\ at = "loop" /\ pc \in {"handler", "put"} /\ Announced /\ asked = written
     /\ ~Ranged /\ req.method # "HEAD"
  \/ at = "done" /\ Waiting /\ (req.method = "HEAD" => asked = 0)
  \/ /\ at = "done" /\ Announced
     /\ IF req.method = "HEAD" THEN Ranged \/ asked = 0
        ELSE asked >= announced \/ (~Ranged /\ fd.state = "failed")

(* A call that answers without a file leaves the reply to flush(). *)
LEMMA AnswerWaits ==
  ASSUME IInv, Untold, NEW st \in Nat, st # 206, WriteHeader(st)
  PROVE  pc' = "handler" /\ Waiting' /\ asked = 0 /\ asked' = 0
<1>1. /\ ~header_written /\ pc = "handler" /\ hdr = NoHeaders /\ ~raw_io /\ ~stream_response
      /\ Header(st, "handler") /\ asked' = asked
  BY DEF WriteHeader, Untold
<1>2. ~Upgrades /\ ~hdr.sse /\ hdr.len = NoLen
  BY <1>1 DEF NoHeaders, Upgrades
<1>3. Defer(st, "handler")
  BY <1>1, <1>2 DEF Header, UpgradeClosed, SendHead, Deferrable
<1>4. pc' = "handler" /\ header_written' = TRUE
      /\ deferred' = [on |-> TRUE, st |-> st, conn |-> ConnHeader, size |-> 0]
  BY <1>3 DEF Defer, FlagStream
<1>5. deferred'.on /\ deferred'.st = st
  BY <1>4
<1>6. asked = 0
  BY <1>1 DEF IInv, WriterInv, Composing
<1> QED BY <1>1, <1>4, <1>5, <1>6 DEF Waiting

(* A head with a length goes out at once. *)
LEMMA HeadGoesOut ==
  ASSUME ~Catches, IInv, pc = "handler", ~header_written, NEW n \in Nat, hdr = Announcing(n),
         NEW st \in Nat, st \notin TableLacks, WriteHeader(st)
  PROVE  \/ pc' = "exit"
         \/ /\ pc' = "handler" /\ asked' = 0
            /\ header_written' /\ ~deferred'.on /\ announced' = n
            /\ open' => wire' # <<>> /\ wire'[1].st = st /\ wire'[1].len = n
<1>1. ~Upgrades /\ ~hdr.sse /\ hdr.len = n /\ n # NoLen /\ FramedLen = n
  BY DEF Announcing, Upgrades, FramedLen, NoLen
<1>2. SendHead(st, "handler") /\ asked' = asked
  BY <1>1 DEF WriteHeader, Header, UpgradeClosed, Defer
<1>3. wire = <<>> /\ ~deferred.on /\ asked = 0
  BY DEF IInv, WriterInv, Composing
<1>4. header_written' = TRUE /\ announced' = n /\ deferred' = deferred
  BY <1>1, <1>2 DEF SendHead, FlagStream
<1>5. CASE ~open
  <2>1. pc' = "exit"
    BY <1>2, <1>5 DEF SendHead, Raise
  <2> QED BY <2>1
<1>6. CASE open
  <2>1. PICK r \in HeadResults : PutHead(st, ConnHeader, n, r) /\ Continue(r, "handler")
    BY <1>1, <1>2, <1>6 DEF SendHead
  <2>2. ConnHeader \in ConnToken /\ n \in Nat \cup {NoLen} /\ RwTypeInv
    BY DEF ConnHeader, ConnToken, IInv, RwTypeInv, WriterTypeOK, HeaderType
  <2>3. wire' # <<>> /\ wire'[1].st = st /\ wire'[1].len = n
    BY <1>3, <2>1, <2>2, FirstHead
  <2>4. pc' \in {"handler", "exit"}
    BY <2>1 DEF Continue, Raise
  <2> QED BY <1>2, <1>3, <1>4, <2>3, <2>4
<1> QED BY <1>5, <1>6

(* What write() and flush() do behind a head that is out *)
LEMMA BehindHead ==
  ASSUME ~Catches, IInv, header_written, ~deferred.on, pc # "handler", WriterStep
  PROVE  /\ header_written' /\ ~deferred'.on /\ UNCHANGED <<announced, asked>>
         /\ \/ pc' = "exit"
            \/ pc = "put" /\ pc' = "handler"
            \/ pc = "flush" /\ pc' = "loop"
         /\ open' => open
         /\ open /\ pc' # "exit" /\ wire # <<>> =>
              wire' # <<>> /\ wire'[1].st = wire[1].st /\ wire'[1].len = wire[1].len
<1>1. PutExtra \/ Put \/ FlushNothing
  BY DEF WriterStep, PutDeferred, HandlerReturns, HandlerThrows, FlushEmpty, FlushHead, FlushBody,
         IInv, WriterInv
<1>2. header_written' = header_written /\ deferred' = deferred /\ UNCHANGED <<announced, asked>>
  BY <1>1 DEF PutExtra, Put, FlushNothing, writerState
<1>3. CASE PutExtra \/ FlushNothing
  <2>1. UNCHANGED <<wire, open>> /\ after = "loop"
    BY <1>3 DEF PutExtra, FlushNothing, connVars, IInv, RwTypeInv
  <2> QED BY <1>2, <1>3, <2>1 DEF PutExtra, FlushNothing
<1>4. CASE Put
  <2>1. pc = "put" /\ pc' \in {"handler", "exit"}
    BY <1>4 DEF Put, Continue, Raise
  <2>2. CASE ~open
    BY <1>2, <1>4, <2>1, <2>2 DEF Put
  <2>3. CASE open
    <3>1. CanWrite \in Nat
      BY <1>4 DEF Put, CanWrite, NoLen, IInv, RwTypeInv, WriterTypeOK
    <3>2. PICK r \in WriteResults(CanWrite) : PutBody(r)
      BY <1>4, <2>3 DEF Put
    <3>3. wire # <<>> =>
            wire' # <<>> /\ wire'[1].st = wire[1].st /\ wire'[1].len = wire[1].len
      BY <3>1, <3>2, BodyAdded DEF IInv
    <3> QED BY <1>2, <2>1, <2>3, <3>3
  <2> QED BY <2>2, <2>3
<1> QED BY <1>1, <1>3, <1>4

(* What they do with a reply that waits *)
LEMMA WaitingGoesOut ==
  ASSUME ~Catches, IInv, Waiting, pc # "handler", WriterStep
  PROVE  pc' = "exit" \/ (Waiting' /\ asked' = asked)
<1>1. PutDeferred \/ FlushNothing \/ FlushHead \/ FlushBody
  BY DEF WriterStep, PutExtra, Put, HandlerReturns, HandlerThrows, FlushEmpty, Waiting
<1>2. asked' = asked
  BY <1>1 DEF PutDeferred, FlushNothing, FlushHead, FlushBody
<1>3. CASE PutDeferred
  <2>1. deferred'.on /\ deferred'.st = deferred.st /\ header_written' = header_written
    BY <1>3 DEF PutDeferred, IInv, RwTypeInv, WriterTypeOK
  <2>2. pc' = "handler"
    BY <1>3 DEF PutDeferred
  <2> QED BY <1>2, <2>1, <2>2 DEF Waiting
<1>4. CASE FlushNothing
  <2>1. ~open' /\ header_written' = header_written /\ deferred' = deferred
    BY <1>4 DEF FlushNothing, Waiting, connVars, writerState
  <2> QED BY <1>2, <2>1 DEF Waiting
<1>5. CASE FlushHead
  <2>1. header_written' = header_written /\ deferred' = deferred
    BY <1>5 DEF FlushHead, writerState
  <2>2. CASE pc' = "exit"
    BY <2>2
  <2>3. CASE pc' # "exit"
    <3>1. PICK r \in HeadResults : PutHead(deferred.st, deferred.conn, deferred.size, r)
      BY <1>5, <2>3 DEF FlushHead
    <3>2. wire = <<>> /\ deferred.size = asked
      BY <1>5 DEF FlushHead, IInv, WriterInv, Composing, Passed
    <3>3. /\ RwTypeInv /\ deferred.st \in Nat /\ deferred.conn \in ConnToken
          /\ deferred.size \in Nat \cup {NoLen}
      BY DEF IInv, RwTypeInv, WriterTypeOK
    <3>4. wire' # <<>> /\ wire'[1].st = deferred.st /\ wire'[1].len = asked
      BY <3>1, <3>2, <3>3, FirstHead
    <3> QED BY <1>2, <2>1, <3>4 DEF Waiting
  <2> QED BY <2>2, <2>3
<1>6. CASE FlushBody
  <2>1. header_written' = header_written /\ deferred' = deferred /\ pc = "flushBody"
    BY <1>6 DEF FlushBody, writerState
  <2>2. CASE ~open
    BY <1>6, <2>2 DEF FlushBody
  <2>3. CASE open
    <3>1. PICK r \in WriteResults(deferred.size) : PutBody(r)
      BY <1>6, <2>3 DEF FlushBody
    <3>2. deferred.size \in Nat /\ wire # <<>>
      BY <2>1, <2>3 DEF IInv, RwTypeInv, WriterTypeOK, WriterInv
    <3>3. wire' # <<>> /\ wire'[1].st = wire[1].st /\ wire'[1].len = wire[1].len
      BY <3>1, <3>2, BodyAdded DEF IInv
    <3>4. wire[1].st = deferred.st /\ wire[1].len = asked
      BY <2>1, <2>3 DEF Waiting
    <3> QED BY <1>2, <2>1, <3>3, <3>4 DEF Waiting
  <2> QED BY <2>2, <2>3
<1> QED BY <1>1, <1>3, <1>4, <1>5, <1>6

(* A part that was asked for, and the whole file, as they are read *)
LEMMA PartIsRead ==
  ASSUME StaticType, Ranged, RangeOk, Content(req.range.begin, RangeEnd(size)),
         UNCHANGED <<req, size>>
  PROVE  RangeRead'
<1>1. req.range.begin \in Nat /\ RangeEnd(size) \in Nat /\ size \in Nat
  BY RangeType DEF Ranged, StaticType
<1> DEFINE b == req.range.begin
           e == RangeEnd(size)
           n == IF fd.state = "failed" \/ Smaller(e, fd.size) < b THEN 0
                ELSE Smaller(e, fd.size) - b
<1>2. b < e /\ e <= size
  BY <1>1 DEF RangeOk
<1>3. ~(b >= e) /\ ~(e > size \/ e < b)
  BY <1>1, <1>2
<1>4. /\ body' = [ver |-> fd.ver, begin |-> b, n |-> n]
      /\ fd' = [fd EXCEPT !.state = IF n = e - b THEN @ ELSE "failed"]
  BY <1>3, Zenon DEF Content
<1>5. RangeEnd(size)' = e /\ req'.range.begin = b
  BY DEF RangeEnd
<1> HIDE DEF b, e, n
<1>6. body'.begin = b /\ body'.n = n /\ (n = e - b \/ fd'.state = "failed")
  BY <1>4 DEF StaticType
<1> QED BY <1>5, <1>6 DEF RangeRead

LEMMA WholeIsRead ==
  ASSUME StaticType, Content(0, size), UNCHANGED size
  PROVE  WholeRead'
<1>1. size \in Nat /\ fd.size \in Nat
  BY DEF StaticType
<1> DEFINE n == IF fd.state = "failed" \/ Smaller(size, fd.size) < 0 THEN 0
                ELSE Smaller(size, fd.size) - 0
<1>2. ~(size > size \/ size < 0)
  BY <1>1
<1>3. /\ body' = [ver |-> fd.ver, begin |-> 0, n |-> n]
      /\ fd' = [fd EXCEPT !.state = IF n = size - 0 THEN @ ELSE "failed"]
  BY <1>2, Zenon DEF Content
<1> HIDE DEF n
<1>4. body'.n = n /\ (n = size - 0 \/ fd'.state = "failed")
  BY <1>3 DEF StaticType
<1>5. size - 0 = size
  BY <1>1
<1> QED BY <1>4, <1>5 DEF WholeRead

(* The places of handler_fn, one at a time *)
LEMMA Answers ==
  ASSUME IInv, SInv, Untold, NEW st \in Nat, st # 206, Answer(st), req' = req
  PROVE  Served'
<1>1. at' = "done" /\ Waiting' /\ asked' = 0
  BY AnswerWaits DEF Answer
<1> QED BY <1>1 DEF Served

LEMMA FromStart ==
  ASSUME IInv, SInv, at = "start", Untold,
         Options \/ NotAllowed \/ RedirectFlat \/ RedirectDirectory \/ NotFound \/ OpenFile
  PROVE  Served'
<1>1. CASE Options \/ NotAllowed \/ RedirectFlat \/ RedirectDirectory
  <2>1. req' = req /\ \E st \in {204, 405, 308, 302} : Answer(st)
    BY <1>1 DEF Options, NotAllowed, RedirectFlat, RedirectDirectory
  <2>2. PICK st \in {204, 405, 308, 302} : Answer(st)
    BY <2>1
  <2>3. st \in Nat /\ st # 206
    BY <2>2
  <2> QED BY <2>1, <2>2, <2>3, Answers
<1>2. CASE NotFound
  <2>1. WriteHeader(404) /\ req' = req /\ at' = (IF req.method = "HEAD" THEN "done" ELSE "page")
    BY <1>2 DEF NotFound
  <2>2. pc' = "handler" /\ Waiting' /\ asked' = 0
    BY <2>1, AnswerWaits
  <2> QED BY <2>1, <2>2 DEF Served
<1>3. CASE OpenFile
  BY <1>3 DEF OpenFile, rwVars, txVars, streamState, writerState, readVars, Untold, Served
<1> QED BY <1>1, <1>2, <1>3

LEMMA FromStat ==
  ASSUME IInv, SInv, Untold, ReadModified \/ ReadSize
  PROVE  Served'
<1>1. CASE StatThrows
  BY <1>1 DEF StatThrows, HandlerThrows, Served
<1>2. CASE Answer(304) \/ Answer(416)
  <2>1. req' = req
    BY DEF ReadModified, ReadSize
  <2> QED BY <1>2, <2>1, Answers
<1>3. CASE ~StatThrows /\ ~Answer(304) /\ ~Answer(416)
  <2>1. UNCHANGED <<rwVars, req, written>> /\ at' \in {"size", "partial", "content"}
    BY <1>3 DEF ReadModified, ReadSize
  <2>2. Untold'
    BY <2>1 DEF Untold, rwVars, txVars, streamState, writerState
  <2>3. at' = "partial" => RangeOk'
    <3>1. SUFFICES ASSUME at' = "partial" PROVE RangeOk'
      OBVIOUS
    <3>2. /\ size' = disk.size /\ req.range # NoRange /\ ~Unsatisfiable(size')
      BY <1>3, <3>1 DEF ReadModified, ReadSize
    <3>3. size' \in Nat
      BY <3>2, SizesOffered DEF SInv, StaticType
    <3>4. req.range.begin \in Nat /\ RangeEnd(size') \in Nat
      BY SMTT(30), <3>2, <3>3, StaticAssumption DEF SInv, StaticType, RangeEnd, ToTheEnd
    <3>5. RangeEnd(size)' = RangeEnd(size')
      BY <2>1 DEF RangeEnd
    <3> QED BY <2>1, <3>2, <3>3, <3>4, <3>5 DEF Unsatisfiable, RangeOk
  <2> QED BY <2>1, <2>2, <2>3 DEF Served
<1> QED BY <1>1, <1>2, <1>3

LEMMA FromReads ==
  ASSUME IInv, SInv, Untold, at = "partial" => RangeOk, ReadPartial \/ ReadWhole \/ ReadLater
  PROVE  Served'
<1>1. CASE Answer(304)
  BY <1>1, Answers DEF ReadPartial, ReadWhole, ReadLater
<1>2. CASE ~Answer(304)
  <2>1. /\ SetHeaders /\ at' = "head" /\ UNCHANGED <<req, size, written>>
        /\ at = "partial" <=> Ranged
    BY <1>2 DEF ReadPartial, ReadWhole, ReadLater, Announce, SInv, Fresh, Ranged, readVars
  <2>2. ~header_written' /\ pc' = "handler" /\ written' = 0
    BY <2>1 DEF SetHeaders, InHandler, Untold
  <2>3. CASE ReadPartial
    <3>1. Ranged /\ RangeOk /\ Content(req.range.begin, RangeEnd(size)) /\ hdr' = Announcing(body'.n)
      BY <1>2, <2>1, <2>3 DEF ReadPartial, Announce, PartialLength
    <3>2. RangeRead'
      BY <2>1, <3>1, PartIsRead DEF SInv
    <3>3. RangeOk' /\ Ranged'
      BY <2>1, <3>1 DEF RangeOk, RangeEnd, Ranged
    <3> QED BY <2>1, <2>2, <3>1, <3>2, <3>3 DEF Served, ToSend
  <2>4. CASE ReadWhole \/ ReadLater
    <3>1. hdr' = Announcing(size') /\ ~Ranged'
      BY <1>2, <2>1, <2>4 DEF ReadWhole, ReadLater, Announce, SInv, Fresh, Ranged
    <3>2. CASE ReadWhole
      <4>1. WholeRead'
        BY <2>1, <3>2, WholeIsRead DEF ReadWhole, SInv
      <4> QED BY <2>1, <2>2, <3>1, <4>1 DEF Served, ToSend
    <3>3. CASE ReadLater
      <4>1. Streamed'
        BY <2>1, <3>3 DEF ReadLater, Streamed
      <4> QED BY <2>1, <2>2, <3>1, <4>1 DEF Served, ToSend
    <3> QED BY <2>4, <3>2, <3>3
  <2> QED BY <2>3, <2>4
<1> QED BY <1>1, <1>2

LEMMA FromHead ==
  ASSUME ~Catches, IInv, SInv, at = "head", ToSend, FileHead
  PROVE  Served'
<1>1. /\ ~header_written /\ pc = "handler" /\ written = 0
      /\ UNCHANGED <<req, fd, size, body, written>>
      /\ size \in Nat /\ body.n \in Nat
  BY DEF ToSend, FileHead, fileVars, SInv, StaticType
<1>2. 206 \in Nat /\ 206 \notin TableLacks /\ OK \in Nat /\ OK \notin TableLacks
  BY DEF OK, TableLacks
<1>3. CASE Ranged
  <2>1. RangeOk /\ RangeRead /\ hdr = Announcing(body.n) /\ WriteHeader(206) /\ at' = "body"
    BY <1>3 DEF ToSend, FileHead, Ranged
  <2>2. Ranged' /\ RangeOk' /\ RangeRead'
    BY <1>1, <1>3, <2>1 DEF Ranged, RangeOk, RangeRead, RangeEnd
  <2>3. \/ pc' = "exit"
        \/ /\ pc' = "handler" /\ asked' = 0
           /\ header_written' /\ ~deferred'.on /\ announced' = body.n
           /\ open' => wire' # <<>> /\ wire'[1].st = 206 /\ wire'[1].len = body.n
    BY <1>1, <1>2, <2>1, HeadGoesOut
  <2> QED BY <1>1, <2>1, <2>2, <2>3 DEF Served, Announced, HeadSays
<1>4. CASE ~Ranged
  <2>1. /\ Streamed \/ WholeRead
        /\ hdr = Announcing(size) /\ WriteHeader(OK)
        /\ at' = IF req.method = "HEAD" \/ size = 0 THEN "done"
                 ELSE IF Streamed THEN "loop" ELSE "body"
    BY <1>4 DEF ToSend, FileHead, Ranged
  <2>2. ~Ranged' /\ (WholeRead => WholeRead')
    BY <1>1, <1>4 DEF Ranged, WholeRead
  <2>3. \/ pc' = "exit"
        \/ /\ pc' = "handler" /\ asked' = 0
           /\ header_written' /\ ~deferred'.on /\ announced' = size
           /\ open' => wire' # <<>> /\ wire'[1].st = OK /\ wire'[1].len = size
    BY <1>1, <1>2, <2>1, HeadGoesOut
  <2>4. pc' # "exit" => Announced' /\ pc' = "handler" /\ asked' = 0 /\ announced' = size
    BY <1>1, <2>2, <2>3 DEF Announced, HeadSays
  <2>5. CASE req.method = "HEAD" \/ size = 0
    <3>1. at' = "done"
      BY <2>1, <2>5
    <3>2. size = 0 => 0 >= size
      BY <1>1
    <3> QED BY <1>1, <2>4, <2>5, <3>1, <3>2 DEF Served
  <2>6. CASE req.method # "HEAD" /\ size # 0 /\ Streamed
    <3>1. at' = "loop"
      BY <2>1, <2>6
    <3> QED BY <1>1, <2>2, <2>4, <2>6, <3>1 DEF Served
  <2>7. CASE req.method # "HEAD" /\ size # 0 /\ ~Streamed
    <3>1. at' = "body"
      BY <2>1, <2>7
    <3> QED BY <1>1, <2>1, <2>2, <2>4, <2>7, <3>1 DEF Served
  <2> QED BY <2>5, <2>6, <2>7
<1> QED BY <1>3, <1>4

(* write() when the head is out, or waits *)
LEMMA WriteBehind ==
  ASSUME header_written, NEW n, Write(n)
  PROVE  /\ pc = "handler" /\ pc' = "put" /\ asked' = asked + n
         /\ UNCHANGED <<open, wire, header_written, deferred, announced>>
BY DEF Write, InHandler, connVars, writerState

LEMMA SameAnnounced ==
  ASSUME Announced, UNCHANGED <<req, size, body>>, fd.state = "failed" => fd'.state = "failed",
         header_written' /\ ~deferred'.on /\ announced' = announced,
         open' => /\ open
                  /\ wire # <<>> => /\ wire' # <<>> /\ wire'[1].st = wire[1].st
                                    /\ wire'[1].len = wire[1].len
  PROVE  Announced' /\ (Ranged' <=> Ranged)
<1>1. (Ranged' <=> Ranged) /\ (RangeOk => RangeOk') /\ (RangeRead => RangeRead')
  BY DEF Ranged, RangeOk, RangeRead, RangeEnd
<1> QED BY <1>1 DEF Announced, HeadSays

LEMMA FromBody ==
  ASSUME IInv, SInv, at = "body", Announced, asked = 0,
         ~Ranged => req.method # "HEAD" /\ WholeRead, FileBody
  PROVE  Served'
<1>1. /\ UNCHANGED <<req, fd, size, body>> /\ Write(body.n) /\ at' = "done" /\ body.n \in Nat
      /\ header_written /\ ~deferred.on /\ asked' = body.n
      /\ UNCHANGED <<open, wire, header_written, deferred, announced>>
  BY WriteBehind DEF FileBody, fileVars, SInv, StaticType, Announced, HeadSays
<1>2. Announced' /\ (Ranged' <=> Ranged)
  BY <1>1, SameAnnounced
<1>3. Ranged => asked' >= announced'
  BY <1>1 DEF Announced, HeadSays
<1>4. ~Ranged => asked' >= announced' \/ fd'.state = "failed"
  BY <1>1 DEF Announced, HeadSays, WholeRead
<1> QED BY <1>1, <1>2, <1>3, <1>4 DEF Served

LEMMA FromLoop ==
  ASSUME IInv, SInv, at = "loop", Announced, asked = written, ~Ranged, req.method # "HEAD",
         FileChunk \/ FileChunksEnd
  PROVE  Served'
<1>1. /\ header_written /\ ~deferred.on /\ announced = size /\ size \in Nat /\ written \in Nat
      /\ UNCHANGED <<req, size>>
  BY DEF Announced, HeadSays, SInv, StaticType, FileChunk, FileChunksEnd, readVars
<1>2. ASSUME header_written' /\ ~deferred'.on /\ announced' = announced,
             UNCHANGED <<open, wire>>
      PROVE  Announced' /\ ~Ranged'
  BY <1>1, <1>2 DEF Announced, HeadSays, Ranged
<1>3. CASE FileChunk
  <2>1. Content(0, size) /\ written < size
    BY <1>3 DEF FileChunk
  <2>2. WholeRead'
    BY <1>1, <2>1, WholeIsRead DEF SInv
  <2>3. CASE body'.n = 0
    <3>1. at' = "done" /\ UNCHANGED <<open, wire, header_written, deferred, announced>>
      BY <1>3, <2>3 DEF FileChunk, rwVars, connVars, txVars, writerState
    <3>2. fd'.state = "failed"
      BY <1>1, <2>1, <2>2, <2>3 DEF WholeRead
    <3> QED BY <1>1, <1>2, <3>1, <3>2 DEF Served
  <2>4. CASE body'.n # 0
    <3>1. Write(body'.n) /\ written' = written + body'.n /\ at' = at
      BY <1>3, <2>4 DEF FileChunk
    <3>2. pc' = "put" /\ asked' = asked + body'.n
          /\ UNCHANGED <<open, wire, header_written, deferred, announced>>
      BY <1>1, <3>1, WriteBehind
    <3> QED BY <1>1, <1>2, <3>1, <3>2 DEF Served
  <2> QED BY <2>3, <2>4
<1>4. CASE FileChunksEnd
  <2>1. /\ written >= size /\ at' = "done"
        /\ UNCHANGED <<open, wire, header_written, deferred, announced, asked>>
    BY <1>4 DEF FileChunksEnd, HandlerReturns, connVars, writerState
  <2> QED BY <1>1, <1>2, <2>1 DEF Served
<1> QED BY <1>3, <1>4

LEMMA WhenDone ==
  ASSUME ~Catches, IInv, SInv, Served, at \in {"loop", "done"}, StaticReturns \/ StaticWriterStep
  PROVE  Served'
<1>1. /\ UNCHANGED <<at, req, fd, size, body, written>> /\ asked \in Nat
      /\ pc # "exit"
  BY DEF StaticReturns, StaticWriterStep, fileVars, readVars, HandlerReturns, WriterStep, PutDeferred,
         PutExtra, Put, FlushNothing, FlushEmpty, FlushHead, FlushBody, HandlerThrows,
         IInv, RwTypeInv, WriterTypeOK
<1>2. CASE Announced
  <2>1. CASE StaticReturns
    <3>1. pc' = "flush" /\ at = "done"
          /\ UNCHANGED <<open, wire, header_written, deferred, announced, asked>>
      BY <2>1 DEF StaticReturns, HandlerReturns, connVars, writerState
    <3>2. Announced' /\ (Ranged' <=> Ranged)
      BY <1>1, <1>2, <3>1, SameAnnounced DEF Announced, HeadSays
    <3> QED BY <1>1, <1>2, <3>1, <3>2 DEF Served, Announced, HeadSays, Waiting
  <2>2. CASE StaticWriterStep
    <3>1. header_written /\ ~deferred.on /\ pc # "handler" /\ WriterStep
      BY <1>2, <2>2 DEF Announced, HeadSays, StaticWriterStep
    <3>2. /\ header_written' /\ ~deferred'.on /\ UNCHANGED <<announced, asked>>
          /\ \/ pc' = "exit"
             \/ pc = "put" /\ pc' = "handler"
             \/ pc = "flush" /\ pc' = "loop"
          /\ open' => open
          /\ open /\ pc' # "exit" /\ wire # <<>> =>
               wire' # <<>> /\ wire'[1].st = wire[1].st /\ wire'[1].len = wire[1].len
      BY <3>1, BehindHead
    <3>3. CASE pc' = "exit"
      BY <3>3 DEF Served
    <3>4. CASE pc' # "exit"
      <4>1. Announced' /\ (Ranged' <=> Ranged)
        BY <1>1, <1>2, <3>2, <3>4, SameAnnounced
      <4> QED BY <1>1, <1>2, <3>1, <3>2, <3>4, <4>1 DEF Served, Waiting
    <3> QED BY <3>3, <3>4
  <2> QED BY <2>1, <2>2
<1>3. CASE Waiting /\ at = "done" /\ (req.method = "HEAD" => asked = 0)
  <2>1. CASE StaticReturns
    BY <1>1, <1>3, <2>1 DEF StaticReturns, HandlerReturns, connVars, writerState, Waiting, Served
  <2>2. CASE StaticWriterStep
    BY <1>1, <1>3, <2>2, WaitingGoesOut DEF StaticWriterStep, Served
  <2> QED BY <2>1, <2>2
<1> QED BY <1>1, <1>2, <1>3 DEF Served

LEMMA FromPage ==
  ASSUME at = "page", Waiting, req.method # "HEAD", NotFoundPage
  PROVE  Served'
<1>1. Write(PageSize) /\ at' = "done" /\ req' = req
  BY DEF NotFoundPage
<1>2. /\ pc' = "put"
      /\ UNCHANGED <<header_written, deferred>>
  BY <1>1, WriteBehind DEF Waiting
<1> QED BY <1>1, <1>2 DEF Served, Waiting

(* A thread that an exception ended does nothing more. *)
LEMMA ExitStays == ASSUME SInv, pc = "exit", [StaticNext]_staticVars PROVE pc' = "exit"
<1>1. ~RwNext
  BY DEF RwNext, HandlerCall, WriterStep, PeerGone, SetHeaders, WriteHeader, WriteHeaderAgain, Write,
         InHandler, PutDeferred, PutExtra, Put, HandlerReturns, HandlerThrows, FlushNothing,
         FlushEmpty, FlushHead, FlushBody
<1> QED BY <1>1, StaticIsHandler DEF rwVars, txVars

LEMMA ServedStep ==
  ASSUME ~Catches, IInv, SInv, Served, [StaticNext]_staticVars
  PROVE  Served'
<1>1. CASE pc = "exit"
  BY <1>1, ExitStays DEF Served
<1>2. CASE pc # "exit" /\ StaticStep
  <2> USE <1>2
  <2>1. CASE Options \/ NotAllowed \/ RedirectFlat \/ RedirectDirectory \/ NotFound \/ OpenFile
    <3>1. at = "start" /\ Untold
      BY <2>1 DEF Options, NotAllowed, RedirectFlat, RedirectDirectory, NotFound, OpenFile, Readable,
                  Served
    <3> QED BY <2>1, <3>1, FromStart
  <2>2. CASE NotFoundPage
    <3>1. at = "page" /\ Waiting /\ req.method # "HEAD"
      BY <2>2 DEF NotFoundPage, Served
    <3> QED BY <2>2, <3>1, FromPage
  <2>3. CASE ReadModified \/ ReadSize
    <3>1. Untold
      BY <2>3 DEF ReadModified, ReadSize, Served
    <3> QED BY <2>3, <3>1, FromStat
  <2>4. CASE ReadPartial \/ ReadWhole \/ ReadLater
    <3>1. Untold /\ (at = "partial" => RangeOk)
      BY <2>4 DEF ReadPartial, ReadWhole, ReadLater, Served
    <3> QED BY <2>4, <3>1, FromReads
  <2>5. CASE FileHead
    <3>1. at = "head" /\ ToSend
      BY <2>5 DEF FileHead, Served
    <3> QED BY <2>5, <3>1, FromHead
  <2>6. CASE FileBody
    <3>1. /\ at = "body" /\ Announced /\ asked = 0
          /\ ~Ranged => req.method # "HEAD" /\ WholeRead
      BY <2>6 DEF FileBody, Served
    <3> QED BY <2>6, <3>1, FromBody
  <2>7. CASE FileChunk \/ FileChunksEnd
    <3>1. at = "loop" /\ Announced /\ asked = written /\ ~Ranged /\ req.method # "HEAD"
      BY <2>7 DEF FileChunk, FileChunksEnd, Served
    <3> QED BY <2>7, <3>1, FromLoop
  <2>8. CASE StaticReturns
    <3>1. at = "done"
      BY <2>8 DEF StaticReturns
    <3> QED BY <2>8, <3>1, WhenDone
  <2>9. CASE StaticWriterStep
    <3>1. at \in {"loop", "done"}
      BY <2>9 DEF StaticWriterStep, Served, Untold, ToSend
    <3> QED BY <2>9, <3>1, WhenDone
  <2> QED BY <2>1, <2>2, <2>3, <2>4, <2>5, <2>6, <2>7, <2>8, <2>9 DEF StaticStep
<1>3. CASE FileChanges \/ UNCHANGED staticVars
  <2>1. /\ UNCHANGED <<rwVars, at, req, readVars>>
        /\ fd'.state = fd.state
    BY <1>3 DEF FileChanges, FileRewritten, FileReplaced, staticVars, fileVars, SInv, StaticType
  <2> USE DEF rwVars, txVars, connVars, streamState, writerState, readVars
  <2>2. (Untold => Untold') /\ (Waiting => Waiting')
    BY <2>1 DEF Untold, Waiting
  <2>3. /\ Ranged' <=> Ranged
        /\ (RangeOk => RangeOk') /\ (RangeRead => RangeRead') /\ (WholeRead => WholeRead')
        /\ (Announced => Announced')
    BY <2>1 DEF Ranged, RangeOk, RangeEnd, RangeRead, WholeRead, Announced, HeadSays
  <2>4. ToSend => ToSend'
    BY <2>1, <2>3 DEF ToSend, Streamed
  <2>5. UNCHANGED <<pc, at, req, asked, written, announced>>
    BY <2>1
  <2> QED BY <2>1, <2>2, <2>3, <2>4, <2>5 DEF Served
<1> QED BY <1>1, <1>2, <1>3 DEF StaticNext

LEMMA ServedInit == StaticInit => Served
<1> SUFFICES ASSUME StaticInit PROVE Served
  OBVIOUS
<1> QED BY DEF StaticInit, StaticIdle, RwInit, Served, Untold

(* What the runs check of a static response follows from Served and from    *)
(* what IInv says of a connection that goes on.                             *)
LEMMA ServedSays ==
  ASSUME IInv, SInv, Served
  PROVE  StaticFramed /\ RangeAsAsked
<1> SUFFICES ASSUME Answered PROVE StaticFramed /\ RangeAsAsked
  BY DEF StaticFramed, RangeAsAsked
<1>1. at = "done" /\ pc = "loop" /\ open /\ wire # <<>>
  BY DEF Answered
<1>2. \/ Waiting /\ (req.method = "HEAD" => asked = 0)
      \/ /\ Announced
         /\ IF req.method = "HEAD" THEN Ranged \/ asked = 0
            ELSE asked >= announced \/ (~Ranged /\ fd.state = "failed")
  BY <1>1 DEF Served
<1>3. wire[1] \in ResponseType /\ asked \in Nat /\ OK # 206
  BY <1>1, SingleResponse DEF IInv, RwTypeInv, WriterTypeOK, OK
<1>4. CASE Waiting /\ (req.method = "HEAD" => asked = 0)
  <2>1. wire[1].len = asked /\ wire[1].st # 206
    BY <1>1, <1>4 DEF Waiting
  <2>2. http_keep_alive => wire[1].sent = asked
    BY <1>1, <1>3, <2>1 DEF IInv, Done
  <2> QED BY <1>4, <2>1, <2>2 DEF StaticFramed, RangeAsAsked
<1>5. CASE /\ Announced
           /\ IF req.method = "HEAD" THEN Ranged \/ asked = 0
              ELSE asked >= announced \/ (~Ranged /\ fd.state = "failed")
  <2>1. wire[1].len = announced /\ wire[1].st = (IF Ranged THEN 206 ELSE OK) /\ announced \in Nat
    BY <1>1, <1>5 DEF Announced, HeadSays, SInv, StaticType
  <2>2. http_keep_alive => wire[1].sent = IF asked <= announced THEN asked ELSE announced
    BY <1>1, <2>1 DEF IInv, Done
  <2>3. req.method = "HEAD" /\ http_keep_alive => wire[1].sent = 0 \/ wire[1].st = 206
    BY <1>3, <1>5, <2>1, <2>2
  <2>4. req.method # "HEAD" /\ http_keep_alive => wire[1].sent = wire[1].len \/ FellShort
    BY <1>3, <1>5, <2>1, <2>2 DEF FellShort, Ranged
  <2>5. wire[1].st = 206 => Ranged /\ RangeOk /\ RangeRead /\ wire[1].len = body.n
    BY <1>1, <1>3, <1>5, <2>1 DEF Announced, HeadSays
  <2> QED BY <2>3, <2>4, <2>5 DEF StaticFramed, RangeAsAsked, Ranged, RangeOk, RangeRead
<1> QED BY <1>2, <1>4, <1>5

THEOREM ServedInvariance == StaticSpec => [](IInv /\ SInv /\ Served)
<1>1. ~Catches
  BY StaticAssumption
<1>2. StaticSpec => []IInv
  BY <1>1, ServesThroughWriter, Invariance, PTL
<1>3. IInv /\ SInv /\ Served /\ [StaticNext]_staticVars => Served'
  BY <1>1, ServedStep
<1> QED BY <1>2, <1>3, StaticInvariance, ServedInit, PTL DEF StaticSpec

(* On a connection that goes on a static response has the length its head   *)
(* announced, although the file may be rewritten, replaced or removed       *)
(* between the look at its size and its reads; the exception is a whole     *)
(* file whose read fell short.                                              *)
THEOREM StaticBodyFramed == StaticSpec => []StaticFramed
<1>1. IInv /\ SInv /\ Served => StaticFramed
  BY ServedSays
<1> QED BY <1>1, ServedInvariance, PTL

(* Partial content is what the request's range asked for.                   *)
THEOREM PartialAsAsked == StaticSpec => []RangeAsAsked
<1>1. IInv /\ SInv /\ Served => RangeAsAsked
  BY ServedSays
<1> QED BY <1>1, ServedInvariance, PTL

------------------------------------------------------------------------------
(* Where requests are redirected.  flatten_path goes through a path segment *)
(* by segment; that what it leaves is left alone by another go is shown by  *)
(* the first segment it would not leave alone.                              *)

(* A set of numbers that is not empty has a least one. *)
LEMMA Least ==
  ASSUME NEW S, S \subseteq Nat, S # {}
  PROVE  \E m \in S : \A j \in S : m <= j
<1>1. PICK m \in S : \A j \in S : ~(<<j, m>> \in OpToRel(<, Nat))
  BY NatLessThanWellFounded, WFMin
<1>2. \A j \in S : ~(j < m) /\ j \in Nat /\ m \in Nat
  BY <1>1 DEF OpToRel
<1>3. \A j \in S : m <= j
  BY <1>2
<1> QED BY <1>3

(* Values that follow from each other, one for each number up to N, exist: *)
(* what a recursive definition of TLA+ stands for.                          *)
Follows(w, first, Step, N) ==
  w[0] = first /\ \A n \in 1 .. N : w[n] = Step[w[n - 1], n]

LEMMA Recursion ==
  ASSUME NEW N \in Nat, NEW T, NEW first \in T, NEW Step \in [T \X (1 .. N) -> T]
  PROVE  \E w \in [0 .. N -> T] : Follows(w, first, Step, N)
<1> DEFINE Reached(k) == \E w \in [0 .. k -> T] : Follows(w, first, Step, k)
           S == {k \in 0 .. N : ~Reached(k)}
<1>1. SUFFICES S = {}
  <2>1. N \in 0 .. N
    OBVIOUS
  <2>2. Reached(N)
    BY <1>1, <2>1
  <2> QED BY <2>2
<1>2. SUFFICES ASSUME S # {} PROVE FALSE
  OBVIOUS
<1>3. S \subseteq Nat
  OBVIOUS
<1>4. PICK m \in S : \A j \in S : m <= j
  BY <1>2, <1>3, Least
<1>5. m \in 0 .. N /\ ~Reached(m)
  BY <1>4
<1>6. CASE m = 0
  <2> DEFINE w == [n \in 0 .. 0 |-> first]
  <2>1. w \in [0 .. 0 -> T] /\ w[0] = first
    OBVIOUS
  <2>2. Follows(w, first, Step, 0)
    <3>1. 1 .. 0 = {}
      OBVIOUS
    <3> HIDE DEF w
    <3> QED BY <2>1, <3>1 DEF Follows
  <2> QED BY <1>5, <1>6, <2>1, <2>2
<1>7. CASE m # 0
  <2>1. m - 1 \in 0 .. N /\ m - 1 \in Nat /\ ~(m <= m - 1) /\ m \in 1 .. N
    BY <1>5, <1>7
  <2>2. Reached(m - 1)
    BY <1>4, <2>1
  <2>3. PICK v \in [0 .. m - 1 -> T] : Follows(v, first, Step, m - 1)
    BY <2>2
  <2> DEFINE w == [n \in 0 .. m |-> IF n = m THEN Step[v[m - 1], m] ELSE v[n]]
  <2>4. v[m - 1] \in T /\ Step[v[m - 1], m] \in T
    <3>1. m - 1 \in 0 .. m - 1
      BY <2>1
    <3>2. v[m - 1] \in T
      BY <2>3, <3>1
    <3>3. <<v[m - 1], m>> \in T \X (1 .. N)
      BY <2>1, <3>2
    <3> QED BY <3>2, <3>3
  <2>5. w \in [0 .. m -> T]
    <3>1. \A n \in 0 .. m : n # m => n \in 0 .. m - 1
      BY <2>1
    <3> QED BY <2>3, <2>4, <3>1
  <2>6. w[0] = first
    <3>1. v[0] = first
      BY <2>3 DEF Follows
    <3>2. 0 \in 0 .. m
      BY <2>1
    <3>3. w[0] = v[0]
      BY <1>7, <3>2
    <3> QED BY <3>1, <3>3
  <2>7. ASSUME NEW n \in 1 .. m PROVE w[n] = Step[w[n - 1], n]
    <3>1. n - 1 \in 0 .. m - 1 /\ n - 1 \in 0 .. m /\ n - 1 # m /\ n \in 0 .. m
      BY <2>1
    <3>2. w[n - 1] = v[n - 1]
      BY <3>1
    <3>3. CASE n = m
      BY <3>1, <3>2, <3>3
    <3>4. CASE n # m
      <4>1. n \in 1 .. m - 1 /\ w[n] = v[n]
        BY <2>1, <3>1, <3>4
      <4>2. v[n] = Step[v[n - 1], n]
        BY <2>3, <4>1 DEF Follows
      <4> QED BY <3>2, <4>1, <4>2
    <3> QED BY <3>3, <3>4
  <2>8. Follows(w, first, Step, m)
    BY <2>6, <2>7 DEF Follows
  <2> HIDE DEF w
  <2> QED BY <1>5, <2>5, <2>8
<1> QED BY <1>6, <1>7

(* A sequence with one more element *)
LEMMA Appended ==
  ASSUME NEW S, NEW q \in Seq(S), NEW e \in S
  PROVE  /\ Append(q, e) \in Seq(S) /\ Append(q, e) # <<>> /\ Append(q, e) # q
         /\ Len(Append(q, e)) = Len(q) + 1 /\ Append(q, e)[Len(q) + 1] = e
         /\ Last(Append(q, e)) = e /\ Front(Append(q, e)) = q
         /\ SubSeq(Append(q, e), 1, Len(q)) = q /\ q \o <<e>> = Append(q, e)
         /\ \A n \in 1 .. Len(q) : Append(q, e)[n] = q[n]
<1> DEFINE r == Append(q, e)
<1>1. r \in Seq(S) /\ Len(r) = Len(q) + 1 /\ r[Len(q) + 1] = e /\ Len(q) \in Nat
      /\ \A n \in 1 .. Len(q) : r[n] = q[n]
  OBVIOUS
<1>2. q \o <<e>> = r
  OBVIOUS
<1> HIDE DEF r
<1>3. r # <<>> /\ r # q
  BY <1>1
<1>4. SubSeq(r, 1, Len(q)) = q
  BY <1>1
<1>5. Last(r) = e /\ Front(r) = q
  BY <1>1, <1>4 DEF Last, Front
<1> QED BY <1>1, <1>2, <1>3, <1>4, <1>5 DEF r

(* The segments of paths: strings. (The provers do not know of a string *)
(* that it is one: the two that are used are named.)                    *)
Segments == STRING \cup {"", "index.html"}

LEMMA MoreElements ==
  ASSUME NEW S, NEW T, S \subseteq T, NEW p \in Seq(S)
  PROVE  p \in Seq(T)
<1>1. Len(p) \in Nat /\ DOMAIN p = 1 .. Len(p) /\ \A n \in 1 .. Len(p) : p[n] \in T
  OBVIOUS
<1>2. p = [n \in 1 .. Len(p) |-> p[n]]
  OBVIOUS
<1>3. p \in [1 .. Len(p) -> T]
  BY <1>1, <1>2
<1> QED BY <1>1, <1>3

LEMMA StringPaths == ASSUME NEW p \in Seq(STRING) PROVE p \in Seq(Segments)
<1>1. STRING \subseteq Segments
  BY DEF Segments
<1> QED BY <1>1, MoreElements, Zenon

(* A path with one more segment *)
Ended(r, q, e) ==
  /\ r \in Seq(Segments) /\ r # <<>> /\ r # q /\ Len(r) = Len(q) + 1 /\ Len(q) \in Nat
  /\ r[Len(q) + 1] = e /\ Last(r) = e /\ Front(r) = q
  /\ SubSeq(r, 1, Len(q)) = q /\ q \o <<e>> = r
  /\ \A n \in 1 .. Len(q) : r[n] = q[n]

LEMMA SegmentAdded ==
  ASSUME NEW q \in Seq(Segments)
  PROVE  Ended(Append(q, ""), q, "") /\ Ended(Append(q, "index.html"), q, "index.html")
<1>1. \A e \in Segments : Ended(Append(q, e), q, e)
  <2>1. Len(q) \in Nat
    OBVIOUS
  <2> QED BY <2>1, Appended DEF Ended
<1>2. "" \in Segments /\ "index.html" \in Segments
  BY DEF Segments
<1> QED BY <1>1, <1>2

(* Those that stand for a name *)
Plain == Segments \ DirMark

Walks(w, path) ==
  /\ w \in [0 .. Len(path) -> Seq(Plain)]
  /\ w[0] = <<>>
  /\ \A n \in 1 .. Len(path) : w[n] = Walk(w[n - 1], path[n])
  /\ w[Len(path)] = Names(path)

LEMMA WalkType ==
  ASSUME NEW names \in Seq(Plain), NEW seg \in Segments
  PROVE  Walk(names, seg) \in Seq(Plain)
<1>1. names # <<>> => Front(names) \in Seq(Plain)
  BY DEF Front
<1>2. CASE seg \in DirMark
  <2>1. Walk(names, seg) \in {names, Front(names)}
        /\ (Walk(names, seg) = names \/ names # <<>>)
    BY <1>2 DEF Walk, DirMark
  <2> QED BY <1>1, <2>1
<1>3. CASE seg \notin DirMark
  <2>1. seg \in Plain
    BY <1>3 DEF Plain
  <2>2. Walk(names, seg) = Append(names, seg)
    BY <1>3 DEF Walk, DirMark
  <2> QED BY <2>1, <2>2
<1> QED BY <1>2, <1>3

(* What flatten_path keeps of a path, step by step *)
LEMMA PathWalk ==
  ASSUME NEW path \in Seq(Segments)
  PROVE  \E w : Walks(w, path)
<1> DEFINE N == Len(path)
           T == Seq(Plain)
           Step == [p \in T \X (1 .. N) |-> Walk(p[1], path[p[2]])]
           Def(w) == [n \in 0 .. N |-> IF n = 0 THEN <<>> ELSE Walk(w[n - 1], path[n])]
<1>1. N \in Nat /\ <<>> \in T /\ \A n \in 1 .. N : path[n] \in Segments
  OBVIOUS
<1>2. \A names \in T, n \in 1 .. N : Walk(names, path[n]) \in T
  BY <1>1, WalkType
<1>3. Step \in [T \X (1 .. N) -> T]
  <2>1. ASSUME NEW p \in T \X (1 .. N) PROVE Walk(p[1], path[p[2]]) \in T
    <3>1. p[1] \in T /\ p[2] \in 1 .. N
      OBVIOUS
    <3> QED BY <1>2, <3>1
  <2> HIDE DEF T, N
  <2> QED BY <2>1
<1>4. \A names \in T, n \in 1 .. N : Step[names, n] = Walk(names, path[n])
  <2> HIDE DEF T, N
  <2>1. ASSUME NEW names \in T, NEW n \in 1 .. N PROVE Step[names, n] = Walk(names, path[n])
    <3>1. <<names, n>> \in T \X (1 .. N)
      OBVIOUS
    <3> QED BY <3>1
  <2> QED BY <2>1
<1> HIDE DEF Step
<1>5. PICK v \in [0 .. N -> T] : Follows(v, <<>>, Step, N)
  <2> HIDE DEF T, N
  <2> QED BY <1>1, <1>3, Recursion
<1>6. v = Def(v)
  <2> HIDE DEF T, N
  <2>1. ASSUME NEW n \in 0 .. N PROVE v[n] = Def(v)[n]
    <3>1. CASE n = 0
      BY <1>5, <3>1 DEF Follows
    <3>2. CASE n # 0
      <4>1. n \in 1 .. N /\ n - 1 \in 0 .. N
        BY <1>1, <3>2
      <4>2. v[n] = Step[v[n - 1], n] /\ v[n - 1] \in T
        BY <1>5, <4>1 DEF Follows
      <4>3. v[n] = Walk(v[n - 1], path[n])
        BY <1>4, <4>1, <4>2
      <4> QED BY <3>2, <4>3
    <3> QED BY <3>1, <3>2
  <2>2. DOMAIN v = 0 .. N /\ v = [n \in 0 .. N |-> v[n]]
    BY <1>5
  <2> HIDE DEF Def
  <2>3. Def(v) = [n \in 0 .. N |-> Def(v)[n]]
    BY DEF Def
  <2> QED BY <2>1, <2>2, <2>3
<1> DEFINE w == CHOOSE w : w = Def(w)
<1>7. w = Def(w)
  <2> HIDE DEF Def
  <2> QED BY <1>6
<1>8. Names(path) = w[N]
  BY DEF Names
<1> HIDE DEF w
<1>9. w[0] = <<>> /\ \A n \in 1 .. N : w[n] = Walk(w[n - 1], path[n])
  <2> HIDE DEF N, T
  <2>1. 0 \in 0 .. N /\ \A n \in 1 .. N : n \in 0 .. N /\ n # 0
    BY <1>1
  <2> QED BY <1>7, <2>1
<1>10. \A n \in 0 .. N : w[n] \in T
  <2> DEFINE S == {n \in 0 .. N : w[n] \notin T}
  <2> HIDE DEF N, T
  <2>1. SUFFICES ASSUME S # {} PROVE FALSE
    OBVIOUS
  <2>2. S \subseteq Nat
    BY <1>1
  <2>3. PICK m \in S : \A j \in S : m <= j
    BY <2>1, <2>2, Least
  <2>4. m \in 1 .. N /\ m - 1 \in 0 .. N /\ ~(m <= m - 1)
    BY <1>1, <1>9, <2>3
  <2>5. w[m - 1] \in T
    BY <2>3, <2>4
  <2> QED BY <1>2, <1>9, <2>3, <2>4, <2>5
<1>11. w \in [0 .. N -> T]
  <2> HIDE DEF N, T
  <2>1. w = [n \in 0 .. N |-> w[n]]
    BY <1>7
  <2> QED BY <1>10, <2>1
<1> QED BY <1>8, <1>9, <1>11 DEF Walks

(* Names are kept as they are. *)
LEMMA KeptNames ==
  ASSUME NEW path \in Seq(Segments), NEW w, Walks(w, path), NEW k \in 0 .. Len(path),
         \A n \in 1 .. k : path[n] \in Plain
  PROVE  w[k] = SubSeq(path, 1, k)
<1> DEFINE S == {n \in 0 .. k : w[n] # SubSeq(path, 1, n)}
<1>0. Len(path) \in Nat /\ k \in Nat /\ k <= Len(path)
  OBVIOUS
<1>1. SUFFICES ASSUME S # {} PROVE FALSE
  <2>1. k \in 0 .. k
    BY <1>0
  <2> QED BY <1>1, <2>1
<1>2. S \subseteq Nat
  BY <1>0
<1>3. PICK m \in S : \A j \in S : m <= j
  BY <1>1, <1>2, Least
<1>4. m \in 1 .. k /\ m - 1 \in 0 .. k /\ ~(m <= m - 1) /\ m \in 1 .. Len(path)
  <2>1. w[0] = SubSeq(path, 1, 0)
    <3>1. SubSeq(path, 1, 0) = <<>>
      OBVIOUS
    <3> QED BY <3>1 DEF Walks
  <2>2. m \in 0 .. k /\ m # 0
    BY <1>3, <2>1
  <2> QED BY <1>0, <2>2
<1>5. w[m - 1] = SubSeq(path, 1, m - 1)
  BY <1>3, <1>4
<1>6. w[m] = Append(SubSeq(path, 1, m - 1), path[m])
  <2>1. path[m] \notin DirMark
    BY <1>4 DEF Plain
  <2> QED BY <1>4, <1>5, <2>1 DEF Walks, Walk, DirMark
<1>7. Append(SubSeq(path, 1, m - 1), path[m]) = SubSeq(path, 1, m)
  BY <1>4
<1> QED BY <1>3, <1>6, <1>7

(* A path in normal form: names, and a slash at the end or not *)
Normal(path) == \E q \in Seq(Plain) : path = Append(q, "") \/ (path = q /\ q # <<>>)

LEMMA PlainSeqs ==
  ASSUME NEW q \in Seq(Plain)
  PROVE  q \in Seq(Segments) /\ Len(q) \in Nat /\ \A n \in 1 .. Len(q) : q[n] \in Plain
<1>1. \A e \in Plain : e \in Segments
  BY DEF Plain
<1>2. Len(q) \in Nat /\ DOMAIN q = 1 .. Len(q) /\ \A n \in 1 .. Len(q) : q[n] \in Plain
  OBVIOUS
<1>3. q = [n \in 1 .. Len(q) |-> q[n]]
  BY <1>2
<1>4. q \in [1 .. Len(q) -> Segments]
  BY <1>1, <1>2, <1>3
<1> QED BY <1>2, <1>4

LEMMA FlattenedIsNormal ==
  ASSUME NEW path \in Seq(Segments), path # <<>>
  PROVE  Normal(flatten_path(path))
<1>1. PICK w : Walks(w, path)
  BY PathWalk
<1>2. Len(path) \in Nat /\ Len(path) # 0 /\ path[Len(path)] \in Segments
  OBVIOUS
<1> DEFINE N == Len(path)
<1>3. N \in 1 .. N /\ N \in 0 .. N /\ N - 1 \in 0 .. N
  BY <1>2
<1>4. Names(path) \in Seq(Plain) /\ w[N - 1] \in Seq(Plain) /\ Names(path) = Walk(w[N - 1], path[N])
  BY <1>1, <1>3 DEF Walks
<1>5. CASE path[N] \in DirMark
  <2>1. flatten_path(path) = Names(path) \o <<"">>
    BY <1>5 DEF flatten_path, Last
  <2>2. Names(path) \o <<"">> = Append(Names(path), "")
    <3>1. Ended(Append(Names(path), ""), Names(path), "")
      BY <1>4, PlainSeqs, SegmentAdded
    <3> QED BY <3>1 DEF Ended
  <2> QED BY <1>4, <2>1, <2>2 DEF Normal
<1>6. CASE path[N] \notin DirMark
  <2>1. flatten_path(path) = Names(path) \o <<>> /\ Names(path) \o <<>> = Names(path)
    BY <1>4, <1>6 DEF flatten_path, Last
  <2>2. Names(path) = Append(w[N - 1], path[N])
    BY <1>4, <1>6 DEF Walk, DirMark
  <2>3. Names(path) # <<>>
    BY <1>4, <2>2
  <2> QED BY <1>4, <2>1, <2>3 DEF Normal
<1> QED BY <1>5, <1>6

LEMMA NormalIsFlat ==
  ASSUME NEW path, Normal(path)
  PROVE  flatten_path(path) = path
<1>1. PICK q \in Seq(Plain) : path = Append(q, "") \/ (path = q /\ q # <<>>)
  BY DEF Normal
<1>2. q \in Seq(Segments) /\ Len(q) \in Nat /\ \A n \in 1 .. Len(q) : q[n] \in Plain
  BY PlainSeqs
<1>3. CASE path = Append(q, "")
  <2>0. Ended(path, q, "")
    BY <1>2, <1>3, SegmentAdded
  <2>1. path \in Seq(Segments) /\ Len(path) = Len(q) + 1 /\ path[Len(q) + 1] = ""
        /\ Last(path) = "" /\ SubSeq(path, 1, Len(q)) = q /\ q \o <<"">> = path
        /\ \A n \in 1 .. Len(q) : path[n] = q[n]
    BY <2>0 DEF Ended
  <2>2. PICK w : Walks(w, path)
    BY <2>1, PathWalk
  <2>3. \A n \in 1 .. Len(q) : path[n] \in Plain
    BY <1>2, <2>1
  <2>4. Len(q) \in 0 .. Len(path) /\ Len(q) + 1 \in 1 .. Len(path) /\ (Len(q) + 1) - 1 = Len(q)
    <3>1. Len(q) \in Nat /\ Len(path) = Len(q) + 1
      BY <2>0 DEF Ended
    <3> HIDE <1>3
    <3> QED BY <3>1
  <2>5. w[Len(q)] = q
    <3>1. w[Len(q)] = SubSeq(path, 1, Len(q))
      BY <2>1, <2>2, <2>3, <2>4, KeptNames
    <3> QED BY <2>1, <3>1
  <2>6. w[Len(q) + 1] = Walk(q, "") /\ w[Len(path)] = Names(path)
    BY <2>1, <2>2, <2>4, <2>5 DEF Walks
  <2>7. Names(path) = q
    BY <2>1, <2>6 DEF Walk
  <2> QED BY <2>1, <2>7 DEF flatten_path, DirMark
<1>4. CASE path = q /\ q # <<>>
  <2>1. PICK w : Walks(w, q)
    BY <1>2, PathWalk
  <2>2. Len(q) \in 0 .. Len(q) /\ SubSeq(q, 1, Len(q)) = q
    BY <1>2
  <2>3. w[Len(q)] = q
    BY <1>2, <2>1, <2>2, KeptNames
  <2>4. Names(q) = q
    BY <2>1, <2>3 DEF Walks
  <2>5. Last(q) \notin DirMark
    BY <1>2, <1>4 DEF Last, Plain
  <2>6. q \o <<>> = q
    BY <1>2
  <2> QED BY <1>4, <2>4, <2>5, <2>6 DEF flatten_path
<1> QED BY <1>1, <1>3, <1>4

(* The page of a directory is no directory itself, so that a path which     *)
(* ends in a slash is not redirected again.                                 *)
LEMMA DirectoryPath ==
  ASSUME NEW path, Normal(path), IsDirectory(path)
  PROVE  /\ Normal(AsDirectory(path)) /\ AsDirectory(path) # path
         /\ ~IsDirectory(AsDirectory(path))
<1>1. PICK q \in Seq(Plain) : path = Append(q, "") \/ (path = q /\ q # <<>>)
  BY DEF Normal
<1>2. \A p \in Seq(Segments) : ~IsDirectory(Append(p, ""))
  <2> SUFFICES ASSUME NEW p \in Seq(Segments), IsDirectory(Append(p, "")) PROVE FALSE
    OBVIOUS
  <2> DEFINE d == Append(p, "index.html")
  <2>1. Last(Append(p, "")) = "" /\ Front(Append(p, "")) = p
    <3>1. Ended(Append(p, ""), p, "")
      BY SegmentAdded
    <3> QED BY <3>1 DEF Ended
  <2>2. d \in Dirs
    BY <2>1 DEF IsDirectory, FilePath, EndsWithSlash
  <2>3. d # <<>> /\ d[Len(d)] = "index.html"
    <3>1. Ended(d, p, "index.html")
      BY SegmentAdded
    <3>2. Len(p) \in Nat /\ d # <<>> /\ Len(d) = Len(p) + 1 /\ d[Len(p) + 1] = "index.html"
      BY <3>1 DEF Ended
    <3> HIDE DEF d
    <3> QED BY <3>2
  <2> HIDE DEF d
  <2> QED BY ZenonT(60), <2>2, <2>3, StaticAssumption
<1>3. q \in Seq(Segments)
  BY PlainSeqs
<1>4. path = q /\ q # <<>>
  BY <1>1, <1>2, <1>3
<1>5. Last(path) # ""
  <2>1. Len(q) \in Nat /\ Len(q) # 0 /\ q[Len(q)] \in Plain
    BY <1>4
  <2> QED BY <1>4, <2>1 DEF Last, Plain, DirMark
<1>6. AsDirectory(path) = Append(q, "")
  BY <1>4, <1>5 DEF AsDirectory, EndsWithSlash
<1>7. Append(q, "") # q
  <2>1. Ended(Append(q, ""), q, "")
    BY <1>3, SegmentAdded
  <2> QED BY <2>1 DEF Ended
<1> QED BY <1>2, <1>3, <1>4, <1>6, <1>7 DEF Normal

(* Where a client is sent *)
Led == location # <<>> => location # req.path /\ Normal(location)

LEMMA LedSettles == Led => RedirectsSettle
<1> SUFFICES ASSUME location # req.path, Normal(location)
             PROVE  /\ flatten_path(location) = location
                    /\ Redirected(Redirected(location)) = Redirected(location)
  BY DEF Led, RedirectsSettle
<1>1. flatten_path(location) = location
  BY NormalIsFlat
<1>2. CASE IsDirectory(location)
  <2>1. /\ Normal(AsDirectory(location)) /\ ~IsDirectory(AsDirectory(location))
    BY <1>2, DirectoryPath
  <2>2. flatten_path(AsDirectory(location)) = AsDirectory(location)
    BY <2>1, NormalIsFlat
  <2> QED BY <1>1, <1>2, <2>1, <2>2 DEF Redirected
<1>3. CASE ~IsDirectory(location)
  BY <1>1, <1>3 DEF Redirected
<1> QED BY <1>1, <1>2, <1>3

LEMMA LedInit == StaticIdle => Led
BY DEF StaticIdle, Led

LEMMA LedStep == ASSUME SInv, Led, [StaticNext]_staticVars PROVE Led'
<1>1. req \in Requests /\ req' = req
  BY DEF SInv, StaticType, StaticNext, StaticStep, Options, NotAllowed, RedirectFlat,
         RedirectDirectory, NotFound, NotFoundPage, OpenFile, ReadModified, ReadSize, ReadPartial,
         ReadWhole, ReadLater, FileHead, FileBody, FileChunk, FileChunksEnd, StaticReturns,
         StaticWriterStep, FileChanges, FileRewritten, FileReplaced, staticVars
<1>2. req.path \in Seq(Segments) /\ req.path # <<>>
  <2>1. req.path \in Seq(STRING) /\ req.path # <<>>
    BY <1>1, StaticAssumption
  <2>2. req.path \in Seq(Segments)
    BY <2>1, StringPaths
  <2> QED BY <2>1, <2>2
<1>3. CASE RedirectFlat
  <2>1. location' = flatten_path(req.path) /\ location' # req.path
    BY <1>3 DEF RedirectFlat, Flat
  <2>2. Normal(flatten_path(req.path))
    BY <1>2, FlattenedIsNormal
  <2> QED BY <1>1, <2>1, <2>2 DEF Led, Normal
<1>4. CASE RedirectDirectory
  <2>1. location' = AsDirectory(req.path) /\ IsDirectory(req.path) /\ flatten_path(req.path) = req.path
    BY <1>4 DEF RedirectDirectory, Flat
  <2>2. Normal(req.path)
    BY <1>2, <2>1, FlattenedIsNormal
  <2>3. Normal(AsDirectory(req.path)) /\ AsDirectory(req.path) # req.path
    BY <2>1, <2>2, DirectoryPath
  <2> QED BY <1>1, <2>1, <2>3 DEF Led, Normal
<1>5. CASE location' = location
  BY <1>1, <1>5 DEF Led, Normal
<1> QED
  BY <1>3, <1>4, <1>5
  DEF StaticNext, StaticStep, Options, NotAllowed, NotFound, NotFoundPage, OpenFile, ReadModified,
      ReadSize, ReadPartial, ReadWhole, ReadLater, FileHead, FileBody, FileChunk, FileChunksEnd,
      StaticReturns, StaticWriterStep, FileChanges, FileRewritten, FileReplaced, staticVars

(* A redirect leads to a path in normal form that is not the one asked for, *)
(* and from there at most one more redirect leads to an answer, for every   *)
(* set of files and directories and every path.                             *)
THEOREM RedirectsEnd == StaticSpec => []RedirectsSettle
<1>1. StaticInit => Led
  BY LedInit DEF StaticInit
<1>2. SInv /\ Led /\ [StaticNext]_staticVars => Led'
  BY LedStep
<1> QED BY <1>1, <1>2, LedSettles, StaticInvariance, PTL DEF StaticSpec

------------------------------------------------------------------------------
(* The two of them on an exchange: a user's handler leaves the static       *)
(* server alone, and the static server opens no event stream.               *)

HandlersInv ==
  IF served_by = "static"
  THEN sse = "none" /\ IInv /\ SInv /\ Served /\ Led
  ELSE EventInv /\ at = "start" /\ location = <<>>

LEMMA HandlersInitInv == HandlersInit => HandlersInv
<1> SUFFICES ASSUME HandlersInit PROVE HandlersInv
  OBVIOUS
<1>1. EventInit /\ StaticInit
  BY DEF HandlersInit, EventInit, StaticInit
<1>2. EventInv /\ IInv /\ SInv /\ Served /\ Led /\ at = "start" /\ location = <<>>
  BY <1>1, EventInitInv, StaticInitInv, InitInv, ServedInit, LedInit DEF StaticInit, StaticIdle
<1> QED BY <1>1, <1>2 DEF HandlersInv, EventInit

LEMMA HandlersStep == HandlersInv /\ [HandlersNext]_handlersVars => HandlersInv'
<1> SUFFICES ASSUME HandlersInv, [HandlersNext]_handlersVars PROVE HandlersInv'
  OBVIOUS
<1>1. ~Catches
  BY StaticAssumption
<1>2. ASSUME served_by # "static", [EventNext]_eventVars, UNCHANGED <<at, location, served_by>>
      PROVE  HandlersInv'
  BY <1>1, <1>2, EventStep DEF HandlersInv
<1>3. ASSUME served_by = "static", [StaticNext]_staticVars, UNCHANGED <<sse, served_by>>
      PROVE  HandlersInv'
  <2>1. SInv' /\ Served' /\ Led'
    BY <1>1, <1>3, StaticNextInv, ServedStep, LedStep DEF HandlersInv
  <2>2. IInv'
    BY <1>1, <1>3, StaticIsHandler, StepInv DEF HandlersInv
  <2> QED BY <1>3, <2>1, <2>2 DEF HandlersInv
<1>4. CASE UserServes
  BY <1>2, <1>4 DEF UserServes
<1>5. CASE StaticServes
  BY <1>3, <1>5 DEF StaticServes
<1>6. CASE UNCHANGED handlersVars
  BY <1>2, <1>3, <1>6 DEF handlersVars, eventVars, staticVars
<1> QED BY <1>4, <1>5, <1>6 DEF HandlersNext

THEOREM HandlersInvariance == HandlersSpec => []HandlersInv
<1> QED BY HandlersInitInv, HandlersStep, PTL DEF HandlersSpec

(* Whoever serves the request, events pass through, streams are ended and   *)
(* end their connection.                                                    *)
THEOREM HandlersStreamEvents == HandlersSpec => [](EventsPassThrough /\ StreamEnded /\ StreamEndsConn)
<1>1. HandlersInv => EventsPassThrough /\ StreamEnded /\ StreamEndsConn
  <2> SUFFICES ASSUME HandlersInv, sse # "none"
               PROVE  EventsPassThrough /\ StreamEnded /\ StreamEndsConn
    BY DEF EventsPassThrough, StreamEnded, StreamEndsConn
  <2> QED BY EventInvSays DEF HandlersInv
<1> QED BY <1>1, HandlersInvariance, PTL

(* On an exchange of either kind static replies are framed, what is sent is *)
(* not older than its last-modified, partial content is as asked for, and   *)
(* redirects end.                                                           *)
THEOREM HandlersServeFiles ==
  HandlersSpec => [](StaticFramed /\ BodyNotOlder /\ RangeAsAsked /\ RedirectsSettle)
<1>1. HandlersInv => StaticFramed /\ BodyNotOlder /\ RangeAsAsked
  <2> SUFFICES ASSUME HandlersInv, Answered
               PROVE  StaticFramed /\ BodyNotOlder /\ RangeAsAsked
    BY DEF StaticFramed, BodyNotOlder, RangeAsAsked
  <2>1. IInv /\ SInv /\ Served
    BY DEF HandlersInv, Answered
  <2> QED BY <2>1, ServedSays, NotOlder
<1>2. HandlersInv => RedirectsSettle
  BY LedSettles DEF HandlersInv, Led
<1> QED BY <1>1, <1>2, HandlersInvariance, PTL
==============================================================================
