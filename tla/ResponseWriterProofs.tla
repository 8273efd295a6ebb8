------------------------ MODULE ResponseWriterProofs ------------------------
(* Theorems about one exchange (RwSpec), for every set of handler headers,  *)
(* statuses and chunk sizes and every number of calls.                      *)
EXTENDS ResponseWriter, TLAPS

------------------------------------------------------------------------------
(* What the two kinds of send do to the wire *)

LEMMA HeadResultType ==
  ASSUME NEW r \in HeadResults
  PROVE  /\ r.whole \in BOOLEAN /\ r.res \in {"ok", "lost", "throws", "lostThrows"}
         /\ r.res = "ok" <=> r.whole
BY DEF HeadResults

LEMMA WriteResultType ==
  ASSUME NEW m \in Nat, NEW r \in WriteResults(m)
  PROVE  /\ r.sent \in Nat /\ r.sent <= m
         /\ r.res \in {"ok", "lost", "throws"}
         /\ r.res = "ok" => r.sent = m
BY DEF WriteResults

LEMMA PutHeadType ==
  ASSUME wire \in Seq(ResponseType), exchange \in Nat,
         NEW st \in Nat, NEW conn \in ConnToken, NEW len \in Nat \cup {NoLen},
         NEW r \in HeadResults, PutHead(st, conn, len, r)
  PROVE  wire' \in Seq(ResponseType) /\ open' \in BOOLEAN
<1>1. [ex |-> exchange, st |-> st, conn |-> conn, len |-> len,
       whole |-> r.whole, sent |-> 0, torn |-> r.res # "ok"] \in ResponseType
  BY HeadResultType DEF ResponseType
<1> QED BY <1>1 DEF PutHead, KeepsOpen

LEMMA AddBodyType ==
  ASSUME NEW w \in ResponseType, NEW m \in Nat, NEW r \in WriteResults(m)
  PROVE  /\ AddBody(w, r) \in ResponseType
         /\ AddBody(w, r).ex = w.ex /\ AddBody(w, r).st = w.st /\ AddBody(w, r).whole = w.whole
         /\ AddBody(w, r).len = w.len /\ AddBody(w, r).sent = w.sent + r.sent
         /\ AddBody(w, r).torn <=> w.torn \/ r.res # "ok"
<1>1. w.sent \in Nat /\ r.sent \in Nat /\ w.sent + r.sent \in Nat
  BY WriteResultType DEF ResponseType
<1>2. w.torn \in BOOLEAN /\ (w.torn \/ r.res # "ok") \in BOOLEAN
  BY DEF ResponseType
<1>3. /\ AddBody(w, r).ex = w.ex /\ AddBody(w, r).st = w.st /\ AddBody(w, r).whole = w.whole
      /\ AddBody(w, r).len = w.len /\ AddBody(w, r).sent = w.sent + r.sent
  BY DEF AddBody, ResponseType
<1>4. AddBody(w, r).torn <=> w.torn \/ r.res # "ok"
  BY <1>2, Zenon DEF AddBody, ResponseType
<1>5. AddBody(w, r) \in ResponseType
  BY <1>1, <1>2 DEF AddBody, ResponseType
<1> QED BY <1>3, <1>4, <1>5

LEMMA PutBodyType ==
  ASSUME wire \in Seq(ResponseType), exchange \in Nat,
         NEW m \in Nat, NEW r \in WriteResults(m), PutBody(r)
  PROVE  wire' \in Seq(ResponseType) /\ open' \in BOOLEAN
<1>1. r.sent \in Nat
  BY WriteResultType
<1>2. CASE HeadOnWire
  <2>1. Len(wire) \in Nat /\ Len(wire) # 0
    BY <1>2 DEF HeadOnWire
  <2>2. wire[Len(wire)] \in ResponseType
    BY <2>1
  <2>3. AddBody(wire[Len(wire)], r) \in ResponseType
    BY <2>2, AddBodyType
  <2>4. wire' = [wire EXCEPT ![Len(wire)] = AddBody(wire[Len(wire)], r)]
    BY <1>2 DEF PutBody
  <2>5. wire' \in Seq(ResponseType)
    BY <2>1, <2>3, <2>4
  <2> QED BY <2>5 DEF PutBody, KeepsOpen
<1>3. CASE ~HeadOnWire
  <2>1. [ex |-> exchange, st |-> 0, conn |-> "none", len |-> NoLen,
         whole |-> FALSE, sent |-> r.sent, torn |-> TRUE] \in ResponseType
    BY <1>1 DEF ResponseType, ConnToken
  <2> QED BY <1>3, <2>1 DEF PutBody, KeepsOpen
<1> QED BY <1>2, <1>3

------------------------------------------------------------------------------
(* Type correctness *)

LEMMA InitType == RwInit => RwTypeInv
<1> SUFFICES ASSUME RwInit PROVE RwTypeInv
  OBVIOUS
<1>1. NoHeaders \in HeaderType /\ NoDeferred \in [on : BOOLEAN, st : Nat, conn : ConnToken, size : Nat]
  BY DEF NoHeaders, HeaderType, ConnToken, NoDeferred
<1>2. ConnTypeOK
  <2>1. Len(stream) \in Nat
    BY StreamsAssumption DEF RwInit, ConnInit
  <2>2. TimevalSeconds(DefaultIoTimeout) \in Nat
    BY DEF TimevalSeconds, DefaultIoTimeout
  <2> QED BY <2>1, <2>2 DEF RwInit, ConnInit, ConnTypeOK
<1>3. WriterTypeOK
  <2>1. ops \in 0 .. MaxOps
    BY HandlerAssumption DEF RwInit
  <2>2. wire \in Seq(ResponseType)
    BY DEF RwInit
  <2>3. /\ exchange \in Nat /\ asked \in Nat /\ toWrite \in Nat
        /\ announced \in Nat \cup {NoLen} /\ body_written \in Nat /\ http_body_pending \in Nat
    BY DEF RwInit
  <2>4. hdr \in HeaderType /\ deferred \in [on : BOOLEAN, st : Nat, conn : ConnToken, size : Nat]
    BY <1>1 DEF RwInit
  <2>5. /\ header_written \in BOOLEAN /\ http_keep_alive \in BOOLEAN
        /\ raw_io \in BOOLEAN /\ stream_response \in BOOLEAN
    BY DEF RwInit
  <2> QED BY <2>1, <2>2, <2>3, <2>4, <2>5 DEF WriterTypeOK
<1> QED BY <1>2, <1>3 DEF RwInit, RwTypeInv

LEMMA HeaderTypeOK ==
  ASSUME RwTypeInv, NEW st \in Nat, NEW next \in {"handler", "put"}, Header(st, next)
  PROVE  /\ ConnTypeOK'
         /\ hdr' \in HeaderType /\ header_written' \in BOOLEAN
         /\ deferred' \in [on : BOOLEAN, st : Nat, conn : ConnToken, size : Nat]
         /\ announced' \in Nat \cup {NoLen} /\ body_written' \in Nat
         /\ http_body_pending' \in Nat
         /\ http_keep_alive' \in BOOLEAN /\ raw_io' \in BOOLEAN /\ stream_response' \in BOOLEAN
         /\ wire' \in Seq(ResponseType)
         /\ pc' \in {"handler", "put", "exit"}
<1> USE DEF RwTypeInv, ConnTypeOK, WriterTypeOK
<1>1. ConnHeader \in ConnToken /\ FramedLen \in Nat \cup {NoLen}
  BY DEF ConnHeader, FramedLen, ConnToken, HeaderType
<1>2. NoHeaders \in HeaderType
  BY DEF NoHeaders, HeaderType, ConnToken
<1>3. KeepsAlive \in BOOLEAN /\ Upgrades \in BOOLEAN /\ hdr.sse \in BOOLEAN
  BY DEF KeepsAlive, Upgrades, HeaderType
<1>4. CASE UpgradeClosed
  BY <1>4 DEF UpgradeClosed, Raise, connVars
<1>5. CASE Defer(st, next)
  BY <1>1, <1>2, <1>3, <1>5 DEF Defer, FlagStream, connVars
<1>6. CASE SendHead(st, next)
  <2>1. TimevalSeconds(RawIoReadTimeout) \in Nat
    BY DEF TimevalSeconds, RawIoReadTimeout
  <2>2. wire' \in Seq(ResponseType) /\ open' \in BOOLEAN
    BY <1>1, <1>6, PutHeadType DEF SendHead
  <2>3. pc' \in {"handler", "put", "exit"}
    BY <1>6 DEF SendHead, Raise, Continue
  <2> QED BY <1>1, <1>3, <1>6, <2>1, <2>2, <2>3 DEF SendHead, FlagStream
<1> QED BY <1>4, <1>5, <1>6 DEF Header

LEMMA NextType == RwTypeInv /\ [RwNext]_rwVars => RwTypeInv'
<1> SUFFICES ASSUME RwTypeInv, [RwNext]_rwVars PROVE RwTypeInv'
  OBVIOUS
<1> USE DEF RwTypeInv, ConnTypeOK, WriterTypeOK
<1>1. ASSUME SetHeaders PROVE RwTypeInv'
  BY <1>1, HandlerAssumption DEF SetHeaders, InHandler, connVars, streamState
<1>2. ASSUME NEW st \in Statuses, WriteHeader(st) PROVE RwTypeInv'
  <2>1. st \in Nat /\ ops' \in 0 .. MaxOps
    BY <1>2, HandlerAssumption DEF WriteHeader, InHandler
  <2> QED BY <1>2, <2>1, HeaderTypeOK DEF WriteHeader
<1>3. ASSUME WriteHeaderAgain PROVE RwTypeInv'
  BY <1>3, HandlerAssumption DEF WriteHeaderAgain, InHandler, Raise, connVars, streamState, writerState
<1>4. ASSUME NEW n \in Chunks, Write(n) PROVE RwTypeInv'
  <2>1. n \in Nat /\ ops' \in 0 .. MaxOps /\ asked' \in Nat /\ toWrite' \in Nat
    BY <1>4, HandlerAssumption DEF Write, InHandler
  <2>2. CASE header_written
    BY <1>4, <2>1, <2>2 DEF Write, connVars, streamState, writerState
  <2>3. CASE ~header_written
    <3>1. OK \in Nat /\ Header(OK, "put")
      BY <1>4, <2>3 DEF Write, OK
    <3> QED BY <1>4, <2>1, <3>1, HeaderTypeOK DEF Write
  <2> QED BY <2>2, <2>3
<1>5. ASSUME PutDeferred PROVE RwTypeInv'
  <2>1. /\ deferred.on \in BOOLEAN /\ deferred.st \in Nat /\ deferred.conn \in ConnToken
        /\ deferred.size + toWrite \in Nat
    OBVIOUS
  <2>2. deferred' \in [on : BOOLEAN, st : Nat, conn : ConnToken, size : Nat]
    BY <1>5, <2>1 DEF PutDeferred
  <2> QED BY <1>5, <2>2 DEF PutDeferred, connVars, streamState
<1>6. ASSUME PutExtra PROVE RwTypeInv'
  BY <1>6 DEF PutExtra, connVars, streamState, writerState
<1>7. ASSUME Put PROVE RwTypeInv'
  <2>1. CASE open
    <3>1. CanWrite \in Nat
      BY <1>7 DEF Put, CanWrite, NoLen
    <3>2. PICK r \in WriteResults(CanWrite) :
            /\ PutBody(r)
            /\ body_written' = body_written + (IF r.res = "ok" THEN r.sent ELSE 0)
            /\ Continue(r, "handler")
      BY <1>7, <2>1 DEF Put
    <3>3. r.sent \in Nat
      BY <3>1, WriteResultType
    <3>4. wire' \in Seq(ResponseType) /\ open' \in BOOLEAN
      BY <3>1, <3>2, PutBodyType
    <3>5. pc' \in {"handler", "exit"}
      BY <3>2 DEF Continue, Raise
    <3>6. body_written' \in Nat
      BY <3>2, <3>3
    <3> QED BY <1>7, <3>4, <3>5, <3>6 DEF Put, streamState
  <2>2. CASE ~open
    BY <1>7, <2>2 DEF Put, Raise, streamState
  <2> QED BY <2>1, <2>2
<1>8. ASSUME HandlerReturns \/ HandlerThrows PROVE RwTypeInv'
  BY <1>8 DEF HandlerReturns, HandlerThrows, connVars, streamState, writerState
<1>9. ASSUME FlushNothing PROVE RwTypeInv'
  BY <1>9 DEF FlushNothing, connVars, streamState, writerState
<1>10. ASSUME FlushEmpty PROVE RwTypeInv'
  <2>1. PICK r \in HeadResults : PutHead(OK, hdr.conn, 0, r) /\ ContinueFlush(r, after)
    BY <1>10 DEF FlushEmpty
  <2>2. OK \in Nat /\ hdr.conn \in ConnToken /\ 0 \in Nat \cup {NoLen}
    BY DEF OK, HeaderType
  <2>3. wire' \in Seq(ResponseType) /\ open' \in BOOLEAN
    BY <2>1, <2>2, PutHeadType
  <2>4. hdr' \in HeaderType
    BY <1>10 DEF FlushEmpty, HeaderType
  <2>5. pc' \in {"loop", "exit"}
    BY <2>1 DEF ContinueFlush
  <2> QED BY <1>10, <2>3, <2>4, <2>5 DEF FlushEmpty, streamState
<1>11. ASSUME FlushHead PROVE RwTypeInv'
  <2>1. CASE deferred.st \notin TableLacks
    <3>1. PICK r \in HeadResults : /\ PutHead(deferred.st, deferred.conn, deferred.size, r)
                                   /\ ContinueFlush(r, "flushBody")
      BY <1>11, <2>1 DEF FlushHead
    <3>2. wire' \in Seq(ResponseType) /\ open' \in BOOLEAN
      BY <3>1, PutHeadType
    <3>3. pc' \in {"flushBody", "exit"}
      BY <3>1 DEF ContinueFlush
    <3> QED BY <1>11, <3>2, <3>3 DEF FlushHead, streamState, writerState
  <2>2. CASE deferred.st \in TableLacks
    BY <1>11, <2>2 DEF FlushHead, streamState, writerState
  <2> QED BY <2>1, <2>2
<1>12. ASSUME FlushBody PROVE RwTypeInv'
  <2>1. CASE open
    <3>1. PICK r \in WriteResults(deferred.size) : PutBody(r) /\ ContinueFlush(r, after)
      BY <1>12, <2>1 DEF FlushBody
    <3>2. wire' \in Seq(ResponseType) /\ open' \in BOOLEAN
      BY <3>1, PutBodyType
    <3>3. pc' \in {"loop", "exit"}
      BY <3>1 DEF ContinueFlush
    <3> QED BY <1>12, <3>2, <3>3 DEF FlushBody, streamState, writerState
  <2>2. CASE ~open
    BY <1>12, <2>2 DEF FlushBody, streamState, writerState
  <2> QED BY <2>1, <2>2
<1>13. ASSUME PeerGone PROVE RwTypeInv'
  BY <1>13 DEF PeerGone, RecvClosed, CloseConn, txVars, streamState, writerState
<1>14. ASSUME UNCHANGED rwVars PROVE RwTypeInv'
  BY <1>14 DEF rwVars, txVars, connVars, streamState, writerState
<1> QED BY <1>1, <1>2, <1>3, <1>4, <1>5, <1>6, <1>7, <1>8, <1>9, <1>10, <1>11, <1>12, <1>13, <1>14
        DEF RwNext, HandlerCall, WriterStep

(* The variables of an exchange always have the types of the members they  *)
(* model, whatever the handler calls and however the sends fail.            *)
THEOREM TypeCorrect == RwSpec => []RwTypeInv
<1> QED BY InitType, NextType, PTL DEF RwSpec

------------------------------------------------------------------------------
(* The inductive invariant: with a handler that lets exceptions through,   *)
(* WriterInv and what it says of the only response on the wire.             *)

Framed ==
  wire # <<>> => /\ wire[1].len # NoLen => wire[1].sent <= wire[1].len
                 /\ wire[1].len = NoLen => ~http_keep_alive

Done ==
  pc = "loop" /\ open /\ http_keep_alive =>
    /\ wire # <<>> /\ wire[1].whole /\ ~wire[1].torn /\ wire[1].len # NoLen
    /\ wire[1].sent = IF asked <= wire[1].len THEN asked ELSE wire[1].len

IInv == RwTypeInv /\ WriterInv /\ Framed /\ Done

LEMMA SingleResponse ==
  ASSUME RwTypeInv, WriterInv, wire # <<>>
  PROVE  Len(wire) = 1 /\ wire[1] \in ResponseType /\ wire[1].ex = exchange
<1>1. wire \in Seq(ResponseType)
  BY DEF RwTypeInv, WriterTypeOK
<1>2. Len(wire) \in Nat /\ Len(wire) # 0 /\ Len(wire) <= 1
  BY <1>1 DEF WriterInv
<1>3. \A n \in Nat : n # 0 /\ n <= 1 => n = 1
  OBVIOUS
<1>4. Len(wire) = 1
  BY <1>2, <1>3
<1> QED BY <1>1, <1>4 DEF WriterInv

LEMMA InvImplies == IInv => NoOverrun /\ UnframedEndsConn /\ ExchangeComplete
<1> SUFFICES ASSUME IInv PROVE NoOverrun /\ UnframedEndsConn /\ ExchangeComplete
  OBVIOUS
<1>1. CASE wire = <<>>
  BY <1>1 DEF IInv, NoOverrun, UnframedEndsConn, ExchangeComplete, Done
<1>2. CASE wire # <<>>
  <2>1. Len(wire) = 1 /\ wire[1].ex = exchange
    BY <1>2, SingleResponse DEF IInv
  <2>2. NoOverrun /\ UnframedEndsConn
    BY <1>2, <2>1 DEF IInv, Framed, NoOverrun, UnframedEndsConn
  <2>3. ExchangeComplete
    BY <1>2, <2>1 DEF IInv, Done, ExchangeComplete, HeadOnWire
  <2> QED BY <2>2, <2>3
<1> QED BY <1>1, <1>2

LEMMA InitInv == RwInit => IInv
<1> SUFFICES ASSUME RwInit PROVE IInv
  OBVIOUS
<1>1. RwTypeInv
  BY InitType
<1>2. WriterInv
  BY DEF RwInit, WriterInv, Composing, Passed, NoDeferred
<1>3. Framed /\ Done
  BY DEF RwInit, Framed, Done
<1> QED BY <1>1, <1>2, <1>3 DEF IInv

(* The first send of a head, and a send of body bytes behind a head *)
LEMMA FirstHead ==
  ASSUME RwTypeInv, wire = <<>>,
         NEW st \in Nat, NEW conn \in ConnToken, NEW len \in Nat \cup {NoLen},
         NEW r \in HeadResults, PutHead(st, conn, len, r)
  PROVE  /\ Len(wire') = 1 /\ wire' # <<>> /\ wire'[1].ex = exchange
         /\ wire'[1].st = st /\ wire'[1].len = len /\ wire'[1].sent = 0
         /\ wire'[1].whole <=> r.res = "ok"
         /\ wire'[1].torn <=> r.res # "ok"
         /\ open' <=> r.res \in {"ok", "throws"}
<1> DEFINE h == [ex |-> exchange, st |-> st, conn |-> conn, len |-> len,
                 whole |-> r.whole, sent |-> 0, torn |-> r.res # "ok"]
<1>1. wire' = <<h>>
  BY DEF PutHead
<1>2. Len(wire') = 1 /\ wire' # <<>> /\ wire'[1] = h
  BY <1>1
<1>3. h.ex = exchange /\ h.st = st /\ h.len = len /\ h.sent = 0 /\ h.whole = r.whole
  OBVIOUS
<1>4. h.torn <=> r.res # "ok"
  OBVIOUS
<1>5. r.res = "ok" <=> r.whole
  BY HeadResultType
<1>6. open' <=> r.res \in {"ok", "throws"}
  BY DEF PutHead, KeepsOpen
<1> HIDE DEF h
<1> QED BY <1>2, <1>3, <1>4, <1>5, <1>6

LEMMA BodyAdded ==
  ASSUME RwTypeInv, WriterInv, wire # <<>>,
         NEW m \in Nat, NEW r \in WriteResults(m), PutBody(r)
  PROVE  /\ Len(wire') = 1 /\ wire' # <<>> /\ wire'[1].ex = exchange
         /\ wire'[1].st = wire[1].st /\ wire'[1].len = wire[1].len /\ wire'[1].sent = wire[1].sent + r.sent
         /\ wire'[1].whole <=> wire[1].whole
         /\ wire'[1].torn <=> wire[1].torn \/ r.res # "ok"
         /\ open' <=> r.res \in {"ok", "throws"}
<1>1. Len(wire) = 1 /\ wire[1] \in ResponseType /\ wire[1].ex = exchange
  BY SingleResponse
<1>2. wire' = [wire EXCEPT ![1] = AddBody(wire[1], r)]
  BY <1>1 DEF PutBody, HeadOnWire
<1>3. wire \in Seq(ResponseType)
  BY DEF RwTypeInv, WriterTypeOK
<1>4. Len(wire') = 1 /\ wire' # <<>> /\ wire'[1] = AddBody(wire[1], r)
  BY <1>1, <1>2, <1>3
<1>5. open' <=> r.res \in {"ok", "throws"}
  BY DEF PutBody, KeepsOpen
<1> QED BY <1>1, <1>4, <1>5, AddBodyType

(* write_header, on the way to write() or as the handler's own call *)
LEMMA HeaderInv ==
  ASSUME ~Catches, IInv, RwTypeInv', ~header_written, pc = "handler",
         NEW st \in Nat, NEW next \in {"handler", "put"}, Header(st, next),
         exchange' = exchange, pc' # "exit" => Passed' = 0, next = "put" => toWrite' <= asked'
  PROVE  WriterInv' /\ Framed' /\ Done'
<1>1. /\ wire = <<>> /\ ~deferred.on /\ announced = NoLen /\ body_written = 0
      /\ raw_io \/ stream_response => ~http_keep_alive
      /\ exchange = 1
  BY DEF IInv, WriterInv, Composing
<1>2. pc' # "loop" /\ pc' # "flush" /\ pc' # "flushBody"
  BY DEF Header, UpgradeClosed, Defer, SendHead, Continue, Raise
<1>3. Done'
  BY <1>2 DEF Done
<1>4. header_written'
  BY DEF Header, UpgradeClosed, Defer, SendHead, FlagStream
<1>5. raw_io' \/ stream_response' => ~http_keep_alive'
  BY <1>1 DEF Header, UpgradeClosed, Defer, SendHead, FlagStream, KeepsAlive
<1>6. pc' = "put" => next = "put"
  BY DEF Header, UpgradeClosed, Defer, SendHead, Continue, Raise
<1>7. CASE UpgradeClosed
  <2>1. wire' = <<>> /\ pc' = "exit"
    BY <1>1, <1>7 DEF UpgradeClosed, Raise
  <2>2. Framed'
    BY <2>1 DEF Framed
  <2>3. WriterInv'
    BY <1>1, <1>5, <2>1 DEF WriterInv
  <2> QED BY <1>3, <2>2, <2>3
<1>8. CASE Defer(st, next)
  <2>1. wire' = <<>> /\ deferred'.on /\ deferred'.size = 0 /\ pc' # "exit"
    BY <1>1, <1>8 DEF Defer
  <2>2. Framed'
    BY <2>1 DEF Framed
  <2>3. Composing'
    BY <1>4, <2>1 DEF Composing
  <2>4. WriterInv'
    BY <1>1, <1>2, <1>4, <1>5, <1>6, <2>1, <2>3 DEF WriterInv
  <2> QED BY <1>3, <2>2, <2>4
<1>9. CASE SendHead(st, next)
  <2>1. CASE st \in TableLacks \/ ~open
    <3>1. wire' = <<>> /\ pc' = "exit"
      BY <1>1, <1>9, <2>1 DEF SendHead, Raise
    <3>2. Framed'
      BY <3>1 DEF Framed
    <3>3. WriterInv'
      BY <1>1, <1>5, <3>1 DEF WriterInv
    <3> QED BY <1>3, <3>2, <3>3
  <2>2. CASE st \notin TableLacks /\ open
    <3>1. PICK r \in HeadResults : PutHead(st, ConnHeader, FramedLen, r) /\ Continue(r, next)
      BY <1>9, <2>2 DEF SendHead
    <3>2. ConnHeader \in ConnToken /\ FramedLen \in Nat \cup {NoLen}
      BY DEF IInv, RwTypeInv, WriterTypeOK, ConnHeader, FramedLen, ConnToken, HeaderType
    <3>3. /\ Len(wire') = 1 /\ wire' # <<>> /\ wire'[1].ex = exchange
          /\ wire'[1].len = FramedLen /\ wire'[1].sent = 0
          /\ wire'[1].whole <=> r.res = "ok"
          /\ wire'[1].torn <=> r.res # "ok"
          /\ open' <=> r.res \in {"ok", "throws"}
      BY <1>1, <3>1, <3>2, FirstHead DEF IInv
    <3>4. announced' = FramedLen /\ body_written' = 0 /\ ~deferred'.on
      BY <1>1, <1>9 DEF SendHead
    <3>5. r.res \in {"throws", "lostThrows"} => pc' = "exit"
      BY <3>1 DEF Continue, Returns, Raise
    <3>6. FramedLen = NoLen => ~http_keep_alive'
      BY <1>1, <1>9 DEF SendHead, FlagStream, KeepsAlive, FramedLen, Deferrable
    <3>7. Framed'
      <4>1. FramedLen # NoLen => 0 <= FramedLen
        BY <3>2
      <4> QED BY <3>3, <3>6, <4>1 DEF Framed
    <3>8. r.res \in {"ok", "lost", "throws", "lostThrows"}
      BY HeadResultType
    <3>9. pc' # "exit" => Composing'
      <4>1. FramedLen # NoLen => 0 <= FramedLen
        BY <3>2
      <4>2. pc' # "exit" /\ open' => r.res = "ok"
        BY <3>3, <3>5, <3>8
      <4> QED BY <1>4, <3>3, <3>4, <4>1, <4>2 DEF Composing
    <3>10. wire'[1].torn => ~open' \/ pc' = "exit"
      BY <3>3, <3>5, <3>8
    <3>11. WriterInv'
      BY <1>1, <1>2, <1>4, <1>5, <1>6, <3>3, <3>9, <3>10 DEF WriterInv
    <3> QED BY <1>3, <3>7, <3>11
  <2> QED BY <2>1, <2>2
<1> QED BY <1>7, <1>8, <1>9 DEF Header

(* conn.write of the rest of write() *)
LEMMA PutInv ==
  ASSUME ~Catches, IInv, RwTypeInv', Put
  PROVE  WriterInv' /\ Framed' /\ Done'
<1>1. pc = "put" /\ ~deferred.on /\ (announced = NoLen \/ body_written < announced)
  BY DEF Put
<1>2. /\ Composing /\ header_written /\ toWrite <= asked /\ exchange = 1
      /\ raw_io \/ stream_response => ~http_keep_alive
      /\ wire # <<>> => wire[1].ex = exchange /\ (wire[1].torn => ~open \/ pc = "exit")
      /\ Len(wire) <= 1
  BY <1>1 DEF IInv, WriterInv
<1>3. /\ asked \in Nat /\ toWrite \in Nat /\ body_written \in Nat
      /\ announced \in Nat \cup {NoLen}
  BY DEF IInv, RwTypeInv, WriterTypeOK
<1>4. /\ asked' = asked /\ toWrite' = toWrite /\ exchange' = exchange
      /\ header_written' = header_written /\ deferred' = deferred /\ announced' = announced
      /\ raw_io' = raw_io /\ stream_response' = stream_response
      /\ http_keep_alive' = http_keep_alive
  BY DEF Put, streamState
<1>5. CASE ~open
  <2>1. wire' = wire /\ pc' = "exit"
    BY <1>5 DEF Put, Raise
  <2>2. Framed' /\ Done'
    BY <1>4, <2>1 DEF IInv, Framed, Done
  <2>3. WriterInv'
    BY <1>2, <1>4, <2>1 DEF WriterInv
  <2> QED BY <2>2, <2>3
<1>6. CASE open
  <2>1. PICK r \in WriteResults(CanWrite) :
          /\ PutBody(r)
          /\ body_written' = body_written + (IF r.res = "ok" THEN r.sent ELSE 0)
          /\ Continue(r, "handler")
    BY <1>6 DEF Put
  <2>2. CanWrite \in Nat
    BY <1>1, <1>3 DEF CanWrite, NoLen
  <2>3. /\ r.sent \in Nat /\ r.sent <= CanWrite
        /\ r.res \in {"ok", "lost", "throws"}
        /\ r.res = "ok" => r.sent = CanWrite
    BY <2>2, WriteResultType
  <2>4. /\ wire # <<>> /\ wire[1].whole /\ ~wire[1].torn
        /\ wire[1].len = announced /\ wire[1].sent = body_written
        /\ announced # NoLen =>
             body_written = IF Passed <= announced THEN Passed ELSE announced
    BY <1>1, <1>2, <1>6 DEF Composing
  <2>5. /\ Len(wire') = 1 /\ wire' # <<>> /\ wire'[1].ex = exchange
        /\ wire'[1].len = wire[1].len /\ wire'[1].sent = wire[1].sent + r.sent
        /\ wire'[1].whole <=> wire[1].whole
        /\ wire'[1].torn <=> wire[1].torn \/ r.res # "ok"
        /\ open' <=> r.res \in {"ok", "throws"}
    BY <2>1, <2>2, <2>4, BodyAdded DEF IInv
  <2>6. pc' = IF r.res = "throws" THEN "exit" ELSE "handler"
    BY <2>1, <2>3 DEF Continue, Returns, Raise
  <2>7. announced # NoLen => body_written + CanWrite <= announced
    BY <1>1, <1>3 DEF CanWrite
  <2>8. Framed'
    <3>1. announced # NoLen => wire'[1].sent <= announced
      BY <1>3, <2>2, <2>3, <2>4, <2>5, <2>7
    <3>2. announced = NoLen => ~http_keep_alive
      BY <2>4 DEF IInv, Framed
    <3> QED BY <1>4, <2>4, <2>5, <3>1, <3>2 DEF Framed
  <2>9. Done'
    BY <2>6 DEF Done
  <2>10. r.res = "ok" => Composing'
    <3>1. Passed = asked - toWrite /\ (r.res = "ok" => Passed' = asked)
      BY <1>1, <1>4, <2>6 DEF Passed
    <3>2. announced # NoLen =>
            body_written + CanWrite = IF asked <= announced THEN asked ELSE announced
      BY <1>1, <1>2, <1>3, <2>4, <3>1 DEF CanWrite
    <3>3. r.res = "ok" => body_written' = body_written + CanWrite
      BY <2>1, <2>3
    <3> QED BY <1>1, <1>2, <1>4, <2>3, <2>4, <2>5, <3>1, <3>2, <3>3 DEF Composing
  <2>11. r.res = "lost" => Composing'
    BY <1>1, <1>2, <1>4, <2>5 DEF Composing
  <2>12. wire'[1].torn => ~open' \/ pc' = "exit"
    BY <2>3, <2>4, <2>5, <2>6
  <2>13. WriterInv'
    BY <1>2, <1>4, <2>3, <2>5, <2>6, <2>10, <2>11, <2>12 DEF WriterInv
  <2> QED BY <2>8, <2>9, <2>13
<1> QED BY <1>5, <1>6

(* flush() of a response that has no head yet, and of a deferred one *)
LEMMA FlushHeadInv ==
  ASSUME IInv, RwTypeInv', FlushEmpty \/ FlushHead
  PROVE  WriterInv' /\ Framed' /\ Done'
<1>1. pc = "flush" /\ Composing /\ exchange = 1 /\ after = "loop" /\ asked \in Nat
      /\ (raw_io \/ stream_response => ~http_keep_alive)
  BY DEF IInv, WriterInv, FlushEmpty, FlushHead, RwTypeInv, WriterTypeOK
<1>2. /\ asked' = asked /\ exchange' = exchange /\ deferred' = deferred
      /\ header_written' = header_written
      /\ raw_io' = raw_io /\ stream_response' = stream_response
      /\ http_keep_alive' = http_keep_alive
  BY DEF FlushEmpty, FlushHead, streamState, writerState
<1>3. CASE FlushEmpty
  <2>1. PICK r \in HeadResults : PutHead(OK, hdr.conn, 0, r) /\ ContinueFlush(r, after)
    BY <1>3 DEF FlushEmpty
  <2>2. wire = <<>> /\ asked = 0
    BY <1>1, <1>3 DEF FlushEmpty, Composing
  <2>3. OK \in Nat /\ hdr.conn \in ConnToken /\ 0 \in Nat \cup {NoLen}
    BY DEF OK, HeaderType, IInv, RwTypeInv, WriterTypeOK
  <2>4. /\ Len(wire') = 1 /\ wire' # <<>> /\ wire'[1].ex = exchange
        /\ wire'[1].len = 0 /\ wire'[1].sent = 0
        /\ wire'[1].whole <=> r.res = "ok"
        /\ wire'[1].torn <=> r.res # "ok"
        /\ open' <=> r.res \in {"ok", "throws"}
    BY <2>1, <2>2, <2>3, FirstHead DEF IInv
  <2>5. pc' = IF r.res \in {"ok", "lost"} THEN "loop" ELSE "exit"
    BY <1>1, <2>1 DEF ContinueFlush, Returns
  <2>6. Framed'
    BY <2>4 DEF Framed, NoLen
  <2>7. Done'
    BY <1>2, <2>2, <2>4, <2>5 DEF Done, NoLen
  <2>8. WriterInv'
    BY <1>1, <1>2, <2>4, <2>5 DEF WriterInv
  <2> QED BY <2>6, <2>7, <2>8
<1>4. CASE FlushHead
  <2>1. wire = <<>> /\ header_written /\ deferred.on /\ deferred.size = asked
    BY <1>1, <1>4 DEF FlushHead, Composing, Passed
  <2>2. CASE deferred.st \in TableLacks
    <3>1. wire' = <<>> /\ pc' = "exit"
      BY <1>4, <2>1, <2>2 DEF FlushHead
    <3> QED BY <1>1, <1>2, <3>1 DEF WriterInv, Framed, Done
  <2>3. CASE deferred.st \notin TableLacks
    <3>1. PICK r \in HeadResults : /\ PutHead(deferred.st, deferred.conn, deferred.size, r)
                                   /\ ContinueFlush(r, "flushBody")
      BY <1>4, <2>3 DEF FlushHead
    <3>2. /\ deferred.st \in Nat /\ deferred.conn \in ConnToken
          /\ deferred.size \in Nat \cup {NoLen}
      BY DEF IInv, RwTypeInv, WriterTypeOK
    <3>3. /\ Len(wire') = 1 /\ wire' # <<>> /\ wire'[1].ex = exchange
          /\ wire'[1].len = deferred.size /\ wire'[1].sent = 0
          /\ wire'[1].whole <=> r.res = "ok"
          /\ wire'[1].torn <=> r.res # "ok"
          /\ open' <=> r.res \in {"ok", "throws"}
      BY ZenonT(60), <2>1, <3>1, <3>2, FirstHead DEF IInv
    <3>4. pc' = IF r.res \in {"ok", "lost"} THEN "flushBody" ELSE "exit"
      BY <3>1 DEF ContinueFlush, Returns
    <3>5. asked # NoLen /\ 0 <= asked
      BY <1>1 DEF NoLen
    <3>6. Framed' /\ Done'
      BY <2>1, <3>3, <3>4, <3>5 DEF Framed, Done
    <3>7. WriterInv'
      BY <1>1, <1>2, <2>1, <3>3, <3>4 DEF WriterInv
    <3> QED BY <3>6, <3>7
  <2> QED BY <2>2, <2>3
<1> QED BY <1>3, <1>4

(* flush() sends the body it kept *)
LEMMA FlushBodyInv ==
  ASSUME IInv, RwTypeInv', FlushBody
  PROVE  WriterInv' /\ Framed' /\ Done'
<1>1. /\ pc = "flushBody" /\ exchange = 1 /\ after = "loop" /\ asked \in Nat
      /\ header_written /\ deferred.on /\ deferred.size = asked
      /\ (raw_io \/ stream_response => ~http_keep_alive)
      /\ wire # <<>> => wire[1].ex = exchange
      /\ Len(wire) <= 1
  BY DEF IInv, WriterInv, FlushBody, RwTypeInv, WriterTypeOK
<1>2. /\ asked' = asked /\ exchange' = exchange /\ deferred' = deferred
      /\ header_written' = header_written
      /\ raw_io' = raw_io /\ stream_response' = stream_response
      /\ http_keep_alive' = http_keep_alive
  BY DEF FlushBody, streamState, writerState
<1>3. CASE ~open
  <2>1. wire' = wire /\ pc' = "exit"
    BY <1>3 DEF FlushBody
  <2> QED BY <1>1, <1>2, <2>1 DEF WriterInv, Framed, Done, IInv
<1>4. CASE open
  <2>1. /\ wire # <<>> /\ wire[1].whole /\ ~wire[1].torn
        /\ wire[1].len = asked /\ wire[1].sent = 0
    BY <1>1, <1>4 DEF IInv, WriterInv
  <2>2. PICK r \in WriteResults(deferred.size) : PutBody(r) /\ ContinueFlush(r, after)
    BY <1>4 DEF FlushBody
  <2>3. /\ r.sent \in Nat /\ r.sent <= asked /\ r.res \in {"ok", "lost", "throws"}
        /\ r.res = "ok" => r.sent = asked
    BY <1>1, WriteResultType
  <2>4. /\ Len(wire') = 1 /\ wire' # <<>> /\ wire'[1].ex = exchange
        /\ wire'[1].len = wire[1].len /\ wire'[1].sent = wire[1].sent + r.sent
        /\ wire'[1].whole <=> wire[1].whole
        /\ wire'[1].torn <=> wire[1].torn \/ r.res # "ok"
        /\ open' <=> r.res \in {"ok", "throws"}
    BY <1>1, <2>1, <2>2, BodyAdded DEF IInv
  <2>5. pc' = IF r.res \in {"ok", "lost"} THEN "loop" ELSE "exit"
    BY <1>1, <2>2 DEF ContinueFlush, Returns
  <2>6. wire'[1].sent = r.sent
    BY <2>1, <2>3, <2>4
  <2>7. asked # NoLen
    BY <1>1 DEF NoLen
  <2>8. Framed'
    BY <2>1, <2>3, <2>4, <2>6, <2>7 DEF Framed
  <2>9. Done'
    <3>1. asked <= asked
      BY <1>1
    <3> QED BY <1>2, <2>1, <2>3, <2>4, <2>5, <2>6, <2>7, <3>1 DEF Done
  <2>10. wire'[1].torn => ~open' \/ pc' = "exit"
    BY <2>1, <2>3, <2>4, <2>5
  <2>11. WriterInv'
    BY <1>1, <1>2, <2>4, <2>5, <2>10 DEF WriterInv
  <2> QED BY <2>8, <2>9, <2>11
<1> QED BY <1>3, <1>4

(* The steps that send nothing *)
LEMMA QuietInv ==
  ASSUME ~Catches, IInv, RwTypeInv',
         SetHeaders \/ WriteHeaderAgain \/ PutDeferred \/ PutExtra \/ HandlerReturns
           \/ HandlerThrows \/ FlushNothing \/ PeerGone \/ UNCHANGED rwVars
  PROVE  WriterInv' /\ Framed' /\ Done'
<1> USE DEF IInv, Framed
<1>1. asked \in Nat /\ toWrite \in Nat /\ body_written \in Nat /\ announced \in Nat \cup {NoLen}
  BY DEF RwTypeInv, WriterTypeOK
<1>2. CASE SetHeaders
  BY <1>2 DEF SetHeaders, InHandler, connVars, streamState, WriterInv, Composing, Passed, Done
<1>3. CASE WriteHeaderAgain
  BY <1>3 DEF WriteHeaderAgain, InHandler, Raise, connVars, streamState, writerState, WriterInv, Done
<1>4. CASE PutDeferred
  <2>1. deferred'.on /\ deferred'.size = deferred.size + toWrite
    BY <1>4 DEF PutDeferred, RwTypeInv, WriterTypeOK
  <2>2. pc = "put" /\ header_written /\ wire = <<>> /\ deferred.size = asked - toWrite
    BY <1>4 DEF PutDeferred, WriterInv, Composing, Passed
  <2>3. /\ pc' = "handler" /\ wire' = wire /\ asked' = asked /\ exchange' = exchange
        /\ header_written' = header_written
        /\ raw_io' = raw_io /\ stream_response' = stream_response
        /\ http_keep_alive' = http_keep_alive
    BY <1>4 DEF PutDeferred, connVars, streamState
  <2>4. Passed' = asked /\ deferred'.size = asked
    BY <1>1, <2>1, <2>2, <2>3 DEF Passed
  <2>5. Composing'
    BY <2>1, <2>2, <2>3, <2>4 DEF Composing
  <2> QED BY <2>2, <2>3, <2>5 DEF WriterInv, Done
<1>5. CASE PutExtra
  <2>1. /\ pc = "put" /\ ~deferred.on /\ announced # NoLen /\ body_written >= announced
        /\ Composing /\ header_written /\ toWrite <= asked
    BY <1>5 DEF PutExtra, WriterInv
  <2>2. /\ pc' = "handler" /\ wire' = wire /\ asked' = asked /\ exchange' = exchange
        /\ open' = open /\ header_written' = header_written /\ deferred' = deferred
        /\ announced' = announced /\ body_written' = body_written
        /\ raw_io' = raw_io /\ stream_response' = stream_response
        /\ http_keep_alive' = http_keep_alive
    BY <1>5 DEF PutExtra, connVars, streamState, writerState
  <2>3. Passed = asked - toWrite /\ Passed' = asked
    BY <2>1, <2>2 DEF Passed
  <2>4. open => body_written = IF asked <= announced THEN asked ELSE announced
    BY <1>1, <2>1, <2>3 DEF Composing
  <2>5. Composing'
    BY <2>1, <2>2, <2>3, <2>4 DEF Composing
  <2> QED BY <2>2, <2>1, <2>5 DEF WriterInv, Done
<1>6. CASE HandlerReturns
  BY <1>6 DEF HandlerReturns, connVars, streamState, writerState, WriterInv, Composing, Passed, Done
<1>7. CASE HandlerThrows
  BY <1>7 DEF HandlerThrows, connVars, streamState, writerState, WriterInv, Done
<1>8. CASE FlushNothing
  <2>1. pc = "flush" /\ pc' = "loop" /\ Composing
    BY <1>8 DEF FlushNothing, RwTypeInv, WriterInv
  <2>2. /\ wire' = wire /\ asked' = asked /\ exchange' = exchange /\ open' = open
        /\ raw_io' = raw_io /\ stream_response' = stream_response
        /\ http_keep_alive' = http_keep_alive
    BY <1>8 DEF FlushNothing, connVars, streamState
  <2>3. WriterInv'
    BY <2>1, <2>2 DEF WriterInv
  <2>4. open => /\ wire # <<>> /\ wire[1].whole /\ ~wire[1].torn /\ wire[1].len = announced
                /\ announced # NoLen =>
                     wire[1].sent = IF asked <= announced THEN asked ELSE announced
    BY <1>8, <2>1 DEF FlushNothing, Composing, Passed
  <2>5. Done'
    BY <2>1, <2>2, <2>4 DEF Done
  <2> QED BY <2>2, <2>3, <2>5
<1>9. CASE PeerGone
  BY <1>9 DEF PeerGone, RecvClosed, CloseConn, txVars, streamState, writerState,
              WriterInv, Composing, Passed, Done
<1>10. CASE UNCHANGED rwVars
  BY <1>10 DEF rwVars, txVars, connVars, streamState, writerState,
               WriterInv, Composing, Passed, Done
<1> QED BY <1>2, <1>3, <1>4, <1>5, <1>6, <1>7, <1>8, <1>9, <1>10

LEMMA StepInv == ASSUME ~Catches PROVE IInv /\ [RwNext]_rwVars => IInv'
<1> SUFFICES ASSUME IInv, [RwNext]_rwVars PROVE IInv'
  OBVIOUS
<1>1. RwTypeInv'
  BY NextType DEF IInv
<1>2. ASSUME NEW st \in Statuses, WriteHeader(st) PROVE IInv'
  <2>1. st \in Nat /\ ~header_written /\ pc = "handler" /\ exchange' = exchange
    BY <1>2, HandlerAssumption DEF WriteHeader, InHandler
  <2>2. asked = 0 /\ asked' = asked
    BY <1>2, <2>1 DEF WriteHeader, IInv, WriterInv, Composing
  <2>3. pc' # "put"
    BY <1>2 DEF WriteHeader, Header, UpgradeClosed, Defer, SendHead, Continue, Raise
  <2>4. Passed' = 0
    BY <2>2, <2>3 DEF Passed
  <2> QED BY <1>1, <1>2, <2>1, <2>4, HeaderInv DEF WriteHeader, IInv
<1>3. ASSUME NEW n \in Chunks, Write(n) PROVE IInv'
  <2>1. /\ n \in Nat /\ pc = "handler" /\ exchange' = exchange
        /\ toWrite' = n /\ asked' = asked + n /\ asked \in Nat
    BY <1>3, HandlerAssumption DEF Write, InHandler, IInv, RwTypeInv, WriterTypeOK
  <2>2. toWrite' <= asked' /\ asked' - toWrite' = asked
    BY <2>1
  <2>3. CASE header_written
    <3>1. /\ pc' = "put" /\ wire' = wire /\ open' = open
          /\ header_written' = header_written /\ deferred' = deferred
          /\ announced' = announced /\ body_written' = body_written
          /\ raw_io' = raw_io /\ stream_response' = stream_response
          /\ http_keep_alive' = http_keep_alive
      BY <1>3, <2>3 DEF Write, connVars, streamState, writerState
    <3>2. Passed = asked /\ Passed' = asked
      BY <2>1, <2>2, <3>1 DEF Passed
    <3>3. Composing
      BY <2>1 DEF IInv, WriterInv
    <3>4. Composing'
      BY <2>3, <3>1, <3>2, <3>3 DEF Composing
    <3>5. WriterInv'
      BY <2>1, <2>2, <2>3, <3>1, <3>4 DEF IInv, WriterInv
    <3>6. Framed' /\ Done'
      BY <3>1 DEF IInv, Framed, Done
    <3> QED BY <1>1, <3>5, <3>6 DEF IInv
  <2>4. CASE ~header_written
    <3>1. OK \in Nat /\ Header(OK, "put")
      BY <1>3, <2>4 DEF Write, OK
    <3>2. asked = 0
      BY <2>1, <2>4 DEF IInv, WriterInv, Composing
    <3>3. pc' \in {"put", "exit"}
      BY <3>1 DEF Header, UpgradeClosed, Defer, SendHead, Continue, Raise
    <3>4. pc' # "exit" => Passed' = 0
      BY <2>2, <3>2, <3>3 DEF Passed
    <3> QED BY <1>1, <2>1, <2>2, <2>4, <3>1, <3>4, HeaderInv DEF IInv
  <2> QED BY <2>3, <2>4
<1>4. ASSUME Put PROVE IInv'
  BY <1>1, <1>4, PutInv DEF IInv
<1>5. ASSUME FlushEmpty \/ FlushHead PROVE IInv'
  BY <1>1, <1>5, FlushHeadInv DEF IInv
<1>6. ASSUME FlushBody PROVE IInv'
  BY <1>1, <1>6, FlushBodyInv DEF IInv
<1>7. ASSUME SetHeaders \/ WriteHeaderAgain \/ PutDeferred \/ PutExtra \/ HandlerReturns
               \/ HandlerThrows \/ FlushNothing \/ PeerGone \/ UNCHANGED rwVars
      PROVE  IInv'
  BY <1>1, <1>7, QuietInv DEF IInv
<1> QED BY <1>2, <1>3, <1>4, <1>5, <1>6, <1>7 DEF RwNext, HandlerCall, WriterStep

THEOREM Invariance == ASSUME ~Catches PROVE RwSpec => []IInv
<1> QED BY InitInv, StepInv, PTL DEF RwSpec

(* The peer never gets more body bytes than the content-length it was told, *)
(* provided the handler does not carry on after an exception of write().    *)
THEOREM ContentLengthRespected == ASSUME ~Catches PROVE RwSpec => []NoOverrun
<1> QED BY Invariance, InvImplies, PTL

(* The exchange has one head, whichever of write_header(), the first        *)
(* write() and flush() comes to send it.                                    *)
THEOREM HeadIsSingle == ASSUME ~Catches PROVE RwSpec => []OneHead
<1>1. IInv => OneHead
  <2> SUFFICES ASSUME IInv, NEW i \in 2 .. Len(wire) PROVE FALSE
    BY DEF OneHead
  <2>1. Len(wire) \in Nat /\ Len(wire) <= 1
    BY DEF IInv, RwTypeInv, WriterTypeOK, WriterInv
  <2> QED BY <2>1
<1> QED BY <1>1, Invariance, PTL

(* A response without a content-length is the last one of its connection.   *)
THEOREM UnframedIsLast == ASSUME ~Catches PROVE RwSpec => []UnframedEndsConn
<1> QED BY Invariance, InvImplies, PTL

(* A connection that goes on has one whole, framed response to the request, *)
(* with exactly the bytes the handler wrote up to its content-length.       *)
THEOREM KeptAliveIsComplete == ASSUME ~Catches PROVE RwSpec => []ExchangeComplete
<1> QED BY Invariance, InvImplies, PTL

(* Nothing is sent behind a response that a failed send cut short.          *)
THEOREM TearIsFinal == ASSUME ~Catches PROVE RwSpec => SilentAfterTear
<1> DEFINE Torn == \E i \in 1 .. Len(wire) : wire[i].torn
<1>1. ASSUME IInv, RwNext, Torn PROVE wire' = wire
  <2>1. wire # <<>> /\ wire[1].torn /\ (~open \/ pc = "exit")
    <3>1. wire # <<>>
      BY <1>1
    <3>2. Len(wire) = 1
      BY <1>1, <3>1, SingleResponse DEF IInv
    <3>3. wire[1].torn
      BY <1>1, <3>2
    <3> QED BY <1>1, <3>1, <3>3 DEF IInv, WriterInv
  <2>2. pc \in {"handler", "put", "flush"} /\ ~header_written => wire = <<>>
    BY <1>1 DEF IInv, WriterInv, Composing
  <2>3. pc \in {"handler", "put", "flush"} /\ deferred.on => wire = <<>>
    BY <1>1 DEF IInv, WriterInv, Composing
  <2>4. CASE HandlerCall
    <3>1. pc = "handler"
      BY <2>4 DEF HandlerCall, SetHeaders, WriteHeader, WriteHeaderAgain, Write, InHandler
    <3>2. header_written
      BY <2>1, <2>2, <3>1
    <3> QED BY <2>4, <3>2 DEF HandlerCall, SetHeaders, WriteHeader, WriteHeaderAgain, Write
  <2>5. CASE WriterStep
    <3>1. ~Put \/ wire' = wire
      BY <2>1 DEF Put
    <3>2. ~FlushEmpty /\ ~FlushHead
      BY <2>1, <2>2, <2>3 DEF FlushEmpty, FlushHead
    <3>3. ~FlushBody \/ wire' = wire
      BY <2>1 DEF FlushBody
    <3> QED BY <2>5, <3>1, <3>2, <3>3
            DEF WriterStep, PutDeferred, PutExtra, HandlerReturns, HandlerThrows, FlushNothing
  <2>6. CASE PeerGone
    BY <2>6 DEF PeerGone, txVars
  <2> QED BY <1>1, <2>4, <2>5, <2>6 DEF RwNext
<1>2. IInv /\ [RwNext]_rwVars => [Torn => wire' = wire]_rwVars
  BY <1>1
<1>3. RwSpec => []IInv
  BY Invariance
<1> QED BY <1>2, <1>3, PTL DEF RwSpec, SilentAfterTear
==============================================================================
