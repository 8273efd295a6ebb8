-------------------------- MODULE H1PipelineProofs --------------------------
(* Theorems about a connection's thread (H1Pipeline), for every peer, every *)
(* set of handler headers, statuses and sizes, and every buffer size.       *)
EXTENDS H1Pipeline, ResponseWriterProofs, SequenceTheorems

(* The steps, one by one *)
LEMMA Steps ==
  ASSUME [Next]_vars
  PROVE  \/ LoopEnds \/ LoopAgain \/ DiscardRecv \/ RecvThrows
         \/ HeadAborted \/ HeadOnClosed \/ HeadTooBig \/ HeadNeedsMore \/ HeadRecv
         \/ \E e \in LineEnds : \/ RequestLineInvalid(e) \/ RequestLineThrows(e) \/ RequestLine(e)
                                \/ HeaderLine(e) \/ HeadComplete(e)
         \/ DropMutation \/ CallHandler
         \/ BodyReadNothing \/ BodyRecv
         \/ \E size \in BodyReads : BodyReadBuffered(size) \/ BodyReadSocket(size)
         \/ (HandlerCall \/ WriterStep) /\ UNCHANGED <<rxVars, exitVars>>
         \/ CloseRejected \/ ThreadEnds \/ Shutdown \/ Restart
         \/ UNCHANGED vars
BY DEF Next, ThreadStep, RequestRead, BodyRead, Respond, Recv

------------------------------------------------------------------------------
(* After an upgrade: keep-alive is off, and no body waits to be discarded. *)

RawInv ==
  /\ raw_io => ~http_keep_alive
  /\ pc = "discardRecv" => ~raw_io
  /\ after \in {"loop", "close"}

LEMMA HeaderRaw ==
  ASSUME RawInv, NEW st, NEW next \in {"handler", "put"}, Header(st, next), after' = after
  PROVE  RawInv'
<1>1. pc' \in {"handler", "put", "exit"}
  BY DEF Header, UpgradeClosed, Defer, SendHead, Raise, Continue
<1>2. \/ raw_io' /\ ~http_keep_alive'
      \/ raw_io' = (raw_io \/ Upgrades) /\ http_keep_alive' = KeepsAlive
  BY DEF Header, UpgradeClosed, Defer, SendHead, FlagStream
<1> QED BY <1>1, <1>2, Zenon DEF RawInv, KeepsAlive

LEMMA RespondRaw ==
  ASSUME RawInv, HandlerCall \/ WriterStep
  PROVE  RawInv' /\ exchange' = exchange
<1>1. ASSUME SetHeaders \/ WriteHeaderAgain PROVE RawInv' /\ exchange' = exchange
  BY <1>1 DEF SetHeaders, WriteHeaderAgain, InHandler, Raise, RawInv, streamState
<1>2. ASSUME NEW st \in Statuses, WriteHeader(st) PROVE RawInv' /\ exchange' = exchange
  BY <1>2, HeaderRaw DEF WriteHeader
<1>3. ASSUME NEW n \in Chunks, Write(n) PROVE RawInv' /\ exchange' = exchange
  <2>1. CASE header_written
    BY <1>3, <2>1 DEF Write, RawInv, streamState
  <2>2. CASE ~header_written
    BY <1>3, <2>2, HeaderRaw DEF Write
  <2> QED BY <2>1, <2>2
<1>4. ASSUME WriterStep PROVE RawInv' /\ exchange' = exchange
  <2>1. UNCHANGED <<exchange, after, raw_io, http_keep_alive>>
    BY <1>4 DEF WriterStep, PutDeferred, PutExtra, Put, HandlerReturns, HandlerThrows,
                FlushNothing, FlushEmpty, FlushHead, FlushBody, streamState
  <2>2. pc' \in {"handler", "exit", "flush", "flushBody", after}
    BY <1>4 DEF WriterStep, PutDeferred, PutExtra, Put, HandlerReturns, HandlerThrows,
                FlushNothing, FlushEmpty, FlushHead, FlushBody, Raise, Continue, ContinueFlush
  <2> QED BY <2>1, <2>2 DEF RawInv
<1> QED BY <1>1, <1>2, <1>3, <1>4 DEF HandlerCall

LEMMA RawStep == RawInv /\ [Next]_vars => RawInv' /\ (raw_io => exchange' = exchange)
<1> SUFFICES ASSUME RawInv, [Next]_vars PROVE RawInv' /\ (raw_io => exchange' = exchange)
  OBVIOUS
<1> USE DEF RawInv, streamState
<1>1. ASSUME LoopEnds \/ HeadAborted \/ HeadOnClosed \/ HeadNeedsMore
      PROVE RawInv' /\ exchange' = exchange
  BY <1>1 DEF LoopEnds, HeadAborted, HeadOnClosed, HeadNeedsMore
<1>2. ASSUME LoopAgain PROVE RawInv' /\ (raw_io => exchange' = exchange)
  BY <1>2 DEF LoopAgain, StartExchange
<1>3. ASSUME DiscardRecv PROVE RawInv' /\ (raw_io => exchange' = exchange)
  BY <1>3 DEF DiscardRecv, StartExchange
<1>4. ASSUME RecvThrows \/ HeadRecv \/ BodyRecv PROVE RawInv' /\ exchange' = exchange
  BY <1>4 DEF RecvThrows, HeadRecv, BodyRecv, Raise
<1>5. ASSUME HeadTooBig PROVE RawInv' /\ exchange' = exchange
  BY <1>5 DEF HeadTooBig, Reject
<1>6. ASSUME NEW e \in LineEnds,
             \/ RequestLineInvalid(e) \/ RequestLineThrows(e) \/ RequestLine(e)
             \/ HeaderLine(e) \/ HeadComplete(e)
      PROVE RawInv' /\ exchange' = exchange
  BY <1>6 DEF RequestLineInvalid, RequestLineThrows, RequestLine, HeaderLine, HeadComplete, Reject
<1>7. ASSUME DropMutation \/ CallHandler PROVE RawInv' /\ exchange' = exchange
  <2>1. http_keep_alive' => http_keep_alive
    BY <1>7, Zenon DEF DropMutation, CallHandler
  <2>2. pc' # "discardRecv" /\ after' = "loop" /\ UNCHANGED <<raw_io, exchange>>
    BY <1>7 DEF DropMutation, CallHandler
  <2> QED BY <2>1, <2>2
<1>8. ASSUME \/ BodyReadNothing
             \/ \E size \in BodyReads : BodyReadBuffered(size) \/ BodyReadSocket(size)
      PROVE RawInv' /\ exchange' = exchange
  BY <1>8 DEF BodyReadNothing, BodyReadBuffered, BodyReadSocket, InHandler
<1>9. ASSUME CloseRejected \/ ThreadEnds \/ Shutdown \/ Restart \/ UNCHANGED vars
      PROVE RawInv' /\ exchange' = exchange
  BY <1>9 DEF CloseRejected, ThreadEnds, Shutdown, Restart, vars, txVars
<1> QED BY <1>1, <1>2, <1>3, <1>4, <1>5, <1>6, <1>7, <1>8, <1>9, RespondRaw, Steps

LEMMA RawInit == Init => RawInv
BY DEF Init, RawInv

THEOREM RawInvariance == Spec => []RawInv
BY RawInit, RawStep, PTL DEF Spec

(* After an upgrade no further request is read from the connection. *)
THEOREM UpgradeIsLast == Spec => RawIsLast
<1>1. RawInv /\ [Next]_vars => [raw_io => exchange' = exchange]_vars
  BY RawStep
<1> QED BY <1>1, RawInvariance, PTL DEF Spec, RawIsLast

------------------------------------------------------------------------------
(* From the end of the head on, and as long as the connection may serve     *)
(* another exchange after it, the head is complete or a shutdown cut it     *)
(* short; and the flag that cut it stays up until the server is restarted.  *)

Known == head.complete \/ cut # NoCut

CutInv ==
  /\ DOMAIN head = DOMAIN EmptyHead
  /\ after \in {"loop", "close"}
  /\ pc \in {"serve", "handler", "bodyRecv", "put"} => Known
  /\ pc \in {"flush", "flushBody"} /\ after = "loop" => Known
  /\ pc = "loop" /\ open /\ wire # <<>> => Known
  /\ pc = "discardRecv" /\ wire # <<>> => Known
  /\ restarts \in Nat /\ cut \in Int /\ cut <= restarts
  /\ cut = restarts => done /\ pc # "discardRecv"

LEMMA HeaderGoes ==
  ASSUME NEW st, NEW next \in {"handler", "put"}, Header(st, next)
  PROVE  pc' \in {"handler", "put", "exit"}
BY DEF Header, UpgradeClosed, Defer, SendHead, Raise, Continue

LEMMA RespondCut ==
  ASSUME CutInv, HandlerCall \/ WriterStep, UNCHANGED <<rxVars, exitVars>>
  PROVE  CutInv'
<1> USE DEF CutInv, Known, NoCut, rxVars, exitVars
<1>1. ASSUME HandlerCall PROVE CutInv'
  <2>1. pc = "handler" /\ after' = after /\ pc' \in {"handler", "put", "exit"}
    BY <1>1, HeaderGoes DEF HandlerCall, SetHeaders, WriteHeader, WriteHeaderAgain, Write,
                            InHandler, Raise
  <2> QED BY <2>1
<1>2. ASSUME PutDeferred \/ PutExtra \/ Put \/ HandlerReturns \/ HandlerThrows PROVE CutInv'
  <2>1. /\ pc \in {"handler", "put"} /\ after' = after
        /\ pc' \in {"handler", "flush", "exit"}
    BY <1>2 DEF PutDeferred, PutExtra, Put, HandlerReturns, HandlerThrows, Raise, Continue
  <2> QED BY <2>1
<1>3. ASSUME FlushNothing \/ FlushEmpty \/ FlushHead \/ FlushBody PROVE CutInv'
  <2>1. /\ pc \in {"flush", "flushBody"} /\ after' = after
        /\ pc' \in {after, "flushBody", "exit"}
    BY <1>3 DEF FlushNothing, FlushEmpty, FlushHead, FlushBody, ContinueFlush
  <2> QED BY <2>1
<1> QED BY <1>1, <1>2, <1>3 DEF WriterStep

LEMMA CutStep == CutInv /\ [Next]_vars => CutInv'
<1> SUFFICES ASSUME CutInv, [Next]_vars PROVE CutInv'
  OBVIOUS
<1> USE DEF CutInv, Known, NoCut, rxVars, exitVars
<1>1. ASSUME LoopEnds \/ HeadAborted \/ HeadOnClosed \/ HeadNeedsMore PROVE CutInv'
  BY <1>1 DEF LoopEnds, HeadAborted, HeadOnClosed, HeadNeedsMore, connVars
<1>2. ASSUME LoopAgain PROVE CutInv'
  BY <1>2 DEF LoopAgain, StartExchange
<1>3. ASSUME DiscardRecv PROVE CutInv'
  BY <1>3 DEF DiscardRecv, StartExchange
<1>4. ASSUME RecvThrows \/ HeadRecv \/ BodyRecv PROVE CutInv'
  BY <1>4 DEF RecvThrows, HeadRecv, BodyRecv, Raise, CloseConn, RecvClosed
<1>5. ASSUME HeadTooBig PROVE CutInv'
  BY <1>5 DEF HeadTooBig, Reject
<1>6. ASSUME NEW e \in LineEnds, RequestLineInvalid(e) \/ RequestLineThrows(e)
      PROVE CutInv'
  BY <1>6 DEF RequestLineInvalid, RequestLineThrows, Reject
<1>7. ASSUME NEW e \in LineEnds, RequestLine(e) \/ HeaderLine(e) PROVE CutInv'
  <2>1. DOMAIN head' = DOMAIN head
    BY <1>7 DEF RequestLine, HeaderLine, AddHeader
  <2>2. pc = "head" /\ UNCHANGED <<pc, after, exitVars>>
    BY <1>7 DEF RequestLine, HeaderLine, Scanning
  <2> QED BY <2>1, <2>2
<1>8. ASSUME NEW e \in LineEnds, HeadComplete(e) PROVE CutInv'
  <2>1. "complete" \in DOMAIN head
    BY DEF EmptyHead
  <2>2. DOMAIN head' = DOMAIN head /\ head'.complete = TRUE
    BY <1>8, <2>1 DEF HeadComplete
  <2> QED BY <1>8, <2>2 DEF HeadComplete
<1>9. ASSUME DropMutation \/ CallHandler PROVE CutInv'
  BY <1>9 DEF DropMutation, CallHandler
<1>10. ASSUME \/ BodyReadNothing
              \/ \E size \in BodyReads : BodyReadBuffered(size) \/ BodyReadSocket(size)
       PROVE CutInv'
  BY <1>10 DEF BodyReadNothing, BodyReadBuffered, BodyReadSocket, InHandler
<1>11. ASSUME CloseRejected \/ ThreadEnds PROVE CutInv'
  BY <1>11 DEF CloseRejected, ThreadEnds, CloseConn
<1>12. ASSUME Shutdown \/ Restart \/ UNCHANGED vars PROVE CutInv'
  BY <1>12 DEF Shutdown, Restart, vars, txVars, connVars
<1> QED BY <1>1, <1>2, <1>3, <1>4, <1>5, <1>6, <1>7, <1>8, <1>9, <1>10, <1>11, <1>12,
           RespondCut, Steps

(* Only the loop, or the end of the discard, takes up an exchange. *)
LEMMA OnlyTheseTakeUp ==
  ASSUME [Next]_vars, exchange' # exchange
  PROVE  LoopAgain \/ DiscardRecv
<1>1. ~(LoopEnds \/ RecvThrows \/ HeadAborted \/ HeadOnClosed \/ HeadTooBig \/ HeadNeedsMore
        \/ HeadRecv \/ DropMutation \/ CallHandler \/ BodyReadNothing \/ BodyRecv)
  BY DEF LoopEnds, RecvThrows, HeadAborted, HeadOnClosed, HeadTooBig, Reject, HeadNeedsMore,
         HeadRecv, DropMutation, CallHandler, BodyReadNothing, BodyRecv
<1>2. ~\E e \in LineEnds : \/ RequestLineInvalid(e) \/ RequestLineThrows(e) \/ RequestLine(e)
                           \/ HeaderLine(e) \/ HeadComplete(e)
  BY DEF RequestLineInvalid, RequestLineThrows, RequestLine, HeaderLine, HeadComplete, Reject
<1>3. ~\E size \in BodyReads : BodyReadBuffered(size) \/ BodyReadSocket(size)
  BY DEF BodyReadBuffered, BodyReadSocket
<1>4. ~(HandlerCall \/ WriterStep)
  BY DEF HandlerCall, SetHeaders, WriteHeader, WriteHeaderAgain, Write, WriterStep, PutDeferred,
         PutExtra, Put, HandlerReturns, HandlerThrows, FlushNothing, FlushEmpty, FlushHead, FlushBody,
         Header, UpgradeClosed, Defer, SendHead
<1>5. ~(CloseRejected \/ ThreadEnds \/ Shutdown \/ Restart \/ UNCHANGED vars)
  BY DEF CloseRejected, ThreadEnds, Shutdown, Restart, vars, txVars
<1> QED BY <1>1, <1>2, <1>3, <1>4, <1>5, Steps

LEMMA CutInit == Init => CutInv
BY DEF Init, CutInv, Known, NoCut

(* After a head that a shutdown cut short no exchange follows on the        *)
(* connection, unless the server was started again.                         *)
THEOREM CutHeadEndsConnection == Spec => CutHeadIsLast
<1>1. Spec => []CutInv
  BY CutInit, CutStep, PTL DEF Spec
<1>2. ASSUME CutInv, [Next]_vars, exchange' # exchange
      PROVE (HeadOnWire => head.complete \/ cut # NoCut) /\ cut < restarts
  <2>1. LoopAgain \/ DiscardRecv
    BY <1>2, OnlyTheseTakeUp
  <2>2. CASE LoopAgain
    BY <1>2, <2>2 DEF LoopAgain, CutInv, Known, HeadOnWire
  <2>3. CASE DiscardRecv
    BY <1>2, <2>3 DEF DiscardRecv, CutInv, Known, HeadOnWire
  <2> QED BY <2>1, <2>2, <2>3
<1>3. CutInv /\ [Next]_vars
        => [exchange' # exchange => /\ HeadOnWire => head.complete \/ cut # NoCut
                                    /\ cut < restarts]_vars
  BY <1>2
<1> QED BY <1>1, <1>3, PTL DEF Spec, CutHeadIsLast

------------------------------------------------------------------------------
(* Type correctness: TypeInv, with what a blocked recv() is to read.        *)

Reads ==
  /\ pc \in {"discardRecv", "headRecv", "bodyRecv"} => want > 0
  /\ pc = "discardRecv" => ~raw_io /\ want <= http_body_pending
  /\ pc = "bodyRecv" => raw_io \/ want <= http_body_pending
  /\ pc \in {"handler", "bodyRecv", "put"} => after = "loop"

Typed == TypeInv /\ Reads

LEMMA FlushTyped ==
  ASSUME Typed, FlushNothing \/ FlushEmpty \/ FlushHead \/ FlushBody
  PROVE  /\ ConnTypeOK' /\ WriterTypeOK' /\ after' = after /\ recvd' = recvd
         /\ pc' \in {after, "flushBody", "exit"}
<1> USE DEF Typed, TypeInv, ConnTypeOK, WriterTypeOK
<1>1. CASE FlushNothing
  BY <1>1 DEF FlushNothing, connVars, streamState, writerState
<1>2. CASE FlushEmpty
  <2>1. PICK r \in HeadResults : PutHead(OK, hdr.conn, 0, r) /\ ContinueFlush(r, after)
    BY <1>2 DEF FlushEmpty
  <2>2. OK \in Nat /\ hdr.conn \in ConnToken /\ 0 \in Nat \cup {NoLen}
    BY DEF OK, HeaderType
  <2>3. wire' \in Seq(ResponseType) /\ open' \in BOOLEAN
    BY <2>1, <2>2, PutHeadType
  <2>4. hdr' \in HeaderType
    BY <1>2 DEF FlushEmpty, HeaderType
  <2>5. pc' \in {after, "exit"}
    BY <2>1 DEF ContinueFlush
  <2> QED BY <1>2, <2>3, <2>4, <2>5 DEF FlushEmpty, streamState
<1>3. CASE FlushHead
  <2>1. CASE deferred.st \notin TableLacks
    <3>1. PICK r \in HeadResults : /\ PutHead(deferred.st, deferred.conn, deferred.size, r)
                                   /\ ContinueFlush(r, "flushBody")
      BY <1>3, <2>1 DEF FlushHead
    <3>2. wire' \in Seq(ResponseType) /\ open' \in BOOLEAN
      BY <3>1, PutHeadType
    <3>3. pc' \in {"flushBody", "exit"}
      BY <3>1 DEF ContinueFlush
    <3> QED BY <1>3, <3>2, <3>3 DEF FlushHead, streamState, writerState
  <2>2. CASE deferred.st \in TableLacks
    BY <1>3, <2>2 DEF FlushHead, streamState, writerState
  <2> QED BY <2>1, <2>2
<1>4. CASE FlushBody
  <2>1. CASE open
    <3>1. PICK r \in WriteResults(deferred.size) : PutBody(r) /\ ContinueFlush(r, after)
      BY <1>4, <2>1 DEF FlushBody
    <3>2. wire' \in Seq(ResponseType) /\ open' \in BOOLEAN
      BY <3>1, PutBodyType
    <3>3. pc' \in {after, "exit"}
      BY <3>1 DEF ContinueFlush
    <3> QED BY <1>4, <3>2, <3>3 DEF FlushBody, streamState, writerState
  <2>2. CASE ~open
    BY <1>4, <2>2 DEF FlushBody, streamState, writerState
  <2> QED BY <2>1, <2>2
<1> QED BY <1>1, <1>2, <1>3, <1>4

LEMMA CallTyped ==
  ASSUME Typed, \/ HandlerCall \/ PutDeferred \/ PutExtra \/ Put
                \/ HandlerReturns \/ HandlerThrows
  PROVE  /\ ConnTypeOK' /\ WriterTypeOK' /\ after' = after /\ recvd' = recvd
         /\ pc' \in {"handler", "put", "flush", "exit"}
<1>1. pc \in {"handler", "put"} /\ after' = after
  BY DEF HandlerCall, SetHeaders, WriteHeader, WriteHeaderAgain, Write, InHandler,
         PutDeferred, PutExtra, Put, HandlerReturns, HandlerThrows
<1>2. RwTypeInv
  BY <1>1 DEF Typed, TypeInv, Reads, RwTypeInv
<1>3. RwTypeInv'
  BY <1>2, NextType DEF RwNext, WriterStep
<1>4. pc' \in {"handler", "put", "flush", "exit"}
  BY HeaderGoes DEF HandlerCall, SetHeaders, WriteHeader, WriteHeaderAgain, Write, InHandler,
     Raise, Continue, PutDeferred, PutExtra, Put, HandlerReturns, HandlerThrows
<1>5. recvd' = recvd
  BY DEF HandlerCall, SetHeaders, WriteHeader, WriteHeaderAgain, Write, PutDeferred, PutExtra,
         Put, HandlerReturns, HandlerThrows, connVars, Header, UpgradeClosed, Defer, SendHead
<1> QED BY <1>1, <1>3, <1>4, <1>5 DEF RwTypeInv

LEMMA RespondTyped ==
  ASSUME Typed, HandlerCall \/ WriterStep, UNCHANGED <<rxVars, exitVars>>, FlagTypeOK'
  PROVE  Typed'
<1>1. /\ ConnTypeOK' /\ WriterTypeOK' /\ after' = after /\ recvd' = recvd
      /\ pc' \in {"handler", "put", "flush", "flushBody", "exit", after}
  BY FlushTyped, CallTyped DEF WriterStep
<1>2. pc' \in {"handler", "put"} => after' = "loop"
  <2>1. CASE FlushNothing \/ FlushEmpty \/ FlushHead \/ FlushBody
    BY <2>1, FlushTyped DEF Typed, TypeInv
  <2>2. CASE \/ HandlerCall \/ PutDeferred \/ PutExtra \/ Put
             \/ HandlerReturns \/ HandlerThrows
    <3>1. pc \in {"handler", "put"}
      BY <2>2 DEF HandlerCall, SetHeaders, WriteHeader, WriteHeaderAgain, Write, InHandler,
                  PutDeferred, PutExtra, Put, HandlerReturns, HandlerThrows
    <3> QED BY <1>1, <3>1 DEF Typed, Reads
  <2> QED BY <2>1, <2>2 DEF WriterStep
<1>3. TypeInv'
  BY <1>1 DEF Typed, TypeInv, rxVars
<1>4. Reads'
  BY <1>1, <1>2 DEF Typed, TypeInv, Reads
<1> QED BY <1>3, <1>4 DEF Typed

(* What the peer sends is settled when it connects. *)
LEMMA StreamStays ==
  ASSUME [Next]_vars
  PROVE  UNCHANGED stream
<1> USE DEF connVars, RecvData, RecvTimeout, RecvClosed, RecvError, CloseConn
<1>1. ASSUME LoopEnds \/ LoopAgain \/ DiscardRecv \/ RecvThrows \/ HeadRecv \/ BodyRecv
      PROVE  UNCHANGED stream
  BY <1>1 DEF LoopEnds, LoopAgain, DiscardRecv, RecvThrows, HeadRecv, BodyRecv
<1>2. ASSUME HeadAborted \/ HeadOnClosed \/ HeadTooBig \/ HeadNeedsMore \/ DropMutation
             \/ CallHandler \/ CloseRejected \/ ThreadEnds
      PROVE  UNCHANGED stream
  BY <1>2 DEF HeadAborted, HeadOnClosed, HeadTooBig, HeadNeedsMore, DropMutation, CallHandler,
              CloseRejected, ThreadEnds, Reject
<1>3. ASSUME NEW e \in LineEnds, \/ RequestLineInvalid(e) \/ RequestLineThrows(e)
                                 \/ RequestLine(e) \/ HeaderLine(e) \/ HeadComplete(e)
      PROVE  UNCHANGED stream
  BY <1>3 DEF RequestLineInvalid, RequestLineThrows, RequestLine, HeaderLine, HeadComplete, Reject
<1>4. ASSUME BodyReadNothing
             \/ \E size \in BodyReads : BodyReadBuffered(size) \/ BodyReadSocket(size)
      PROVE  UNCHANGED stream
  BY <1>4 DEF BodyReadNothing, BodyReadBuffered, BodyReadSocket
<1>5. ASSUME HandlerCall \/ WriterStep PROVE UNCHANGED stream
  BY <1>5 DEF HandlerCall, SetHeaders, WriteHeader, WriteHeaderAgain, Write, WriterStep, PutDeferred,
              PutExtra, Put, HandlerReturns, HandlerThrows, FlushNothing, FlushEmpty, FlushHead,
              FlushBody, Header, UpgradeClosed, Defer, SendHead, PutHead, PutBody
<1>6. ASSUME Shutdown \/ Restart \/ UNCHANGED vars PROVE UNCHANGED stream
  BY <1>6 DEF Shutdown, Restart, vars
<1> QED BY <1>1, <1>2, <1>3, <1>4, <1>5, <1>6, Steps

LEMMA FlagsMove ==
  ASSUME [Next]_vars
  PROVE  UNCHANGED exitVars \/ HeadAborted \/ Shutdown \/ Restart
<1>1. LoopEnds \/ LoopAgain \/ DiscardRecv \/ RecvThrows \/ HeadOnClosed \/ HeadTooBig
      \/ HeadNeedsMore \/ HeadRecv \/ DropMutation \/ CallHandler \/ BodyReadNothing
      \/ BodyRecv \/ CloseRejected \/ ThreadEnds \/ UNCHANGED vars
      => UNCHANGED exitVars
  BY DEF LoopEnds, LoopAgain, DiscardRecv, RecvThrows, HeadOnClosed, HeadTooBig, HeadNeedsMore,
         HeadRecv, DropMutation, CallHandler, BodyReadNothing, BodyRecv, CloseRejected, ThreadEnds,
         vars
<1>2. (\E e \in LineEnds : \/ RequestLineInvalid(e) \/ RequestLineThrows(e) \/ RequestLine(e)
                           \/ HeaderLine(e) \/ HeadComplete(e))
      => UNCHANGED exitVars
  BY DEF RequestLineInvalid, RequestLineThrows, RequestLine, HeaderLine, HeadComplete
<1>3. (\E size \in BodyReads : BodyReadBuffered(size) \/ BodyReadSocket(size))
      => UNCHANGED exitVars
  BY DEF BodyReadBuffered, BodyReadSocket
<1> QED BY <1>1, <1>2, <1>3, Steps

(* The shared exit flag keeps its type whoever moves it. *)
LEMMA FlagsTyped ==
  ASSUME Typed, [Next]_vars
  PROVE  FlagTypeOK'
<1>1. FlagTypeOK /\ MaxRestarts[stream] \in Nat
  BY ReaderAssumption DEF Typed, TypeInv, ConnTypeOK
<1>2. CASE UNCHANGED exitVars
  BY <1>1, <1>2, StreamStays DEF exitVars, FlagTypeOK
<1>3. CASE HeadAborted
  BY <1>1, <1>3, StreamStays DEF HeadAborted, FlagTypeOK
<1>4. CASE Shutdown
  BY <1>1, <1>4, StreamStays DEF Shutdown, FlagTypeOK
<1>5. CASE Restart
  <2>1. UNCHANGED <<stream, cut>> /\ done' = FALSE /\ restarts' = restarts + 1
        /\ restarts < MaxRestarts[stream]
    BY <1>5, StreamStays DEF Restart
  <2>2. restarts \in Nat /\ cut \in {NoCut} \cup 0 .. restarts
    BY <1>1 DEF FlagTypeOK
  <2>3. 0 .. restarts \subseteq 0 .. restarts + 1 /\ restarts + 1 \in 0 .. MaxRestarts[stream]
    BY <1>1, <2>1, <2>2
  <2> QED BY <2>1, <2>2, <2>3 DEF FlagTypeOK
<1> QED BY <1>2, <1>3, <1>4, <1>5, FlagsMove

(* The outcomes of a recv() *)
LEMMA Received ==
  ASSUME ConnTypeOK, want \in Nat, NEW n \in 1 .. want, RecvData(want, n)
  PROVE  ConnTypeOK' /\ recvd' = recvd + n /\ n \in Nat
BY StreamsAssumption DEF ConnTypeOK, RecvData

LEMMA NotReceived ==
  ASSUME ConnTypeOK, RecvTimeout(want) \/ RecvClosed \/ RecvError \/ CloseConn
  PROVE  ConnTypeOK' /\ recvd' = recvd
BY DEF ConnTypeOK, RecvTimeout, RecvClosed, RecvError, CloseConn, connVars

LEMMA FreshTyped ==
  ASSUME FreshWriter
  PROVE  /\ hdr' \in HeaderType /\ header_written' \in BOOLEAN
         /\ deferred' \in [on : BOOLEAN, st : Nat, conn : ConnToken, size : Nat]
         /\ announced' \in Nat \cup {NoLen} /\ body_written' \in Nat
BY DEF FreshWriter, NoHeaders, HeaderType, ConnToken, NoDeferred

HeadType == [line : BOOLEAN, can : BOOLEAN, clen : Nat \cup {NoLen},
             ctype : BOOLEAN, close : BOOLEAN, complete : BOOLEAN]

LEMMA UnitType ==
  ASSUME Typed, NEW e \in LineEnds
  PROVE  /\ e \in 1 .. Len(stream) /\ e <= recvd /\ e > seek
         /\ stream[e].kind \in UnitKind /\ stream[e].val \in Nat
<1>1. stream \in Seq([kind : UnitKind, val : Nat])
  BY StreamsAssumption DEF Typed, TypeInv, ConnTypeOK
<1>2. Len(stream) \in Nat /\ recvd \in 0 .. Len(stream) /\ seek \in 0 .. recvd
  BY <1>1 DEF Typed, TypeInv, ConnTypeOK
<1>3. e \in seek + 1 .. recvd
  BY DEF LineEnds
<1>4. e \in 1 .. Len(stream) /\ e <= recvd /\ e > seek
  BY <1>2, <1>3
<1>5. stream[e] \in [kind : UnitKind, val : Nat]
  BY <1>1, <1>4, ElementOfSeq
<1> QED BY <1>4, <1>5

LEMMA TypedStep == Typed /\ [Next]_vars => Typed'
<1> SUFFICES ASSUME Typed, [Next]_vars PROVE Typed'
  OBVIOUS
<1> USE DEF Typed, TypeInv, Reads, WriterTypeOK, rxVars, streamState, writerState
<1>f. FlagTypeOK'
  BY FlagsTyped
<1> USE <1>f
<1>0. recvd \in Nat /\ consumed \in Nat /\ seek \in Nat /\ consumed <= recvd /\ seek <= recvd
  BY StreamsAssumption DEF ConnTypeOK
<1>1. ASSUME LoopEnds \/ HeadAborted \/ HeadOnClosed PROVE Typed'
  BY ZenonT(60), <1>1 DEF LoopEnds, HeadAborted, HeadOnClosed, connVars, ConnTypeOK
<1>2. ASSUME HeadNeedsMore PROVE Typed'
  BY <1>2, ReaderAssumption DEF HeadNeedsMore, connVars, ConnTypeOK
<1>3. ASSUME LoopAgain PROVE Typed'
  <2> DEFINE n == IF raw_io THEN 0 ELSE Smaller(http_body_pending, Buffered)
  <2>1. n \in Nat /\ n <= recvd - consumed /\ (~raw_io => n <= http_body_pending)
    BY <1>0 DEF Smaller, Buffered
  <2>2. consumed' = consumed + n
        /\ http_body_pending' = IF raw_io THEN http_body_pending ELSE http_body_pending - n
    BY <1>3 DEF LoopAgain, TakeBody
  <2>3. ConnTypeOK' /\ recvd' = recvd
    BY <1>3 DEF LoopAgain, connVars, ConnTypeOK
  <2>4. consumed' \in 0 .. recvd' /\ http_body_pending' \in Nat
    BY <1>0, <2>1, <2>2, <2>3
  <2> HIDE DEF n
  <2>5. CASE ~raw_io /\ http_body_pending' > 0
    BY <1>3, <2>3, <2>4, <2>5 DEF LoopAgain
  <2>6. CASE ~(~raw_io /\ http_body_pending' > 0)
    <3>1. StartExchange
      BY <1>3, <2>6 DEF LoopAgain
    <3>2. EmptyHead \in HeadType /\ exchange' \in Nat /\ 0 \in 0 .. MaxOps
      BY <3>1, HandlerAssumption DEF EmptyHead, HeadType, StartExchange
    <3>3. FreshWriter /\ pc' = "head" /\ exchange' \in Nat /\ ops' = 0 /\ asked' = 0
          /\ seek' = consumed' /\ total_read' = 0 /\ head' \in HeadType
      BY <3>1, <3>2 DEF StartExchange
    <3>4. UNCHANGED <<after, toWrite, wire, http_keep_alive, raw_io, stream_response, want, exitVars>>
      BY <1>3, <2>6 DEF LoopAgain
    <3> QED BY <2>3, <2>4, <3>2, <3>3, <3>4, FreshTyped DEF HeadType
  <2> QED BY <2>5, <2>6
<1>4. ASSUME DiscardRecv PROVE Typed'
  <2>1. /\ ConnTypeOK' /\ consumed' \in 0 .. recvd' /\ recvd' \in Nat
        /\ http_body_pending' \in Nat
    <3>1. CASE \E n \in 1 .. want : RecvData(want, n) /\ TakeBody(n)
      <4>1. PICK n \in 1 .. want : RecvData(want, n) /\ TakeBody(n)
        BY <3>1
      <4>2. pc = "discardRecv" /\ n <= http_body_pending /\ n \in Nat /\ ~raw_io
        BY <1>4, <4>1 DEF DiscardRecv
      <4>3. ConnTypeOK' /\ recvd' = recvd + n
        BY <4>1, Received
      <4> QED BY <1>0, <4>1, <4>2, <4>3 DEF TakeBody
    <3>2. CASE (RecvTimeout(want) \/ RecvClosed) /\ UNCHANGED <<consumed, http_body_pending>>
      BY <1>0, <3>2, NotReceived
    <3> QED BY <1>4, <3>1, <3>2 DEF DiscardRecv
  <2>2. EmptyHead \in HeadType /\ exchange + 1 \in Nat /\ 0 \in 0 .. MaxOps
    BY HandlerAssumption DEF EmptyHead, HeadType
  <2>3. FreshWriter /\ pc' = "head" /\ exchange' \in Nat /\ ops' \in 0 .. MaxOps /\ asked' = 0
        /\ seek' = consumed' /\ total_read' = 0 /\ head' \in HeadType
    BY <1>4, <2>2 DEF DiscardRecv, StartExchange
  <2>4. UNCHANGED <<after, toWrite, wire, http_keep_alive, raw_io, stream_response, want, exitVars>>
    BY <1>4 DEF DiscardRecv
  <2> QED BY <2>1, <2>3, <2>4, FreshTyped DEF HeadType
<1>5. ASSUME RecvThrows PROVE Typed'
  BY <1>5, NotReceived DEF RecvThrows
<1>6. ASSUME HeadRecv PROVE Typed'
  <2>1. ConnTypeOK' /\ recvd' \in Nat /\ recvd <= recvd' /\ total_read' \in Nat
        /\ pc' \in {"head", "loop"}
    <3>1. CASE \E n \in 1 .. want : RecvData(want, n) /\ total_read' = total_read + n /\ pc' = "head"
      <4>1. PICK n \in 1 .. want : RecvData(want, n) /\ total_read' = total_read + n /\ pc' = "head"
        BY <3>1
      <4>2. ConnTypeOK' /\ recvd' = recvd + n /\ n \in Nat
        BY <4>1, Received
      <4> QED BY <1>0, <4>1, <4>2
    <3>2. CASE (CloseConn \/ RecvClosed) /\ pc' = "loop" /\ UNCHANGED total_read
      BY <1>0, <3>2, NotReceived
    <3> QED BY <1>6, <3>1, <3>2 DEF HeadRecv
  <2>2. UNCHANGED <<after, exchange, ops, asked, toWrite, wire, streamState, writerState,
                    consumed, seek, head, want, exitVars>>
    BY <1>6 DEF HeadRecv
  <2> QED BY <1>0, <2>1, <2>2
<1>7. ASSUME HeadTooBig \/ DropMutation PROVE Typed'
  <2>1. deferred' \in [on : BOOLEAN, st : Nat, conn : ConnToken, size : Nat]
    <3>1. CASE HeadTooBig
      BY <3>1 DEF HeadTooBig, Reject, HeaderFieldsTooLarge, ConnToken
    <3>2. CASE DropMutation
      <4>1. (IF http_keep_alive THEN "keep-alive" ELSE "close") \in ConnToken
        BY DEF ConnToken
      <4>2. LengthRequired \in Nat
        BY DEF LengthRequired
      <4>3. deferred' = [on |-> TRUE, st |-> LengthRequired, size |-> 1,
                         conn |-> IF http_keep_alive THEN "keep-alive" ELSE "close"]
        BY <3>2 DEF DropMutation
      <4> HIDE DEF TypeInv, Typed, Reads, WriterTypeOK
      <4> QED BY <4>1, <4>2, <4>3
    <3> QED BY <1>7, <3>1, <3>2
  <2>2. asked' \in Nat /\ header_written' \in BOOLEAN /\ http_body_pending' \in Nat
        /\ pc' = "flush" /\ after' \in {"loop", "close"} /\ UNCHANGED connVars
    <3>1. CASE HeadTooBig
      BY <3>1 DEF HeadTooBig, Reject
    <3>2. CASE DropMutation
      BY <3>2 DEF DropMutation
    <3> QED BY <1>7, <3>1, <3>2
  <2>3. UNCHANGED <<exchange, ops, toWrite, wire, http_keep_alive, raw_io, stream_response,
                    hdr, announced, body_written, rxVars, exitVars>>
    BY <1>7 DEF HeadTooBig, Reject, DropMutation
  <2> QED BY <2>1, <2>2, <2>3 DEF connVars, ConnTypeOK
<1>8. ASSUME NEW e \in LineEnds, RequestLineInvalid(e) \/ RequestLineThrows(e) PROVE Typed'
  <2>1. CASE RequestLineThrows(e)
    BY <2>1 DEF RequestLineThrows, connVars, ConnTypeOK
  <2>2. CASE RequestLineInvalid(e)
    <3>1. deferred' \in [on : BOOLEAN, st : Nat, conn : ConnToken, size : Nat]
      BY <2>2 DEF RequestLineInvalid, Reject, BadRequest, ConnToken
    <3>2. asked' \in Nat /\ header_written' \in BOOLEAN
          /\ pc' = "flush" /\ after' \in {"loop", "close"} /\ UNCHANGED connVars
      BY <2>2 DEF RequestLineInvalid, Reject
    <3>3. UNCHANGED <<exchange, ops, toWrite, wire, streamState, hdr, announced, body_written,
                      rxVars, exitVars>>
      BY <2>2 DEF RequestLineInvalid, Reject
    <3> QED BY <3>1, <3>2, <3>3 DEF connVars, ConnTypeOK
  <2> QED BY <1>8, <2>1, <2>2
<1>9. ASSUME NEW e \in LineEnds, RequestLine(e) \/ HeaderLine(e) \/ HeadComplete(e)
      PROVE Typed'
  <2>1. e \in 1 .. Len(stream) /\ e <= recvd /\ e \in Nat /\ stream[e].val \in Nat
    BY UnitType
  <2>2. head' \in HeadType
    <3>1. head \in HeadType
      BY DEF HeadType
    <3>2. (stream[e].val = 1) \in BOOLEAN /\ (stream[e].kind = "ctype") \in BOOLEAN
          /\ (stream[e].kind = "close") \in BOOLEAN
      OBVIOUS
    <3>3. CASE RequestLine(e)
      BY <3>1, <3>2, <3>3 DEF RequestLine, HeadType
    <3>4. CASE HeaderLine(e)
      BY <2>1, <3>1, <3>2, <3>4 DEF HeaderLine, AddHeader, HeadType
    <3>5. CASE HeadComplete(e)
      BY <3>1, <3>5 DEF HeadComplete, HeadType
    <3> QED BY <1>9, <3>3, <3>4, <3>5
  <2>3. seek' = e /\ consumed' \in {consumed, e} /\ pc' \in {pc, "serve"} /\ pc = "head"
    BY <1>9 DEF RequestLine, HeaderLine, HeadComplete, EraseHead, Scanning
  <2>4. UNCHANGED <<connVars, after, exchange, ops, asked, toWrite, wire, streamState,
                    writerState, total_read, want, exitVars>>
    BY <1>9 DEF RequestLine, HeaderLine, HeadComplete
  <2> QED BY <1>0, <2>1, <2>2, <2>3, <2>4 DEF connVars, ConnTypeOK, HeadType
<1>10. ASSUME CallHandler PROVE Typed'
  <2>1. http_body_pending' \in Nat
    BY <1>10 DEF CallHandler, PendingBody, NoLen
  <2>2. http_keep_alive' \in BOOLEAN
    BY <1>10, Zenon DEF CallHandler
  <2> QED BY <1>10, <2>1, <2>2 DEF CallHandler, connVars, ConnTypeOK
<1>11. ASSUME BodyReadNothing PROVE Typed'
  BY <1>11, HandlerAssumption DEF BodyReadNothing, InHandler, connVars, ConnTypeOK
<1>12. ASSUME NEW size \in BodyReads, BodyReadBuffered(size) \/ BodyReadSocket(size)
       PROVE Typed'
  <2>0. size \in Nat /\ size > 0
    BY ReaderAssumption
  <2>1. CASE BodyReadBuffered(size)
    <3> DEFINE n == IF raw_io THEN Buffered ELSE Smaller(ReadLimit(size), Buffered)
    <3>1. n \in Nat /\ n <= recvd - consumed /\ (~raw_io => n <= http_body_pending)
      BY <1>0, <2>0 DEF Smaller, Buffered, ReadLimit
    <3>2. consumed' = consumed + n
          /\ http_body_pending' = IF raw_io THEN http_body_pending ELSE http_body_pending - n
      BY <2>1 DEF BodyReadBuffered, TakeBody
    <3>3. ConnTypeOK' /\ recvd' = recvd /\ pc = "handler" /\ ops' \in 0 .. MaxOps
      BY <2>1, HandlerAssumption DEF BodyReadBuffered, connVars, ConnTypeOK, InHandler
    <3>4. consumed' \in 0 .. recvd' /\ http_body_pending' \in Nat
      BY <1>0, <3>1, <3>2, <3>3
    <3>5. UNCHANGED <<pc, after, exchange, asked, toWrite, wire, http_keep_alive, raw_io,
                      stream_response, writerState, seek, total_read, head, want, exitVars>>
      BY <2>1 DEF BodyReadBuffered
    <3> QED BY <3>3, <3>4, <3>5
  <2>2. CASE BodyReadSocket(size)
    <3>1. want' = ReadLimit(size) /\ pc = "handler" /\ ops' \in 0 .. MaxOps /\ pc' = "bodyRecv"
          /\ BodyLeft /\ ConnTypeOK'
      BY <2>2, HandlerAssumption DEF BodyReadSocket, connVars, ConnTypeOK, InHandler
    <3>2. want' \in Nat /\ want' > 0 /\ (raw_io \/ want' <= http_body_pending)
      BY <2>0, <3>1 DEF ReadLimit, Smaller, BodyLeft
    <3>3. UNCHANGED <<recvd, after, exchange, asked, toWrite, wire, streamState, writerState,
                      consumed, seek, total_read, head, exitVars>>
      BY <2>2 DEF BodyReadSocket, connVars
    <3> QED BY <3>1, <3>2, <3>3
  <2> QED BY <1>12, <2>1, <2>2
<1>13. ASSUME BodyRecv PROVE Typed'
  <2>1. /\ ConnTypeOK' /\ consumed' \in 0 .. recvd' /\ recvd' \in Nat /\ recvd <= recvd'
        /\ http_body_pending' \in Nat
        /\ pc' \in {"handler", "exit"}
    <3>1. CASE \E n \in 1 .. want : RecvData(want, n) /\ TakeBody(n) /\ pc' = "handler"
      <4>1. PICK n \in 1 .. want : RecvData(want, n) /\ TakeBody(n) /\ pc' = "handler"
        BY <3>1
      <4>2. pc = "bodyRecv" /\ n \in Nat /\ (raw_io \/ n <= http_body_pending)
        BY <1>13, <4>1 DEF BodyRecv
      <4>3. ConnTypeOK' /\ recvd' = recvd + n
        BY <4>1, Received
      <4> QED BY <1>0, <4>1, <4>2, <4>3 DEF TakeBody
    <3>2. CASE /\ RecvTimeout(want) \/ RecvClosed \/ RecvError
               /\ pc' = "handler" \/ Raise
               /\ UNCHANGED <<consumed, http_body_pending>>
      BY <1>0, <3>2, NotReceived DEF Raise
    <3> QED BY <1>13, <3>1, <3>2 DEF BodyRecv
  <2>2. UNCHANGED <<after, exchange, ops, asked, toWrite, wire, http_keep_alive, raw_io,
                    stream_response, writerState, seek, total_read, head, want, exitVars>>
        /\ pc = "bodyRecv"
    BY <1>13 DEF BodyRecv
  <2> QED BY <1>0, <2>1, <2>2
<1>14. ASSUME CloseRejected \/ ThreadEnds PROVE Typed'
  BY <1>14, NotReceived DEF CloseRejected, ThreadEnds
<1>15. ASSUME Shutdown \/ Restart \/ UNCHANGED vars PROVE Typed'
  <2>1. UNCHANGED <<connVars, txVars, rxVars>>
    BY <1>15 DEF Shutdown, Restart, vars
  <2>2. ConnTypeOK' /\ WriterTypeOK'
    BY <2>1 DEF txVars, connVars, ConnTypeOK
  <2>3. UNCHANGED <<pc, after, recvd, consumed, seek, total_read, head, want, raw_io,
                    http_body_pending>>
    BY <2>1 DEF txVars, connVars
  <2> HIDE DEF WriterTypeOK
  <2> QED BY <2>1, <2>2, <2>3
<1> QED BY <1>1, <1>2, <1>3, <1>4, <1>5, <1>6, <1>7, <1>8, <1>9, <1>10, <1>11, <1>12, <1>13,
           <1>14, <1>15, RespondTyped, Steps

LEMMA TypedInit == Init => Typed
<1> SUFFICES ASSUME Init PROVE Typed
  OBVIOUS
<1>1. ConnTypeOK
  <2>1. Len(stream) \in Nat
    BY StreamsAssumption DEF Init, ConnInit
  <2>2. TimevalSeconds(DefaultIoTimeout) \in Nat
    BY DEF TimevalSeconds, DefaultIoTimeout
  <2> QED BY <2>1, <2>2 DEF Init, ConnInit, ConnTypeOK
<1>2. NoHeaders \in HeaderType /\ NoDeferred \in [on : BOOLEAN, st : Nat, conn : ConnToken, size : Nat]
      /\ EmptyHead \in HeadType
  BY DEF NoHeaders, HeaderType, ConnToken, NoDeferred, EmptyHead, HeadType
<1>3. WriterTypeOK
  <2>1. ops \in 0 .. MaxOps
    BY HandlerAssumption DEF Init
  <2>2. wire \in Seq(ResponseType)
    BY DEF Init
  <2>3. /\ exchange \in Nat /\ asked \in Nat /\ toWrite \in Nat
        /\ announced \in Nat \cup {NoLen} /\ body_written \in Nat /\ http_body_pending \in Nat
    BY DEF Init
  <2>4. hdr \in HeaderType /\ deferred \in [on : BOOLEAN, st : Nat, conn : ConnToken, size : Nat]
    BY <1>2 DEF Init
  <2>5. /\ header_written \in BOOLEAN /\ http_keep_alive \in BOOLEAN
        /\ raw_io \in BOOLEAN /\ stream_response \in BOOLEAN
    BY DEF Init
  <2> QED BY <2>1, <2>2, <2>3, <2>4, <2>5 DEF WriterTypeOK
<1>4. pc = "loop" /\ after = "loop" /\ head \in HeadType
  <2>1. head = EmptyHead
    BY DEF Init
  <2>2. head \in HeadType
    BY <1>2, <2>1
  <2> QED BY <2>2 DEF Init
<1>5. total_read \in Nat /\ want \in Nat /\ consumed \in 0 .. recvd /\ seek \in 0 .. recvd
  BY DEF Init, ConnInit
<1>6. FlagTypeOK
  <2>1. MaxRestarts[stream] \in Nat
    BY ReaderAssumption DEF Init, ConnInit
  <2>2. done = FALSE /\ restarts = 0 /\ cut = NoCut
    BY DEF Init
  <2>3. restarts \in 0 .. MaxRestarts[stream]
    BY <2>1, <2>2
  <2>4. done \in BOOLEAN /\ cut \in {NoCut} \cup 0 .. restarts
    BY <2>2, Zenon
  <2> QED BY <2>3, <2>4, Zenon DEF FlagTypeOK
<1>7. TypeInv
  BY <1>1, <1>3, <1>4, <1>5, <1>6 DEF TypeInv, HeadType
<1> QED BY <1>4, <1>7 DEF Typed, Reads

(* The members of the connection, the reader and the writer keep their      *)
(* types, and the buffer stays within what was received, for every peer.    *)
THEOREM ConnectionTyped == Spec => []Typed
BY TypedInit, TypedStep, PTL DEF Spec

(* recv() is never asked for nothing, whose zero the code would take for a  *)
(* disconnect.                                                              *)
THEOREM AsksForSomething == Spec => []RecvNonZero
<1>1. Typed => RecvNonZero
  BY DEF Typed, Reads, RecvNonZero
<1> QED BY <1>1, ConnectionTyped, PTL

------------------------------------------------------------------------------
(* The connection header: keep-alive does not change once a head was sent,  *)
(* or deferred, that tells of it.                                           *)

Plain == \A h \in HandlerHeaders : h.conn \in {"none", "upgrade"}

Says(conn) ==
  /\ conn = "keep-alive" => http_keep_alive
  /\ conn = "close" => ~http_keep_alive

Told == HeadOnWire => Says(wire[Len(wire)].conn)

TruthInv ==
  /\ hdr.conn \in {"none", "upgrade"}
  /\ wire # <<>> => wire[Len(wire)].ex <= exchange
  /\ pc \in {"head", "headRecv", "serve"} => ~HeadOnWire /\ ~header_written /\ ~deferred.on
  /\ pc \in {"handler", "bodyRecv", "put", "flush"} /\ ~header_written
       => ~HeadOnWire /\ ~deferred.on
  /\ pc = "put" => header_written
  /\ pc \in {"handler", "bodyRecv", "put", "flush", "flushBody"} /\ after = "loop"
       => Told /\ (deferred.on => Says(deferred.conn))
  /\ pc = "loop" /\ open => Told

LEMMA SameTold ==
  ASSUME UNCHANGED <<exchange, wire, http_keep_alive>>
  PROVE  (Told' <=> Told) /\ (HeadOnWire' <=> HeadOnWire)
BY DEF Told, HeadOnWire, Says

LEMMA HeadTells ==
  ASSUME Typed, UNCHANGED exchange,
         NEW st \in Nat, NEW conn \in ConnToken, NEW len \in Nat \cup {NoLen},
         NEW r \in HeadResults, PutHead(st, conn, len, r)
  PROVE  /\ wire'[Len(wire')].ex <= exchange'
         /\ /\ conn = "keep-alive" => http_keep_alive'
            /\ conn = "close" => ~http_keep_alive'
            => Told'
<1> DEFINE w == [ex |-> exchange, st |-> st, conn |-> conn, len |-> len,
                 whole |-> r.whole, sent |-> 0, torn |-> r.res # "ok"]
<1>1. wire \in Seq(ResponseType) /\ exchange \in Nat
  BY DEF Typed, TypeInv, WriterTypeOK
<1>2. w \in ResponseType
  BY <1>1, HeadResultType DEF ResponseType
<1>3. wire' = Append(wire, w)
  BY DEF PutHead
<1>4. Len(wire') = Len(wire) + 1 /\ wire'[Len(wire')] = w
  BY <1>1, <1>2, <1>3, AppendProperties
<1>5. wire'[Len(wire')].conn = conn /\ wire'[Len(wire')].ex = exchange
  BY <1>4
<1> QED BY <1>1, <1>5 DEF Told, Says

LEMMA BodyTells ==
  ASSUME Typed, UNCHANGED <<exchange, http_keep_alive>>,
         wire # <<>> => wire[Len(wire)].ex <= exchange,
         NEW m \in Nat, NEW r \in WriteResults(m), PutBody(r)
  PROVE  (Told => Told') /\ wire'[Len(wire')].ex <= exchange'
<1>1. wire \in Seq(ResponseType) /\ exchange \in Nat
  BY DEF Typed, TypeInv, WriterTypeOK
<1>2. CASE HeadOnWire
  <2> DEFINE k == Len(wire)
             w == AddBody(wire[k], r)
  <2>1. k \in 1 .. Len(wire)
    BY <1>1, <1>2 DEF HeadOnWire
  <2>2. w \in ResponseType /\ w.ex = wire[k].ex
    BY <1>1, <2>1, ElementOfSeq, AddBodyType
  <2>3. w.conn = wire[k].conn
    BY <1>1, <2>1, ElementOfSeq DEF AddBody, ResponseType
  <2>4. wire' = [wire EXCEPT ![k] = w]
    BY <1>2 DEF PutBody
  <2>5. Len(wire') = k /\ wire'[k] = w
    BY <1>1, <2>1, <2>2, <2>4, ExceptSeq
  <2> HIDE DEF w
  <2> QED BY <1>1, <1>2, <2>2, <2>3, <2>5 DEF Told, HeadOnWire, Says
<1>3. CASE ~HeadOnWire
  <2> DEFINE w == [ex |-> exchange, st |-> 0, conn |-> "none", len |-> NoLen,
                   whole |-> FALSE, sent |-> r.sent, torn |-> TRUE]
  <2>1. wire' = Append(wire, w)
    BY <1>3 DEF PutBody
  <2>2. w \in ResponseType
    BY <1>1, WriteResultType DEF ResponseType, ConnToken
  <2>3. wire'[Len(wire')] = w
    BY <1>1, <2>1, <2>2, AppendProperties
  <2>4. wire'[Len(wire')].conn = "none" /\ wire'[Len(wire')].ex = exchange
    BY <2>3
  <2> QED BY <1>1, <2>4 DEF Told, Says
<1> QED BY <1>2, <1>3

(* Steps that send nothing and leave keep-alive alone *)
LEMMA SameTruth ==
  ASSUME TruthInv, UNCHANGED <<hdr, exchange, wire, http_keep_alive, header_written>>,
         UNCHANGED after, deferred'.on = deferred.on, deferred'.conn = deferred.conn,
         open' => open,
         \/ pc' = pc
         \/ pc' = "loop" /\ ((pc \in {"flush", "flushBody"} /\ after = "loop") \/ ~open')
         \/ pc' \in {"discardRecv", "close", "exit", "gone"}
         \/ /\ pc \in {"head", "headRecv", "serve"}
            /\ pc' \in {"head", "headRecv", "serve"}
         \/ /\ pc \in {"handler", "bodyRecv", "put", "flush"}
            /\ pc' \in {"handler", "bodyRecv", "flush"} \/ (pc' = "put" /\ header_written)
  PROVE  TruthInv'
<1>1. (Told' <=> Told) /\ (HeadOnWire' <=> HeadOnWire)
  BY SameTold
<1>2. Says(deferred.conn) => Says(deferred.conn)'
  BY DEF Says
<1>3. /\ (hdr.conn \in {"none", "upgrade"})'
      /\ (wire # <<>> => wire[Len(wire)].ex <= exchange)'
  BY DEF TruthInv
<1>4. CASE \/ pc' = "loop" /\ ((pc \in {"flush", "flushBody"} /\ after = "loop") \/ ~open')
           \/ pc' \in {"discardRecv", "close", "exit", "gone"}
  BY <1>1, <1>3, <1>4 DEF TruthInv
<1>5. CASE pc' \notin {"loop", "discardRecv", "close", "exit", "gone"}
  BY <1>1, <1>2, <1>3, <1>5 DEF TruthInv
<1>6. CASE pc' = pc
  BY <1>1, <1>2, <1>3, <1>6 DEF TruthInv
<1> QED BY <1>4, <1>5, <1>6

LEMMA StartTruth ==
  ASSUME Typed, TruthInv, StartExchange, UNCHANGED wire
  PROVE  TruthInv'
<1>1. /\ exchange' = exchange + 1 /\ pc' = "head" /\ ~header_written' /\ ~deferred'.on
      /\ hdr'.conn = "none"
  BY DEF StartExchange, FreshWriter, NoDeferred, NoHeaders
<1>2. /\ exchange \in Nat
      /\ wire # <<>> => wire[Len(wire)].ex \in Nat /\ wire[Len(wire)].ex <= exchange
  <2>1. wire \in Seq(ResponseType) /\ exchange \in Nat
    BY DEF Typed, TypeInv, WriterTypeOK
  <2>2. ASSUME wire # <<>> PROVE wire[Len(wire)] \in ResponseType
    BY <2>1, <2>2, ElementOfSeq
  <2> QED BY <2>1, <2>2 DEF TruthInv, ResponseType
<1>3. ~HeadOnWire'
  BY <1>1, <1>2 DEF HeadOnWire
<1>4. (wire # <<>> => wire[Len(wire)].ex <= exchange)'
  BY <1>1, <1>2
<1> QED BY <1>1, <1>3, <1>4 DEF TruthInv

LEMMA ReadingTruth ==
  ASSUME Typed, TruthInv, \/ LoopEnds \/ LoopAgain \/ DiscardRecv \/ RecvThrows
                          \/ HeadAborted \/ HeadOnClosed \/ HeadNeedsMore \/ HeadRecv
  PROVE  TruthInv'
<1>1. CASE LoopEnds \/ RecvThrows
  BY <1>1, SameTruth DEF LoopEnds, RecvThrows, connVars, streamState, writerState, RecvError
<1>2. CASE LoopAgain
  <2>1. CASE StartExchange
    BY <1>2, <2>1, StartTruth DEF LoopAgain
  <2>2. CASE ~StartExchange
    BY <1>2, <2>2, SameTruth DEF LoopAgain, connVars, writerState
  <2> QED BY <2>1, <2>2
<1>3. CASE DiscardRecv
  BY <1>3, StartTruth DEF DiscardRecv
<1>4. CASE HeadAborted \/ HeadOnClosed \/ HeadNeedsMore
  <2>1. /\ UNCHANGED <<hdr, exchange, wire, http_keep_alive, header_written, after, deferred, open>>
        /\ pc = "head" /\ (pc' \in {"serve", "headRecv"} \/ (pc' = "loop" /\ ~open'))
    BY <1>4 DEF HeadAborted, HeadOnClosed, HeadNeedsMore, Scanning, connVars, streamState,
                writerState
  <2> QED BY <2>1, SameTruth
<1>5. CASE HeadRecv
  <2>1. /\ UNCHANGED <<hdr, exchange, wire, http_keep_alive, header_written, after, deferred>>
        /\ pc = "headRecv" /\ open
    BY <1>5 DEF HeadRecv, streamState, writerState, RecvData, RecvClosed
  <2>2. pc' = "head" \/ (pc' = "loop" /\ ~open')
    BY <1>5 DEF HeadRecv, CloseConn, RecvClosed
  <2> QED BY <2>1, <2>2, SameTruth
<1> QED BY <1>1, <1>2, <1>3, <1>4, <1>5

LEMMA RejectTruth ==
  ASSUME TruthInv, NEW st, Reject(st)
  PROVE  TruthInv'
<1>1. /\ UNCHANGED <<hdr, exchange, wire>> /\ pc' = "flush" /\ after' = "close" /\ header_written'
  BY DEF Reject
<1> QED BY <1>1 DEF TruthInv

LEMMA LineTruth ==
  ASSUME TruthInv, NEW e \in LineEnds,
         \/ RequestLineInvalid(e) \/ RequestLineThrows(e) \/ RequestLine(e)
         \/ HeaderLine(e) \/ HeadComplete(e)
  PROVE  TruthInv'
<1>1. CASE RequestLineInvalid(e)
  BY <1>1, RejectTruth DEF RequestLineInvalid
<1>2. CASE RequestLineThrows(e) \/ RequestLine(e) \/ HeaderLine(e) \/ HeadComplete(e)
  <2>1. /\ UNCHANGED <<hdr, exchange, wire, http_keep_alive, header_written, after, deferred, open>>
        /\ pc = "head" /\ pc' \in {"head", "serve", "exit"}
    BY <1>2 DEF RequestLineThrows, RequestLine, HeaderLine, HeadComplete, Scanning, connVars,
                streamState, writerState
  <2> QED BY <2>1, SameTruth
<1> QED BY <1>1, <1>2

LEMMA ServeTruth ==
  ASSUME Typed, TruthInv, DropMutation \/ CallHandler
  PROVE  TruthInv'
<1>1. pc = "serve" /\ UNCHANGED <<hdr, exchange, wire>> /\ ~HeadOnWire /\ ~deferred.on
  BY DEF TruthInv, DropMutation, CallHandler, writerState
<1>2. ~HeadOnWire' /\ (wire # <<>> => wire[Len(wire)].ex <= exchange)'
  BY <1>1 DEF HeadOnWire, TruthInv
<1>3. (hdr.conn \in {"none", "upgrade"})'
  BY <1>1 DEF TruthInv
<1>4. CASE DropMutation
  <2>1. /\ pc' = "flush" /\ header_written' /\ UNCHANGED http_keep_alive
        /\ deferred'.conn = IF http_keep_alive THEN "keep-alive" ELSE "close"
    BY <1>4 DEF DropMutation
  <2>2. Says(deferred.conn)'
    BY <2>1 DEF Says
  <2> QED BY <1>2, <1>3, <2>1, <2>2 DEF TruthInv, Told
<1>5. CASE CallHandler
  <2>1. pc' = "handler" /\ ~deferred'.on
    BY <1>1, <1>5 DEF CallHandler, writerState
  <2> QED BY <1>2, <1>3, <2>1 DEF TruthInv, Told
<1> QED BY <1>4, <1>5

LEMMA BodyReadTruth ==
  ASSUME TruthInv,
         \/ BodyReadNothing \/ BodyRecv
         \/ \E size \in BodyReads : BodyReadBuffered(size) \/ BodyReadSocket(size)
  PROVE  TruthInv'
<1>1. /\ UNCHANGED <<hdr, exchange, wire, http_keep_alive, header_written, after, deferred>>
      /\ pc \in {"handler", "bodyRecv"}
  BY DEF BodyReadNothing, BodyRecv, BodyReadBuffered, BodyReadSocket, InHandler, writerState,
         streamState
<1>2. pc' \in {"handler", "bodyRecv", "exit"} /\ (open' => open)
  BY DEF BodyReadNothing, BodyRecv, BodyReadBuffered, BodyReadSocket, InHandler, connVars,
         RecvData, RecvTimeout, RecvClosed, CloseConn, RecvError, Raise
<1> QED BY <1>1, <1>2, SameTruth

LEMMA HeaderTruth ==
  ASSUME Typed, TruthInv, pc = "handler", ~header_written, UNCHANGED <<exchange, after>>,
         NEW st \in Nat, NEW next \in {"handler", "put"}, Header(st, next)
  PROVE  TruthInv'
<1>1. ~HeadOnWire /\ ~deferred.on /\ hdr.conn \in {"none", "upgrade"}
  BY DEF TruthInv
<1>2. header_written' /\ pc' \in {"handler", "put", "exit"}
  BY HeaderGoes DEF Header, UpgradeClosed, Defer, SendHead, FlagStream
<1>3. /\ ConnHeader = "keep-alive" => KeepsAlive
      /\ ConnHeader = "close" => ~KeepsAlive
  BY <1>1 DEF ConnHeader
<1>4. CASE UNCHANGED <<wire, hdr, deferred>>
  <2>1. ~HeadOnWire' /\ (wire # <<>> => wire[Len(wire)].ex <= exchange)'
    BY <1>1, <1>4 DEF HeadOnWire, TruthInv
  <2> QED BY <1>1, <1>2, <1>4, <2>1 DEF TruthInv, Told
<1>5. CASE Defer(st, next)
  <2>1. UNCHANGED wire /\ hdr' = NoHeaders /\ deferred'.conn = ConnHeader
        /\ http_keep_alive' = KeepsAlive
    BY <1>5 DEF Defer, FlagStream
  <2>2. ~HeadOnWire' /\ (wire # <<>> => wire[Len(wire)].ex <= exchange)'
    BY <1>1, <2>1 DEF HeadOnWire, TruthInv
  <2>3. Says(deferred.conn)'
    BY <1>3, <2>1, Zenon DEF Says
  <2>4. hdr'.conn = "none"
    BY <2>1 DEF NoHeaders
  <2> QED BY <1>2, <2>2, <2>3, <2>4 DEF TruthInv, Told
<1>6. CASE SendHead(st, next) /\ ~UNCHANGED <<wire, hdr, deferred>>
  <2>1. PICK r \in HeadResults : PutHead(st, ConnHeader, FramedLen, r)
    BY <1>6 DEF SendHead
  <2>2. UNCHANGED <<hdr, deferred>> /\ http_keep_alive' = KeepsAlive
    BY <1>6 DEF SendHead, FlagStream
  <2>3. ConnHeader \in ConnToken /\ FramedLen \in Nat \cup {NoLen}
    BY DEF Typed, TypeInv, WriterTypeOK, HeaderType, ConnToken, ConnHeader, FramedLen
  <2>4. /\ ConnHeader = "keep-alive" => http_keep_alive'
        /\ ConnHeader = "close" => ~http_keep_alive'
    BY <1>3, <2>2, Zenon
  <2>5. Told' /\ wire'[Len(wire')].ex <= exchange'
    BY <2>1, <2>3, <2>4, HeadTells
  <2> QED BY <1>1, <1>2, <2>2, <2>5 DEF TruthInv
<1> QED BY <1>4, <1>5, <1>6 DEF Header, UpgradeClosed

LEMMA CallTruth ==
  ASSUME Plain, Typed, TruthInv, HandlerCall
  PROVE  TruthInv'
<1>1. CASE SetHeaders
  <2>1. /\ UNCHANGED <<exchange, wire, http_keep_alive, header_written, deferred, after>>
        /\ pc = "handler" /\ pc' = "handler" /\ hdr'.conn \in {"none", "upgrade"}
    BY <1>1 DEF SetHeaders, InHandler, streamState, Plain
  <2>2. (Told' <=> Told) /\ (HeadOnWire' <=> HeadOnWire)
    BY <2>1, SameTold
  <2>3. Says(deferred.conn) => Says(deferred.conn)'
    BY <2>1 DEF Says
  <2> QED BY <2>1, <2>2, <2>3 DEF TruthInv
<1>2. CASE WriteHeaderAgain
  <2>1. /\ UNCHANGED <<hdr, exchange, wire, http_keep_alive, header_written, after, deferred, open>>
        /\ pc = "handler" /\ pc' \in {"handler", "exit"}
    BY <1>2 DEF WriteHeaderAgain, InHandler, Raise, connVars, streamState, writerState
  <2> QED BY <2>1, SameTruth
<1>3. ASSUME NEW st \in Statuses, WriteHeader(st) PROVE TruthInv'
  BY <1>3, HeaderTruth, HandlerAssumption DEF WriteHeader, InHandler
<1>4. ASSUME NEW n \in Chunks, Write(n) PROVE TruthInv'
  <2>1. pc = "handler" /\ UNCHANGED <<exchange, after>>
    BY <1>4 DEF Write, InHandler
  <2>2. CASE ~header_written
    BY <1>4, <2>1, <2>2, HeaderTruth DEF Write, OK
  <2>3. CASE header_written
    <3>1. /\ UNCHANGED <<hdr, wire, http_keep_alive, header_written, deferred, open>>
          /\ pc' = "put"
      BY <1>4, <2>3 DEF Write, connVars, streamState, writerState
    <3> QED BY <2>1, <2>3, <3>1, SameTruth
  <2> QED BY <2>2, <2>3
<1> QED BY <1>1, <1>2, <1>3, <1>4 DEF HandlerCall

LEMMA PutTruth ==
  ASSUME Typed, TruthInv, PutDeferred \/ PutExtra \/ Put \/ HandlerReturns \/ HandlerThrows
  PROVE  TruthInv'
<1>1. CASE PutDeferred \/ PutExtra \/ HandlerReturns \/ HandlerThrows
  <2>1. /\ UNCHANGED <<hdr, exchange, wire, http_keep_alive, header_written, after, open>>
        /\ pc \in {"put", "handler"} /\ pc' \in {"handler", "flush", "exit"}
    BY <1>1 DEF PutDeferred, PutExtra, HandlerReturns, HandlerThrows, connVars, streamState,
                writerState
  <2>2. deferred'.on = deferred.on /\ deferred'.conn = deferred.conn
    BY <1>1 DEF PutDeferred, PutExtra, HandlerReturns, HandlerThrows, writerState,
                Typed, TypeInv, WriterTypeOK
  <2> QED BY <2>1, <2>2, SameTruth
<1>2. CASE Put
  <2>1. /\ UNCHANGED <<hdr, exchange, http_keep_alive, header_written, after, deferred>>
        /\ pc = "put" /\ header_written
    BY <1>2 DEF Put, TruthInv, streamState
  <2>2. CASE ~open
    <3>1. UNCHANGED <<wire, open>> /\ pc' \in {"handler", "exit"}
      BY <1>2, <2>2 DEF Put, Raise
    <3> QED BY <2>1, <3>1, SameTruth
  <2>3. CASE open
    <3>1. PICK r \in WriteResults(CanWrite) : PutBody(r) /\ Continue(r, "handler")
      BY <1>2, <2>3 DEF Put
    <3>2. CanWrite \in Nat
      BY <1>2 DEF Put, CanWrite, Typed, TypeInv, WriterTypeOK, NoLen
    <3>3. Told /\ (deferred.on => Says(deferred.conn))
      BY <2>1 DEF TruthInv, Typed, Reads
    <3>4. Told' /\ wire'[Len(wire')].ex <= exchange'
      BY <2>1, <3>1, <3>2, <3>3, BodyTells DEF TruthInv
    <3>5. pc' \in {"handler", "exit"}
      BY <3>1 DEF Continue, Raise
    <3>6. deferred.on => Says(deferred.conn)'
      BY <2>1, <3>3 DEF Says
    <3> QED BY <2>1, <3>4, <3>5, <3>6 DEF TruthInv
  <2> QED BY <2>2, <2>3
<1> QED BY <1>1, <1>2

LEMMA FlushTruth ==
  ASSUME Typed, TruthInv, FlushNothing \/ FlushEmpty \/ FlushHead \/ FlushBody
  PROVE  TruthInv'
<1>1. /\ UNCHANGED <<exchange, http_keep_alive, header_written, after, deferred>>
      /\ pc \in {"flush", "flushBody"} /\ pc' \in {after, "flushBody", "exit"}
      /\ after \in {"loop", "close"} /\ hdr'.conn = hdr.conn
  BY DEF FlushNothing, FlushEmpty, FlushHead, FlushBody, ContinueFlush, streamState, writerState,
         Typed, TypeInv, WriterTypeOK, HeaderType
<1>2. ASSUME after = "loop" => Told', wire'[Len(wire')].ex <= exchange', pc' # "flushBody"
      PROVE  TruthInv'
  BY <1>1, <1>2 DEF TruthInv
<1>3. CASE UNCHANGED <<wire, hdr, open>> /\ pc' \in {after, "exit"}
  BY <1>1, <1>3, SameTruth
<1>4. CASE FlushEmpty
  <2>1. PICK r \in HeadResults : PutHead(OK, hdr.conn, 0, r) /\ ContinueFlush(r, after)
    BY <1>4 DEF FlushEmpty
  <2>2. OK \in Nat /\ hdr.conn \in ConnToken /\ 0 \in Nat \cup {NoLen}
    BY DEF OK, HeaderType, Typed, TypeInv, WriterTypeOK
  <2>3. Told' /\ wire'[Len(wire')].ex <= exchange'
    BY <1>1, <2>1, <2>2, HeadTells DEF TruthInv
  <2>4. pc' # "flushBody"
    BY <1>1, <2>1 DEF ContinueFlush
  <2> QED BY <1>2, <2>3, <2>4
<1>5. CASE FlushHead /\ deferred.st \notin TableLacks
  <2>1. PICK r \in HeadResults : /\ PutHead(deferred.st, deferred.conn, deferred.size, r)
                                 /\ ContinueFlush(r, "flushBody")
    BY <1>5 DEF FlushHead
  <2>2. deferred.st \in Nat /\ deferred.conn \in ConnToken /\ deferred.size \in Nat \cup {NoLen}
    BY DEF Typed, TypeInv, WriterTypeOK
  <2>3. after = "loop" => Says(deferred.conn)
    BY <1>5 DEF FlushHead, TruthInv
  <2>4. (after = "loop" => Told') /\ wire'[Len(wire')].ex <= exchange'
    BY <1>1, <2>1, <2>2, <2>3, HeadTells DEF Says
  <2>5. Says(deferred.conn) => Says(deferred.conn)'
    BY <1>1 DEF Says
  <2>6. pc' \in {"flushBody", "exit"}
    BY <2>1 DEF ContinueFlush
  <2> QED BY <1>1, <2>3, <2>4, <2>5, <2>6 DEF TruthInv
<1>6. CASE FlushBody /\ open
  <2>1. PICK r \in WriteResults(deferred.size) : PutBody(r) /\ ContinueFlush(r, after)
    BY <1>6 DEF FlushBody
  <2>2. deferred.size \in Nat
    BY DEF Typed, TypeInv, WriterTypeOK
  <2>3. after = "loop" => Told
    BY <1>1 DEF TruthInv
  <2>4. (after = "loop" => Told') /\ wire'[Len(wire')].ex <= exchange'
    BY <1>1, <2>1, <2>2, <2>3, BodyTells DEF TruthInv
  <2>5. pc' # "flushBody"
    BY <1>1, <2>1 DEF ContinueFlush
  <2> QED BY <1>2, <2>4, <2>5
<1> QED BY <1>1, <1>3, <1>4, <1>5, <1>6 DEF FlushNothing, FlushHead, FlushBody, connVars, writerState

LEMMA RestTruth ==
  ASSUME TruthInv, CloseRejected \/ ThreadEnds \/ Shutdown \/ Restart \/ UNCHANGED vars
  PROVE  TruthInv'
<1>1. /\ UNCHANGED <<hdr, exchange, wire, http_keep_alive, header_written, after, deferred>>
      /\ open' => open
      /\ pc' = pc \/ pc' = "gone" \/ (pc' = "loop" /\ ~open')
  BY DEF CloseRejected, ThreadEnds, Shutdown, Restart, CloseConn, vars, txVars, connVars, streamState,
         writerState
<1> QED BY <1>1, SameTruth

LEMMA TruthStep ==
  ASSUME Plain, Typed, TruthInv, [Next]_vars
  PROVE  TruthInv'
<1>1. ASSUME HandlerCall \/ WriterStep PROVE TruthInv'
  BY <1>1, CallTruth, PutTruth, FlushTruth DEF WriterStep
<1>2. ASSUME HeadTooBig PROVE TruthInv'
  BY <1>2, RejectTruth DEF HeadTooBig
<1> QED BY <1>1, <1>2, ReadingTruth, LineTruth, ServeTruth, BodyReadTruth, RestTruth, Steps

LEMMA TruthInit == Init => TruthInv
BY DEF Init, NoHeaders, TruthInv, Told, HeadOnWire

LEMMA PlainTruth ==
  ASSUME Plain
  PROVE  Spec => []TruthInv
BY TruthInit, TruthStep, ConnectionTyped, PTL DEF Spec

(* What the connection header of a reply says, unless the handler set it,   *)
(* is what the server does next.                                            *)
THEOREM ConnHeaderIsTrue == Spec => []ConnHeaderTruthful
<1>1. CASE Plain
  <2>1. TruthInv => ConnHeaderTruthful
    BY DEF TruthInv, Told, Says, ConnHeaderTruthful
  <2> QED BY <1>1, <2>1, PlainTruth, PTL
<1>2. CASE ~Plain
  <2>1. ConnHeaderTruthful
    BY <1>2 DEF Plain, ConnHeaderTruthful
  <2> QED BY <2>1, PTL
<1> QED BY <1>1, <1>2

------------------------------------------------------------------------------
(* The replies of Conversation, read off the wire *)

ReplyOf(w) == [to |-> w.ex, unbroken |-> w.whole /\ ~w.torn]
Replies == [i \in 1 .. Len(wire) |-> ReplyOf(wire[i])]
ReplyType == [to : Nat, unbroken : BOOLEAN]

LEMMA ReplyTyped ==
  ASSUME NEW w \in ResponseType
  PROVE  ReplyOf(w) \in ReplyType
<1>1. w.ex \in Nat
  BY DEF ResponseType
<1>2. (w.whole /\ ~w.torn) \in BOOLEAN
  OBVIOUS
<1> QED BY <1>1, <1>2 DEF ReplyOf, ReplyType

LEMMA RepliesTyped ==
  ASSUME wire \in Seq(ResponseType)
  PROVE  Replies \in Seq(ReplyType) /\ Len(Replies) = Len(wire)
<1>1. \A i \in 1 .. Len(wire) : ReplyOf(wire[i]) \in ReplyType
  BY ElementOfSeq, ReplyTyped
<1>2. Len(wire) \in Nat
  OBVIOUS
<1> QED BY <1>1, <1>2 DEF Replies

LEMMA RepliesAppend ==
  ASSUME wire \in Seq(ResponseType), NEW w \in ResponseType, wire' = Append(wire, w)
  PROVE  Replies' = Append(Replies, ReplyOf(w))
<1>1. /\ wire' \in Seq(ResponseType) /\ Len(wire') = Len(wire) + 1
      /\ \A i \in 1 .. Len(wire) : wire'[i] = wire[i]
      /\ wire'[Len(wire) + 1] = w
  BY AppendProperties
<1>2. Replies' \in Seq(ReplyType) /\ Len(Replies') = Len(wire')
  <2>1. \A i \in 1 .. Len(wire') : ReplyOf(wire'[i]) \in ReplyType
    BY <1>1, ElementOfSeq, ReplyTyped
  <2>2. Len(wire') \in Nat
    BY <1>1
  <2> QED BY <2>1, <2>2 DEF Replies
<1>3. /\ Append(Replies, ReplyOf(w)) \in Seq(ReplyType)
      /\ Len(Append(Replies, ReplyOf(w))) = Len(wire) + 1
      /\ \A i \in 1 .. Len(wire) : Append(Replies, ReplyOf(w))[i] = Replies[i]
      /\ Append(Replies, ReplyOf(w))[Len(wire) + 1] = ReplyOf(w)
  BY RepliesTyped, ReplyTyped, AppendProperties
<1>4. \A i \in 1 .. Len(wire) + 1 : Replies'[i] = ReplyOf(wire'[i])
  BY <1>1 DEF Replies
<1>5. \A i \in 1 .. Len(wire) : Replies[i] = ReplyOf(wire[i])
  BY DEF Replies
<1>6. \A i \in 1 .. Len(Replies') : Replies'[i] = Append(Replies, ReplyOf(w))[i]
  BY <1>1, <1>2, <1>3, <1>4, <1>5
<1> QED BY <1>1, <1>2, <1>3, <1>6, SeqEqual

LEMMA RepliesExcept ==
  ASSUME wire \in Seq(ResponseType), NEW k \in 1 .. Len(wire), NEW w \in ResponseType,
         w.ex = wire[k].ex, wire' = [wire EXCEPT ![k] = w]
  PROVE  Replies' = [Replies EXCEPT ![k].unbroken = w.whole /\ ~w.torn]
<1>1. Len(wire') = Len(wire)
      /\ \A i \in 1 .. Len(wire) : wire'[i] = IF i = k THEN w ELSE wire[i]
  BY ExceptSeq
<1>2. Replies' = [i \in 1 .. Len(wire) |-> ReplyOf(IF i = k THEN w ELSE wire[i])]
  BY <1>1 DEF Replies
<1>3. Replies[k] = ReplyOf(wire[k])
  BY DEF Replies
<1>4. [ReplyOf(wire[k]) EXCEPT !.unbroken = w.whole /\ ~w.torn] = ReplyOf(w)
  BY DEF ReplyOf
<1>5. [Replies EXCEPT ![k].unbroken = w.whole /\ ~w.torn]
        = [i \in 1 .. Len(wire) |-> IF i = k THEN ReplyOf(w) ELSE Replies[i]]
  BY <1>3, <1>4 DEF Replies
<1>6. \A i \in 1 .. Len(wire) : ReplyOf(IF i = k THEN w ELSE wire[i])
                                  = IF i = k THEN ReplyOf(w) ELSE Replies[i]
  BY DEF Replies
<1> QED BY <1>2, <1>5, <1>6

------------------------------------------------------------------------------
(* The invariant.  While the connection is alive the replies on the wire    *)
(* tell where the thread is: all requests are answered between exchanges,   *)
(* and within one the last is answered, unbroken, from the moment its head  *)
(* is sent.  A deferred head counts as written but is not on the wire.      *)

Waiting == Len(wire) = exchange - 1 /\ ~HeadOnWire
Replied == Len(wire) = exchange /\ (wire # <<>> => HeadOnWire)
Answered == /\ wire # <<>> /\ Len(wire) = exchange /\ HeadOnWire
            /\ wire[Len(wire)].whole /\ ~wire[Len(wire)].torn

Composed ==
  /\ deferred.on => header_written
  /\ IF header_written /\ ~deferred.on THEN Answered ELSE Waiting

ConvInv ==
  /\ pc = "discardRecv" => open
  /\ Alive =>
       /\ pc \in {"loop", "discardRecv"} => Replied
       /\ pc \in {"head", "headRecv", "serve"} => Waiting /\ ~header_written /\ ~deferred.on
       /\ pc \in {"handler", "bodyRecv", "put", "flush"} => Composed
       /\ pc = "put" => header_written
       /\ pc = "flushBody" => Answered

LEMMA SameWire ==
  ASSUME UNCHANGED <<exchange, wire>>
  PROVE  (Waiting' <=> Waiting) /\ (Replied' <=> Replied) /\ (Answered' <=> Answered)
BY DEF Waiting, Replied, Answered, HeadOnWire

LEMMA SameComposed ==
  ASSUME UNCHANGED <<exchange, wire, header_written, deferred>>
  PROVE  Composed' <=> Composed
BY SameWire DEF Composed

(* A head that goes out, and a part of a body. *)
LEMMA HeadReplies ==
  ASSUME Typed, Waiting, UNCHANGED exchange,
         NEW st \in Nat, NEW conn \in ConnToken, NEW len \in Nat \cup {NoLen},
         NEW r \in HeadResults, PutHead(st, conn, len, r)
  PROVE  /\ Replies' = Append(Replies, [to |-> exchange, unbroken |-> r.res = "ok"])
         /\ r.res = "ok" => Answered'
         /\ open' = KeepsOpen(r.res)
<1> DEFINE w == [ex |-> exchange, st |-> st, conn |-> conn, len |-> len,
                 whole |-> r.whole, sent |-> 0, torn |-> r.res # "ok"]
<1>1. wire \in Seq(ResponseType) /\ exchange \in Nat
  BY DEF Typed, TypeInv, WriterTypeOK
<1>2. w \in ResponseType
  BY <1>1, HeadResultType DEF ResponseType
<1>3. wire' = Append(wire, w) /\ open' = KeepsOpen(r.res)
  BY DEF PutHead
<1>4. ReplyOf(w) = [to |-> exchange, unbroken |-> r.res = "ok"]
  <2>1. (r.whole /\ ~(r.res # "ok")) = (r.res = "ok")
    BY HeadResultType
  <2>2. w.ex = exchange /\ w.whole = r.whole /\ w.torn = (r.res # "ok")
    OBVIOUS
  <2> QED BY <2>1, <2>2 DEF ReplyOf
<1>5. /\ Len(wire') = Len(wire) + 1 /\ wire' # <<>> /\ wire'[Len(wire) + 1] = w
  BY <1>1, <1>2, <1>3, AppendProperties
<1>6. ASSUME r.res = "ok" PROVE Answered'
  <2>1. w.ex = exchange /\ w.whole /\ ~w.torn
    BY <1>6, HeadResultType
  <2>2. Len(wire') = exchange'
    BY <1>1, <1>5 DEF Waiting
  <2>3. wire'[Len(wire')] = w
    BY <1>5
  <2> HIDE DEF w
  <2> QED BY <1>5, <2>1, <2>2, <2>3 DEF Answered, HeadOnWire
<1> QED BY <1>1, <1>2, <1>3, <1>4, <1>6, RepliesAppend

LEMMA BodyReplies ==
  ASSUME Typed, Answered, UNCHANGED exchange,
         NEW m \in Nat, NEW r \in WriteResults(m), PutBody(r)
  PROVE  /\ r.res = "ok" => Replies' = Replies /\ Answered'
         /\ r.res # "ok" => Replies' = [Replies EXCEPT ![exchange].unbroken = FALSE]
         /\ open' = KeepsOpen(r.res)
<1> DEFINE k == Len(wire)
           w == AddBody(wire[k], r)
<1>1. wire \in Seq(ResponseType) /\ k \in 1 .. Len(wire) /\ k = exchange
  BY DEF Typed, TypeInv, WriterTypeOK, Answered
<1>2. wire[k] \in ResponseType
  BY <1>1, ElementOfSeq
<1>3. /\ w \in ResponseType /\ w.ex = wire[k].ex /\ w.whole = wire[k].whole
      /\ w.torn <=> wire[k].torn \/ r.res # "ok"
  BY <1>2, AddBodyType
<1>4. wire' = [wire EXCEPT ![k] = w] /\ open' = KeepsOpen(r.res)
  BY DEF PutBody, Answered
<1>5. wire[k].whole /\ ~wire[k].torn /\ wire[k].ex = exchange
  BY DEF Answered, HeadOnWire
<1>6. /\ wire' \in Seq(ResponseType) /\ Len(wire') = k /\ wire'[k] = w
  BY <1>1, <1>3, <1>4, ExceptSeq
<1> HIDE DEF w
<1>7. Replies' = [Replies EXCEPT ![k].unbroken = w.whole /\ ~w.torn]
  BY <1>1, <1>3, <1>4, RepliesExcept
<1>8. ASSUME r.res = "ok" PROVE Replies' = Replies /\ Answered'
  <2>1. (w.whole /\ ~w.torn) = TRUE
    BY <1>3, <1>5, <1>8
  <2>2. Replies[k].unbroken = TRUE
    BY <1>1, <1>5 DEF Replies, ReplyOf
  <2>3. Replies[k] = [Replies[k] EXCEPT !.unbroken = TRUE]
    BY <1>1, <2>2 DEF Replies, ReplyOf
  <2>4. Replies' = Replies
    BY <1>7, <2>1, <2>3 DEF Replies
  <2>5. Answered'
    <3>1. wire' # <<>> /\ Len(wire') = exchange' /\ wire'[Len(wire')] = w
      BY <1>1, <1>6
    <3>2. w.ex = exchange' /\ w.whole /\ ~w.torn
      BY <1>3, <1>5, <1>8
    <3> QED BY <3>1, <3>2 DEF Answered, HeadOnWire
  <2> QED BY <2>4, <2>5
<1>9. ASSUME r.res # "ok" PROVE Replies' = [Replies EXCEPT ![exchange].unbroken = FALSE]
  <2>1. (w.whole /\ ~w.torn) = FALSE
    BY <1>3, <1>9
  <2> QED BY <1>1, <1>7, <2>1
<1> QED BY <1>4, <1>8, <1>9

------------------------------------------------------------------------------
(* The steps of Conversation, as the thread makes them *)

ConvStep == [Peer!Next]_<<exchange, Replies, Phase>>

LEMMA QuietReplies ==
  ASSUME UNCHANGED exchange, Replies' = Replies, Phase' \in {Phase, "over"}
  PROVE  ConvStep
<1>1. CASE Phase = "over"
  BY <1>1 DEF ConvStep
<1>2. CASE Phase # "over"
  BY <1>2 DEF ConvStep, Peer!Next, Peer!End, Replies, ReplyOf
<1> QED BY <1>1, <1>2

LEMMA QuietStep ==
  ASSUME UNCHANGED <<exchange, wire>>, Phase' \in {Phase, "over"}
  PROVE  ConvStep
BY QuietReplies DEF Replies

LEMMA TakeStep ==
  ASSUME Phase = "idle", exchange' = exchange + 1, UNCHANGED wire, Phase' \in {"serving", "over"}
  PROVE  ConvStep
BY DEF ConvStep, Peer!Next, Peer!Take

LEMMA ReplyStep ==
  ASSUME wire \in Seq(ResponseType), Phase = "serving", Waiting, UNCHANGED exchange,
         NEW ok \in BOOLEAN,
         Replies' = Append(Replies, [to |-> exchange, unbroken |-> ok]),
         Phase' \in (IF ok THEN {"serving", "idle", "over"} ELSE {"over"})
  PROVE  ConvStep
<1>1. Len(Replies) = exchange - 1
  BY RepliesTyped DEF Waiting
<1> QED BY <1>1, Zenon DEF ConvStep, Peer!Next, Peer!Reply, Replies, ReplyOf

LEMMA BreakOffStep ==
  ASSUME wire \in Seq(ResponseType), Phase = "serving", Answered, UNCHANGED exchange,
         Replies' = [Replies EXCEPT ![exchange].unbroken = FALSE], Phase' = "over"
  PROVE  ConvStep
<1>1. Len(Replies) = exchange
  BY RepliesTyped DEF Answered
<1> QED BY <1>1, Zenon DEF ConvStep, Peer!Next, Peer!BreakOff, Replies, ReplyOf

LEMMA RepliedStep ==
  ASSUME wire \in Seq(ResponseType), Phase = "serving", Answered, UNCHANGED exchange,
         Replies' = Replies, Phase' = "idle"
  PROVE  ConvStep
<1>1. Len(Replies) = exchange
  BY RepliesTyped DEF Answered
<1>2. Replies[exchange].unbroken
  <2>1. exchange \in 1 .. Len(wire)
    BY DEF Answered
  <2> QED BY <2>1 DEF Answered, Replies, ReplyOf
<1> QED BY <1>1, <1>2, Zenon DEF ConvStep, Peer!Next, Peer!Replied, Replies, ReplyOf

------------------------------------------------------------------------------
(* Every step keeps the invariant and is a step of Conversation.            *)

Kept == ConvInv' /\ ConvStep

(* Steps that leave the wire alone and stay within the exchange, ... *)
LEMMA WithinExchange ==
  ASSUME UNCHANGED <<exchange, wire>>, open' => open,
         pc \notin {"loop", "discardRecv", "exit", "gone"}, pc' \notin {"loop", "discardRecv"}
  PROVE  ConvStep
<1>1. Phase' \in {Phase, "over"}
  BY DEF Phase, Alive
<1> QED BY <1>1, QuietStep

(* ... or after which nothing is said any more *)
LEMMA EndsTalk ==
  ASSUME UNCHANGED <<exchange, wire>>, pc' \in {"exit", "gone"} \/ ~open', pc' # "discardRecv"
  PROVE  Kept
<1>1. ~Alive'
  BY DEF Alive
<1>2. Phase' = "over" /\ ConvInv'
  BY <1>1 DEF Phase, ConvInv
<1> QED BY <1>2, QuietStep DEF Kept

LEMMA StartKept ==
  ASSUME Typed, Replied, Phase = "idle", StartExchange, UNCHANGED wire
  PROVE  Kept
<1>1. exchange' = exchange + 1 /\ pc' = "head" /\ ~header_written' /\ ~deferred'.on
  BY DEF StartExchange, FreshWriter, NoDeferred
<1>2. Phase' \in {"serving", "over"}
  BY <1>1 DEF Phase
<1>3. exchange \in Nat /\ Len(wire) \in Nat
  BY DEF Typed, TypeInv, WriterTypeOK
<1>4. Waiting'
  BY <1>1, <1>3 DEF Waiting, Replied, HeadOnWire
<1>5. ConvInv'
  BY <1>1, <1>4 DEF ConvInv
<1> QED BY <1>1, <1>2, <1>5, TakeStep DEF Kept

LEMMA BetweenKept ==
  ASSUME Typed, ConvInv, LoopEnds \/ LoopAgain \/ DiscardRecv \/ RecvThrows
  PROVE  Kept
<1>1. CASE LoopEnds \/ RecvThrows
  BY <1>1, EndsTalk DEF LoopEnds, RecvThrows
<1>2. CASE LoopAgain
  <2>1. pc = "loop" /\ Alive /\ Phase = "idle" /\ UNCHANGED <<wire, open>>
    BY <1>2 DEF LoopAgain, Phase, Alive, connVars
  <2>2. Replied
    BY <2>1 DEF ConvInv
  <2>3. CASE ~raw_io /\ http_body_pending' > 0
    <3>1. pc' = "discardRecv" /\ UNCHANGED exchange
      BY <1>2, <2>3 DEF LoopAgain
    <3>2. Replied' /\ open' /\ Phase' = "idle"
      BY <2>1, <2>2, <3>1, SameWire DEF Alive, Phase
    <3>3. ConvInv'
      BY <3>1, <3>2 DEF ConvInv
    <3> QED BY <2>1, <3>1, <3>2, <3>3, QuietStep DEF Kept
  <2>4. CASE ~(~raw_io /\ http_body_pending' > 0)
    BY <1>2, <2>1, <2>2, <2>4, StartKept DEF LoopAgain
  <2> QED BY <2>3, <2>4
<1>3. CASE DiscardRecv
  <2>1. pc = "discardRecv" /\ StartExchange /\ UNCHANGED wire
    BY <1>3 DEF DiscardRecv
  <2>2. Alive /\ Phase = "idle" /\ Replied
    BY <2>1 DEF ConvInv, Alive, Phase
  <2> QED BY <2>1, <2>2, StartKept
<1> QED BY <1>1, <1>2, <1>3

LEMMA RejectKept ==
  ASSUME NEW st, ConvInv, pc = "head", Reject(st)
  PROVE  Kept
<1>1. /\ UNCHANGED <<exchange, wire, open>> /\ pc' = "flush"
      /\ header_written' /\ deferred'.on
  BY DEF Reject, connVars
<1>2. Alive' => Waiting /\ Composed'
  BY <1>1, SameWire DEF Alive, ConvInv, Composed
<1>3. ConvInv'
  BY <1>1, <1>2 DEF ConvInv
<1> QED BY <1>1, <1>3, WithinExchange DEF Kept

LEMMA HeadKept ==
  ASSUME ConvInv, HeadAborted \/ HeadOnClosed \/ HeadTooBig \/ HeadNeedsMore \/ HeadRecv
  PROVE  Kept
<1>1. CASE HeadAborted \/ HeadNeedsMore
  <2>1. /\ UNCHANGED <<exchange, wire, open, header_written, deferred>>
        /\ pc = "head" /\ pc' \in {"serve", "headRecv"}
    BY <1>1 DEF HeadAborted, HeadNeedsMore, Scanning, connVars, writerState
  <2>2. ConvInv'
    BY <2>1, SameWire DEF ConvInv, Alive
  <2> QED BY <2>1, <2>2, WithinExchange DEF Kept
<1>2. CASE HeadOnClosed
  BY <1>2, EndsTalk DEF HeadOnClosed, connVars
<1>3. CASE HeadTooBig
  BY <1>3, RejectKept DEF HeadTooBig, Scanning
<1>4. CASE HeadRecv
  <2>1. UNCHANGED <<exchange, wire, header_written, deferred>> /\ pc = "headRecv"
    BY <1>4 DEF HeadRecv, writerState
  <2>2. (pc' = "head" /\ UNCHANGED open) \/ (pc' = "loop" /\ ~open')
    BY <1>4 DEF HeadRecv, RecvData, CloseConn, RecvClosed
  <2>3. CASE pc' = "head" /\ UNCHANGED open
    <3>1. ConvInv'
      BY <2>1, <2>3, SameWire DEF ConvInv, Alive
    <3> QED BY <2>1, <2>3, <3>1, WithinExchange DEF Kept
  <2>4. CASE pc' = "loop" /\ ~open'
    BY <2>1, <2>4, EndsTalk
  <2> QED BY <2>2, <2>3, <2>4
<1> QED BY <1>1, <1>2, <1>3, <1>4

LEMMA LineKept ==
  ASSUME ConvInv, NEW e \in LineEnds,
         \/ RequestLineInvalid(e) \/ RequestLineThrows(e) \/ RequestLine(e)
         \/ HeaderLine(e) \/ HeadComplete(e)
  PROVE  Kept
<1>1. CASE RequestLineInvalid(e)
  BY <1>1, RejectKept DEF RequestLineInvalid, Scanning
<1>2. CASE RequestLineThrows(e)
  BY <1>2, EndsTalk DEF RequestLineThrows
<1>3. CASE RequestLine(e) \/ HeaderLine(e) \/ HeadComplete(e)
  <2>1. /\ UNCHANGED <<exchange, wire, open, header_written, deferred>>
        /\ pc = "head" /\ pc' \in {"head", "serve"}
    BY <1>3 DEF RequestLine, HeaderLine, HeadComplete, Scanning, connVars, writerState
  <2>2. ConvInv'
    BY <2>1, SameWire DEF ConvInv, Alive
  <2> QED BY <2>1, <2>2, WithinExchange DEF Kept
<1> QED BY <1>1, <1>2, <1>3

LEMMA ServeKept ==
  ASSUME ConvInv, DropMutation \/ CallHandler
  PROVE  Kept
<1>1. UNCHANGED <<exchange, wire, open>> /\ pc = "serve"
  BY DEF DropMutation, CallHandler, connVars
<1>2. CASE DropMutation
  <2>1. pc' = "flush" /\ header_written' /\ deferred'.on
    BY <1>2 DEF DropMutation
  <2>2. ConvInv'
    BY <1>1, <2>1, SameWire DEF ConvInv, Alive, Composed
  <2> QED BY <1>1, <2>1, <2>2, WithinExchange DEF Kept
<1>3. CASE CallHandler
  <2>1. pc' = "handler" /\ UNCHANGED <<header_written, deferred>>
    BY <1>3 DEF CallHandler, writerState
  <2>2. ConvInv'
    BY <1>1, <2>1, SameWire DEF ConvInv, Alive, Composed
  <2> QED BY <1>1, <2>1, <2>2, WithinExchange DEF Kept
<1> QED BY <1>2, <1>3

LEMMA BodyReadKept ==
  ASSUME ~Catches, ConvInv,
         \/ BodyReadNothing \/ BodyRecv
         \/ \E size \in BodyReads : BodyReadBuffered(size) \/ BodyReadSocket(size)
  PROVE  Kept
<1>1. UNCHANGED <<exchange, wire, header_written, deferred>> /\ pc \in {"handler", "bodyRecv"}
  BY DEF BodyReadNothing, BodyRecv, BodyReadBuffered, BodyReadSocket, InHandler, writerState
<1>2. \/ pc' \in {"handler", "bodyRecv"} /\ UNCHANGED open
      \/ pc' = "exit" \/ (pc' = "handler" /\ ~open')
  BY DEF BodyReadNothing, BodyRecv, BodyReadBuffered, BodyReadSocket, InHandler, connVars,
         RecvData, RecvTimeout, RecvClosed, CloseConn, RecvError, Raise
<1>3. CASE pc' \in {"handler", "bodyRecv"} /\ UNCHANGED open
  <2>1. ConvInv'
    BY <1>1, <1>3, SameComposed DEF ConvInv, Alive
  <2> QED BY <1>1, <1>3, <2>1, WithinExchange DEF Kept
<1>4. CASE pc' = "exit" \/ (pc' = "handler" /\ ~open')
  BY <1>1, <1>4, EndsTalk
<1> QED BY <1>2, <1>3, <1>4

------------------------------------------------------------------------------
(* The writer's calls.  A send that fails closes the socket or, as nobody   *)
(* catches what it throws, ends the thread's loop.                          *)

LEMMA HeadSent ==
  ASSUME Typed, Alive, Waiting, UNCHANGED exchange, pc \notin {"loop", "discardRecv"},
         NEW st \in Nat, NEW conn \in ConnToken, NEW len \in Nat \cup {NoLen},
         NEW r \in HeadResults, PutHead(st, conn, len, r),
         Returns(r.res) \/ pc' = "exit"
  PROVE  /\ ConvStep
         /\ IF r.res = "ok" THEN Answered' ELSE ~Alive'
<1>1. /\ Replies' = Append(Replies, [to |-> exchange, unbroken |-> r.res = "ok"])
      /\ r.res = "ok" => Answered'
      /\ open' = KeepsOpen(r.res)
  BY HeadReplies
<1>2. r.res # "ok" => ~Alive'
  BY <1>1, HeadResultType DEF Alive, KeepsOpen, Returns
<1>3. Phase = "serving" /\ Phase' \in {"serving", "idle", "over"} /\ (~Alive' => Phase' = "over")
  BY DEF Phase
<1>4. wire \in Seq(ResponseType)
  BY DEF Typed, TypeInv, WriterTypeOK
<1>5. CASE r.res = "ok"
  <2>1. (r.res = "ok") = TRUE
    BY <1>5
  <2>2. Replies' = Append(Replies, [to |-> exchange, unbroken |-> TRUE])
    BY <1>1, <2>1
  <2> QED BY <1>1, <1>3, <1>4, <1>5, <2>2, ReplyStep
<1>6. CASE r.res # "ok"
  <2>1. (r.res = "ok") = FALSE
    BY <1>6
  <2>2. Replies' = Append(Replies, [to |-> exchange, unbroken |-> FALSE])
    BY <1>1, <2>1
  <2> QED BY <1>2, <1>3, <1>4, <1>6, <2>2, ReplyStep
<1> QED BY <1>5, <1>6

LEMMA BodySent ==
  ASSUME Typed, Alive, Answered, UNCHANGED exchange, pc \notin {"loop", "discardRecv"},
         NEW m \in Nat, NEW r \in WriteResults(m), PutBody(r),
         Returns(r.res) \/ pc' = "exit"
  PROVE  /\ ConvStep
         /\ IF r.res = "ok" THEN Answered' ELSE ~Alive'
<1>1. /\ r.res = "ok" => Replies' = Replies /\ Answered'
      /\ r.res # "ok" => Replies' = [Replies EXCEPT ![exchange].unbroken = FALSE]
      /\ open' = KeepsOpen(r.res)
  BY BodyReplies
<1>2. r.res # "ok" => ~Alive'
  BY <1>1, WriteResultType DEF Alive, KeepsOpen, Returns
<1>3. Phase = "serving" /\ Phase' \in {"serving", "idle", "over"} /\ (~Alive' => Phase' = "over")
  BY DEF Phase
<1>4. wire \in Seq(ResponseType)
  BY DEF Typed, TypeInv, WriterTypeOK
<1>5. CASE r.res = "ok"
  <2>1. CASE Phase' = "idle"
    BY <1>1, <1>3, <1>4, <1>5, <2>1, RepliedStep
  <2>2. CASE Phase' \in {Phase, "over"}
    BY <1>1, <1>5, <2>2, QuietReplies
  <2> QED BY <1>1, <1>3, <1>5, <2>1, <2>2
<1>6. CASE r.res # "ok"
  BY <1>1, <1>2, <1>3, <1>4, <1>6, BreakOffStep
<1> QED BY <1>5, <1>6

LEMMA HeaderKept ==
  ASSUME ~Catches, Typed, ConvInv, pc = "handler", ~header_written, UNCHANGED exchange,
         NEW st \in Nat, NEW next \in {"handler", "put"}, Header(st, next)
  PROVE  Kept
<1>1. open => Alive /\ Waiting /\ ~deferred.on
  BY DEF ConvInv, Composed, Alive
<1>2. CASE UpgradeClosed
  BY <1>2, EndsTalk DEF UpgradeClosed, Raise
<1>3. CASE Defer(st, next)
  <2>1. /\ UNCHANGED <<wire, open>> /\ pc' = next
        /\ header_written' /\ deferred'.on
    BY <1>3 DEF Defer, FlagStream, connVars
  <2>2. ConvInv'
    BY <1>1, <2>1, SameWire DEF ConvInv, Composed, Alive
  <2> QED BY <2>1, <2>2, WithinExchange DEF Kept
<1>4. CASE SendHead(st, next)
  <2>1. header_written' /\ UNCHANGED deferred
    BY <1>4 DEF SendHead, FlagStream
  <2>2. CASE UNCHANGED wire /\ Raise
    BY <2>2, EndsTalk DEF Raise
  <2>3. CASE open /\ \E r \in HeadResults :
                       PutHead(st, ConnHeader, FramedLen, r) /\ Continue(r, next)
    <3>1. PICK r \in HeadResults : PutHead(st, ConnHeader, FramedLen, r) /\ Continue(r, next)
      BY <2>3
    <3>2. ConnHeader \in ConnToken /\ FramedLen \in Nat \cup {NoLen}
      BY DEF Typed, TypeInv, WriterTypeOK, HeaderType, ConnToken, ConnHeader, FramedLen
    <3>3. IF Returns(r.res) THEN pc' = next ELSE pc' = "exit"
      BY <3>1 DEF Continue, Raise
    <3>4. ConvStep /\ IF r.res = "ok" THEN Answered' ELSE ~Alive'
      BY <1>1, <2>3, <3>1, <3>2, <3>3, HeadSent
    <3>5. ConvInv'
      BY <1>1, <2>1, <2>3, <3>3, <3>4 DEF ConvInv, Composed, Alive, Returns
    <3> QED BY <3>4, <3>5 DEF Kept
  <2> QED BY <1>4, <2>2, <2>3 DEF SendHead
<1> QED BY <1>2, <1>3, <1>4 DEF Header

LEMMA CallKept ==
  ASSUME ~Catches, Typed, ConvInv, HandlerCall
  PROVE  Kept
<1>1. CASE SetHeaders
  <2>1. /\ UNCHANGED <<exchange, wire, open, header_written, deferred, pc>>
        /\ pc = "handler"
    BY <1>1 DEF SetHeaders, InHandler, connVars
  <2>2. ConvInv'
    BY <2>1, SameComposed DEF ConvInv, Alive
  <2> QED BY <2>1, <2>2, WithinExchange DEF Kept
<1>2. CASE WriteHeaderAgain
  BY <1>2, EndsTalk DEF WriteHeaderAgain, Raise
<1>3. ASSUME NEW st \in Statuses, WriteHeader(st) PROVE Kept
  BY <1>3, HeaderKept, HandlerAssumption DEF WriteHeader, InHandler
<1>4. ASSUME NEW n \in Chunks, Write(n) PROVE Kept
  <2>1. pc = "handler" /\ UNCHANGED exchange
    BY <1>4 DEF Write, InHandler
  <2>2. CASE ~header_written
    BY <1>4, <2>1, <2>2, HeaderKept DEF Write, OK
  <2>3. CASE header_written
    <3>1. UNCHANGED <<wire, open, header_written, deferred>> /\ pc' = "put"
      BY <1>4, <2>3 DEF Write, connVars, writerState
    <3>2. ConvInv'
      BY <2>1, <2>3, <3>1, SameComposed DEF ConvInv, Alive
    <3> QED BY <2>1, <3>1, <3>2, WithinExchange DEF Kept
  <2> QED BY <2>2, <2>3
<1> QED BY <1>1, <1>2, <1>3, <1>4 DEF HandlerCall

LEMMA PutKept ==
  ASSUME ~Catches, Typed, ConvInv, PutDeferred \/ PutExtra \/ Put
  PROVE  Kept
<1>1. pc = "put" /\ UNCHANGED <<exchange, header_written>> /\ deferred'.on = deferred.on
  BY DEF PutDeferred, PutExtra, Put, writerState, Typed, TypeInv, WriterTypeOK
<1>2. CASE PutDeferred \/ PutExtra
  <2>1. UNCHANGED <<wire, open>> /\ pc' = "handler"
    BY <1>2 DEF PutDeferred, PutExtra, connVars
  <2>2. ConvInv'
    BY <1>1, <2>1, SameWire DEF ConvInv, Alive, Composed
  <2> QED BY <1>1, <2>1, <2>2, WithinExchange DEF Kept
<1>3. CASE Put
  <2>1. CASE ~open
    BY <1>1, <1>3, <2>1, EndsTalk DEF Put, Raise
  <2>2. CASE open
    <3>1. Alive /\ header_written /\ ~deferred.on /\ Answered
      BY <1>1, <1>3, <2>2 DEF Put, ConvInv, Composed, Alive
    <3>2. PICK r \in WriteResults(CanWrite) : PutBody(r) /\ Continue(r, "handler")
      BY <1>3, <2>2 DEF Put
    <3>3. CanWrite \in Nat
      BY <1>3 DEF Put, CanWrite, Typed, TypeInv, WriterTypeOK, NoLen
    <3>4. IF Returns(r.res) THEN pc' = "handler" ELSE pc' = "exit"
      BY <3>2 DEF Continue, Raise
    <3>5. ConvStep /\ IF r.res = "ok" THEN Answered' ELSE ~Alive'
      BY <1>1, <3>1, <3>2, <3>3, <3>4, BodySent
    <3>6. ConvInv'
      BY <1>1, <3>1, <3>4, <3>5 DEF ConvInv, Composed
    <3> QED BY <3>5, <3>6 DEF Kept
  <2> QED BY <2>1, <2>2
<1> QED BY <1>2, <1>3

LEMMA ReturnKept ==
  ASSUME ConvInv, HandlerReturns \/ HandlerThrows
  PROVE  Kept
<1>1. CASE HandlerThrows
  BY <1>1, EndsTalk DEF HandlerThrows
<1>2. CASE HandlerReturns
  <2>1. /\ UNCHANGED <<exchange, wire, open, header_written, deferred>>
        /\ pc = "handler" /\ pc' = "flush"
    BY <1>2 DEF HandlerReturns, connVars, writerState
  <2>2. ConvInv'
    BY <2>1, SameComposed DEF ConvInv, Alive
  <2> QED BY <2>1, <2>2, WithinExchange DEF Kept
<1> QED BY <1>1, <1>2

(* flush() returns to the loop, or to the close() after a rejected request. *)
LEMMA FlushedInv ==
  ASSUME Typed, pc' \in {after, "flushBody", "exit"}, Alive' => Answered'
  PROVE  ConvInv'
<1>1. pc' \in {"loop", "close", "flushBody", "exit"}
  BY DEF Typed, TypeInv
<1> QED BY <1>1 DEF ConvInv, Answered, Replied, Alive

LEMMA FlushKept ==
  ASSUME Typed, ConvInv, FlushNothing \/ FlushEmpty \/ FlushHead \/ FlushBody
  PROVE  Kept
<1>1. /\ UNCHANGED exchange /\ pc' \in {after, "flushBody", "exit"}
      /\ pc \in {"flush", "flushBody"}
  BY DEF FlushNothing, FlushEmpty, FlushHead, FlushBody, ContinueFlush
<1>2. after \in {"loop", "close"} /\ wire \in Seq(ResponseType)
  BY DEF Typed, TypeInv, WriterTypeOK
<1>3. CASE FlushNothing
  <2>1. UNCHANGED <<wire, open>> /\ pc' = after
    BY <1>3 DEF FlushNothing, connVars
  <2>2. CASE ~open
    BY <1>1, <1>2, <2>1, <2>2, EndsTalk
  <2>3. CASE open
    <3>1. Alive /\ Answered
      BY <1>3, <2>3 DEF FlushNothing, ConvInv, Composed, Alive
    <3>2. Answered' /\ Replies' = Replies
      BY <1>1, <2>1, <3>1, SameWire DEF Replies
    <3>3. Phase = "serving" /\ Phase' \in {"serving", "idle", "over"}
      BY <1>1, <3>1 DEF Phase
    <3>4. ConvStep
      <4>1. CASE Phase' = "idle"
        BY <1>1, <1>2, <3>1, <3>2, <3>3, <4>1, RepliedStep
      <4>2. CASE Phase' \in {Phase, "over"}
        BY <1>1, <3>2, <4>2, QuietReplies
      <4> QED BY <3>3, <4>1, <4>2
    <3> QED BY <1>1, <3>2, <3>4, FlushedInv DEF Kept
  <2> QED BY <2>2, <2>3
<1>4. CASE FlushEmpty
  <2>1. PICK r \in HeadResults : PutHead(OK, hdr.conn, 0, r) /\ ContinueFlush(r, after)
    BY <1>4 DEF FlushEmpty
  <2>2. Alive /\ Waiting
    BY <1>4 DEF FlushEmpty, ConvInv, Composed, Alive
  <2>3. OK \in Nat /\ hdr.conn \in ConnToken /\ 0 \in Nat \cup {NoLen}
    BY DEF OK, HeaderType, Typed, TypeInv, WriterTypeOK
  <2>4. ConvStep /\ IF r.res = "ok" THEN Answered' ELSE ~Alive'
    BY <1>1, <2>1, <2>2, <2>3, HeadSent DEF ContinueFlush
  <2> QED BY <1>1, <2>4, FlushedInv DEF Kept
<1>5. CASE FlushHead
  <2>1. Alive /\ Waiting
    BY <1>5 DEF FlushHead, ConvInv, Composed, Alive
  <2>2. CASE deferred.st \in TableLacks
    BY <1>1, <1>5, <2>2, EndsTalk DEF FlushHead
  <2>3. CASE deferred.st \notin TableLacks
    <3>1. PICK r \in HeadResults : /\ PutHead(deferred.st, deferred.conn, deferred.size, r)
                                   /\ ContinueFlush(r, "flushBody")
      BY <1>5, <2>3 DEF FlushHead
    <3>2. deferred.st \in Nat /\ deferred.conn \in ConnToken /\ deferred.size \in Nat \cup {NoLen}
      BY DEF Typed, TypeInv, WriterTypeOK
    <3>3. ConvStep /\ IF r.res = "ok" THEN Answered' ELSE ~Alive'
      BY <1>1, <2>1, <3>1, <3>2, HeadSent DEF ContinueFlush
    <3> QED BY <1>1, <3>3, FlushedInv DEF Kept
  <2> QED BY <2>2, <2>3
<1>6. CASE FlushBody
  <2>1. CASE ~open
    BY <1>1, <1>6, <2>1, EndsTalk DEF FlushBody
  <2>2. CASE open
    <3>1. PICK r \in WriteResults(deferred.size) : PutBody(r) /\ ContinueFlush(r, after)
      BY <1>6, <2>2 DEF FlushBody
    <3>2. Alive /\ Answered
      BY <1>6, <2>2 DEF FlushBody, ConvInv, Alive
    <3>3. deferred.size \in Nat
      BY DEF Typed, TypeInv, WriterTypeOK
    <3>4. ConvStep /\ IF r.res = "ok" THEN Answered' ELSE ~Alive'
      BY <1>1, <3>1, <3>2, <3>3, BodySent DEF ContinueFlush
    <3> QED BY <1>1, <3>4, FlushedInv DEF Kept
  <2> QED BY <2>1, <2>2
<1> QED BY <1>3, <1>4, <1>5, <1>6

------------------------------------------------------------------------------
LEMMA RestKept ==
  ASSUME ConvInv, CloseRejected \/ ThreadEnds \/ Shutdown \/ Restart \/ UNCHANGED vars
  PROVE  Kept
<1>1. CASE CloseRejected \/ ThreadEnds
  BY <1>1, EndsTalk DEF CloseRejected, ThreadEnds, CloseConn
<1>2. CASE Shutdown \/ Restart \/ UNCHANGED vars
  <2>1. /\ UNCHANGED <<exchange, wire, open, pc, header_written, deferred, http_keep_alive>>
    BY <1>2 DEF Shutdown, Restart, vars, txVars, connVars, streamState, writerState
  <2>2. ConvInv'
    BY <2>1, SameWire, SameComposed DEF ConvInv, Alive
  <2>3. Phase' \in {Phase, "over"}
    BY <2>1 DEF Phase, Alive
  <2> QED BY <2>1, <2>2, <2>3, QuietStep DEF Kept
<1> QED BY <1>1, <1>2

LEMMA ConvKept ==
  ASSUME ~Catches, Typed, ConvInv, [Next]_vars
  PROVE  Kept
<1>1. ASSUME HandlerCall \/ WriterStep PROVE Kept
  BY <1>1, CallKept, PutKept, ReturnKept, FlushKept DEF WriterStep
<1> QED BY <1>1, BetweenKept, HeadKept, LineKept, ServeKept, BodyReadKept, RestKept, Steps

LEMMA ConvInit == Init => ConvInv /\ Peer!Init
<1> SUFFICES ASSUME Init PROVE ConvInv /\ Peer!Init
  OBVIOUS
<1>1. pc = "loop" /\ open /\ ~done /\ http_keep_alive /\ wire = <<>> /\ exchange = 0
  BY DEF Init, ConnInit
<1>2. Phase = "idle"
  BY <1>1 DEF Phase, Alive
<1>3. Replies = <<>>
  BY <1>1 DEF Replies
<1>4. ConvInv
  BY <1>1 DEF ConvInv, Replied
<1> QED BY <1>1, <1>2, <1>3, <1>4 DEF Peer!Init, Replies, ReplyOf

(* A connection whose handler lets the writer's exceptions through is a     *)
(* Conversation: one reply to each request, in order and whole, before the  *)
(* next is taken up, and nothing after a reply that broke off.              *)
THEOREM ConnectionConverses ==
  ASSUME ~Catches
  PROVE  Spec => Converses
<1>1. Typed /\ ConvInv /\ [Next]_vars => ConvInv'
  BY ConvKept DEF Kept
<1>2. Typed /\ ConvInv /\ [Next]_vars
        => [Peer!Next]_<<exchange,
                         [i \in 1 .. Len(wire) |->
                            [to |-> wire[i].ex, unbroken |-> wire[i].whole /\ ~wire[i].torn]],
                         Phase>>
  BY ConvKept DEF Kept, ConvStep, Replies, ReplyOf
<1> QED BY <1>1, <1>2, ConvInit, ConnectionTyped, PTL DEF Spec, Converses, Peer!Spec
==============================================================================
