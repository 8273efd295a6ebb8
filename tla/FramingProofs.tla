---------------------------- MODULE FramingProofs ----------------------------
(* How a connection's reader (H1Pipeline) keeps its place in what a peer     *)
(* sends, for every peer whose bytes are framed as this server frames them, *)
(* wherever its stream breaks off: which bytes are heads and which are      *)
(* bodies, and whose.                                                       *)
EXTENDS H1PipelineProofs, FiniteSetTheorems, WellFoundedInduction, NaturalsInduction

(* A set of numbers up to n that is not empty has a greatest one. *)
LEMMA Greatest ==
  ASSUME NEW n \in Nat, NEW S, S \subseteq 1 .. n, S # {}
  PROVE  \E m \in S : \A j \in S : j <= m
<1> DEFINE T == {k \in 0 .. n : n - k \in S}
<1>0. S \subseteq Nat /\ \A j \in S : j <= n /\ n - j \in 0 .. n /\ n - (n - j) = j
  OBVIOUS
<1>1. T \subseteq Nat /\ T # {}
  <2>1. PICK i \in S : TRUE
    OBVIOUS
  <2>2. n - i \in T
    BY <1>0, <2>1
  <2>3. T \subseteq Nat
    OBVIOUS
  <2> HIDE DEF T
  <2> QED BY <2>2, <2>3
<1>2. PICK x \in T : \A y \in T : ~(<<y, x>> \in OpToRel(<, Nat))
  BY <1>1, NatLessThanWellFounded, WFMin
<1>3. \A y \in T : ~(y < x)
  BY <1>1, <1>2 DEF OpToRel
<1>4. PICK m \in S : x = n - m
  BY <1>0
<1>5. \A j \in S : n - j \in T
  BY <1>0
<1>6. \A j \in S : ~(n - j < n - m)
  BY <1>3, <1>4, <1>5
<1> HIDE DEF T
<1>7. \A j \in S : j \in Nat /\ m \in Nat
  OBVIOUS
<1> QED BY <1>6, <1>7

UnitSeqs == Seq([kind : UnitKind, val : Nat])

(* The units of a stream have their types. *)
LEMMA UnitAt ==
  ASSUME NEW s \in UnitSeqs, NEW i \in 1 .. Len(s)
  PROVE  s[i].kind \in UnitKind /\ s[i].val \in Nat /\ Len(s) \in Nat /\ i \in Nat
<1>1. s \in Seq([kind : UnitKind, val : Nat]) /\ Len(s) \in Nat
  BY DEF UnitSeqs
<1>2. s[i] \in [kind : UnitKind, val : Nat]
  BY <1>1, ElementOfSeq
<1> QED BY <1>1, <1>2

(* The head that ends at e begins at the last request line before it. *)
LEMMA LineStartIs ==
  ASSUME NEW s \in UnitSeqs, Honest(s), NEW e \in 1 .. Len(s)
  PROVE  /\ LineStart(s, e) \in 1 .. e
         /\ s[LineStart(s, e)].kind = "reqline"
         /\ \A j \in LineStart(s, e) + 1 .. e : s[j].kind # "reqline"
<1>1. Len(s) \in Nat /\ e \in Nat /\ s # <<>>
  BY UnitAt DEF UnitSeqs
<1> DEFINE S == {i \in 1 .. e : s[i].kind = "reqline"}
<1>2. 1 \in S
  BY <1>1 DEF Honest
<1>3. PICK m \in S : \A j \in S : j <= m
  BY <1>1, <1>2, Greatest
<1>4. \A j \in m + 1 .. e : s[j].kind # "reqline"
  BY <1>1, <1>3
<1> QED BY <1>3, <1>4 DEF LineStart

(* What a head declares of its body, as a number and from its last length   *)
LEMMA DeclaredType ==
  ASSUME NEW s \in UnitSeqs, Honest(s), NEW e \in 1 .. Len(s)
  PROVE  DeclaredBody(s, e) \in Nat
<1> DEFINE b == LineStart(s, e)
           lens == {i \in b .. e : s[i].kind = "clen"}
<1>1. b \in 1 .. e /\ e \in Nat /\ Len(s) \in Nat
  BY LineStartIs, UnitAt
<1> HIDE DEF b
<1>2. CASE lens = {}
  BY <1>2 DEF DeclaredBody, b
<1>3. CASE lens # {}
  <2>1. lens \subseteq 1 .. e
    BY <1>1
  <2>2. \E m \in lens : \A j \in lens : j <= m
    BY <1>1, <1>3, <2>1, Greatest
  <2> DEFINE m == CHOOSE i \in lens : \A j \in lens : j <= i
  <2>3. m \in lens
    BY <2>2
  <2>4. s[m].val \in Nat
    BY <1>1, <2>1, <2>3, UnitAt
  <2> QED BY <1>3, <2>4 DEF DeclaredBody, b
<1> QED BY <1>2, <1>3

(* What follows the end of a head *)
LEMMA BodyFollows ==
  ASSUME NEW s \in UnitSeqs, Honest(s), NEW e \in HeadEnds(s), NEW i \in 1 .. Len(s), e < i
  PROVE  /\ i <= e + DeclaredBody(s, e) => s[i].kind = "body"
         /\ i = e + DeclaredBody(s, e) + 1 => s[i].kind = "reqline"
<1>1. e \in 1 .. Len(s) /\ Len(s) \in Nat /\ DeclaredBody(s, e) \in Nat
  BY UnitAt, DeclaredType DEF HeadEnds
<1> DEFINE d == DeclaredBody(s, e)
<1>2. /\ \A k \in e + 1 .. Smaller(e + d, Len(s)) : s[k].kind = "body"
      /\ e + d < Len(s) => s[e + d + 1].kind = "reqline"
  BY DEF Honest
<1> HIDE DEF d
<1>3. d \in Nat
  BY <1>1 DEF d
<1> QED BY <1>1, <1>2, <1>3 DEF Smaller, d

(* Inside a head no body and no request begins. *)
LEMMA HeadGoesOn ==
  ASSUME NEW s \in UnitSeqs, Honest(s), NEW b \in 1 .. Len(s), NEW i \in 1 .. Len(s), b < i,
         s[b].kind = "reqline",
         \A k \in b + 1 .. i - 1 : s[k].kind # "end"
  PROVE  s[i].kind \notin {"body", "reqline"}
<1>1. b \in Nat /\ i \in Nat /\ Len(s) \in Nat
  BY UnitAt
<1>2. ASSUME NEW e \in HeadEnds(s), e < i PROVE b > e + DeclaredBody(s, e)
  <2>1. e \in 1 .. Len(s) /\ s[e].kind = "end" /\ DeclaredBody(s, e) \in Nat
    BY DeclaredType DEF HeadEnds
  <2>2. e < b
    BY <1>1, <1>2, <2>1
  <2>3. ~(b <= e + DeclaredBody(s, e))
    BY <2>2, BodyFollows
  <2> QED BY <1>1, <2>1, <2>3
<1>3. ASSUME s[i].kind = "body" PROVE FALSE
  <2>1. PICK e \in HeadEnds(s) : e < i /\ i <= e + DeclaredBody(s, e)
    BY <1>3 DEF Honest
  <2>2. e \in 1 .. Len(s) /\ DeclaredBody(s, e) \in Nat
    BY DeclaredType DEF HeadEnds
  <2> QED BY <1>1, <1>2, <2>1, <2>2
<1>4. ASSUME s[i].kind = "reqline" PROVE FALSE
  <2>1. PICK e \in HeadEnds(s) : i = e + DeclaredBody(s, e) + 1
    BY <1>1, <1>4 DEF Honest
  <2>2. e \in 1 .. Len(s) /\ DeclaredBody(s, e) \in Nat
    BY DeclaredType DEF HeadEnds
  <2> QED BY <1>1, <1>2, <2>1, <2>2
<1> QED BY <1>3, <1>4

------------------------------------------------------------------------------
(* The invariant *)

ReqLines(n) == {i \in 1 .. n : stream[i].kind = "reqline"}
Lengths(b, e) == {i \in b .. e : stream[i].kind = "clen"}

(* What is still to be read of a body ends where the peer's body ends. *)
BodyOf(e) ==
  /\ e \in HeadEnds(stream) /\ e <= consumed
  /\ consumed + http_body_pending = e + DeclaredBody(stream, e)

Settled ==
  \/ consumed = 0 /\ http_body_pending = 0
  \/ \E e \in HeadEnds(stream) : BodyOf(e)

(* What the scanner knows of the lines in front of it: of a head of which   *)
(* it has read a line, everything up to `seek`                              *)
LastLength ==
  IF Lengths(consumed + 1, seek) = {} THEN head.clen = NoLen
  ELSE \E m \in Lengths(consumed + 1, seek) :
         /\ \A j \in Lengths(consumed + 1, seek) : j <= m
         /\ head.clen = stream[m].val

Scan ==
  /\ ~head.complete
  /\ ~head.line => seek = consumed /\ head.clen = NoLen
  /\ head.line =>
       /\ http_body_pending = 0 /\ consumed < seek
       /\ stream[consumed + 1].kind = "reqline"
       /\ head.can = (stream[consumed + 1].val = 1)
       /\ \A i \in consumed + 2 .. seek : stream[i].kind \notin {"reqline", "end", "body"}
       /\ LastLength

Control ==
  /\ raw_io => /\ http_body_pending = 0
               /\ pc \notin {"head", "headRecv", "serve", "discardRecv"}
  /\ exchange = 0 => /\ consumed = 0 /\ http_body_pending = 0
                     /\ pc \in {"loop", "exit", "gone"}
  /\ pc = "discardRecv" => Known
  /\ pc = "loop" /\ open /\ exchange > 0 => Known

InHead == pc \in {"head", "headRecv"}
Cut == cut # NoCut

Framing ==
  /\ InHead => Settled /\ Scan /\ exchange = Cardinality(ReqLines(consumed)) + 1
  /\ pc = "serve" /\ head.complete =>
       /\ head.line /\ http_body_pending = 0 /\ consumed \in HeadEnds(stream)
       /\ DeclaredBody(stream, consumed) = PendingBody(head.can)
  /\ ~InHead /\ pc # "serve" /\ ~raw_io => Settled
  /\ ~InHead /\ ~raw_io /\ (head.complete \/ exchange = 0) =>
       exchange = Cardinality(ReqLines(consumed))

FInv == Typed /\ RawInv /\ CutInv /\ Control /\ (Honest(stream) /\ ~Cut => Framing)

(* Where the reader is in the stream *)
LEMMA Places ==
  ASSUME Typed
  PROVE  /\ stream \in UnitSeqs /\ Len(stream) \in Nat
         /\ consumed \in Nat /\ seek \in Nat /\ recvd \in Nat
         /\ consumed <= recvd /\ seek <= recvd /\ recvd <= Len(stream)
         /\ http_body_pending \in Nat /\ exchange \in Nat /\ want \in Nat
         /\ Buffered = recvd - consumed
<1>1. stream \in Seq([kind : UnitKind, val : Nat])
  BY StreamsAssumption DEF Typed, TypeInv, ConnTypeOK
<1>2. stream \in UnitSeqs /\ Len(stream) \in Nat /\ recvd \in 0 .. Len(stream)
  BY <1>1 DEF UnitSeqs, Typed, TypeInv, ConnTypeOK
<1>3. /\ consumed \in 0 .. recvd /\ seek \in 0 .. recvd /\ want \in Nat
      /\ http_body_pending \in Nat /\ exchange \in Nat
  BY DEF Typed, TypeInv, WriterTypeOK
<1> QED BY <1>2, <1>3 DEF Buffered

(* The count of unread body bytes counts body bytes. *)
LEMMA RestIsBody ==
  ASSUME Typed, Honest(stream), Settled,
         NEW i \in consumed + 1 .. consumed + http_body_pending, i <= Len(stream)
  PROVE  stream[i].kind = "body"
<1>1. consumed \in Nat /\ http_body_pending \in Nat /\ Len(stream) \in Nat /\ stream \in UnitSeqs
  BY Places
<1>2. PICK e \in HeadEnds(stream) : BodyOf(e)
  BY <1>1 DEF Settled
<1>3. e \in 1 .. Len(stream) /\ e <= consumed /\ i <= e + DeclaredBody(stream, e)
  BY <1>1, <1>2 DEF BodyOf, HeadEnds
<1>4. i \in 1 .. Len(stream) /\ e < i
  BY <1>1, <1>3
<1> QED BY <1>1, <1>3, <1>4, BodyFollows

(* What lies behind a body that was read to its end *)
LEMMA NextIsRequest ==
  ASSUME Typed, Honest(stream), Settled, http_body_pending = 0, consumed < Len(stream)
  PROVE  stream[consumed + 1].kind = "reqline"
<1>1. consumed \in Nat /\ Len(stream) \in Nat /\ stream \in UnitSeqs /\ stream # <<>>
  BY Places
<1>2. CASE consumed = 0
  BY <1>1, <1>2 DEF Honest
<1>3. CASE consumed # 0
  <2>1. PICK e \in HeadEnds(stream) : BodyOf(e)
    BY <1>3 DEF Settled
  <2>2. consumed + 1 \in 1 .. Len(stream) /\ e \in 1 .. Len(stream) /\ e < consumed + 1
    BY <1>1, <2>1 DEF BodyOf, HeadEnds
  <2>3. consumed + 1 = e + DeclaredBody(stream, e) + 1
    BY <1>1, <2>1 DEF BodyOf
  <2> QED BY <1>1, <2>2, <2>3, BodyFollows
<1> QED BY <1>2, <1>3

(* Taking some of a body leaves the rest of the same body. *)
LEMMA TakenIsSettled ==
  ASSUME Typed, Settled, UNCHANGED stream, NEW n \in Nat, n <= http_body_pending,
         consumed' = consumed + n, http_body_pending' = http_body_pending - n
  PROVE  Settled'
<1>1. consumed \in Nat /\ http_body_pending \in Nat
  BY Places
<1>2. CASE consumed = 0 /\ http_body_pending = 0
  BY <1>1, <1>2 DEF Settled
<1>3. CASE \E e \in HeadEnds(stream) : BodyOf(e)
  <2>1. PICK e \in HeadEnds(stream) : BodyOf(e)
    BY <1>3
  <2>2. e \in Nat /\ e <= consumed'
    BY <1>1, <2>1, Places DEF BodyOf, HeadEnds
  <2>3. consumed' + http_body_pending' = consumed + http_body_pending
    BY <1>1
  <2>4. BodyOf(e)'
    BY <2>1, <2>2, <2>3 DEF BodyOf
  <2> QED BY <2>1, <2>4 DEF Settled
<1> QED BY <1>2, <1>3 DEF Settled

(* The requests up to a place are finitely many. *)
LEMMA CountType ==
  ASSUME NEW n \in Nat
  PROVE  IsFiniteSet(ReqLines(n)) /\ Cardinality(ReqLines(n)) \in Nat
<1>1. IsFiniteSet(1 .. n)
  BY FS_Interval
<1>2. ReqLines(n) \in SUBSET (1 .. n)
  BY DEF ReqLines
<1> QED BY <1>1, <1>2, FS_Subset, FS_CardinalityType

(* Body bytes that leave the buffer or the socket change no count. *)
LEMMA TakenIsCounted ==
  ASSUME Typed, Honest(stream), Settled, UNCHANGED stream, NEW n \in Nat, n <= http_body_pending,
         consumed' = consumed + n, consumed + n <= Len(stream)
  PROVE  ReqLines(consumed)' = ReqLines(consumed)
<1>1. consumed \in Nat /\ http_body_pending \in Nat /\ Len(stream) \in Nat
  BY Places
<1>2. \A i \in consumed + 1 .. consumed + n : stream[i].kind = "body"
  <2> TAKE i \in consumed + 1 .. consumed + n
  <2>1. i \in consumed + 1 .. consumed + http_body_pending /\ i <= Len(stream)
    BY <1>1
  <2> QED BY <2>1, RestIsBody
<1>3. \A i \in 1 .. consumed + n : stream[i].kind = "reqline" => i <= consumed
  BY <1>1, <1>2
<1> QED BY <1>1, <1>3 DEF ReqLines

(* What the invariant's parts depend on *)
LEMMA SameFraming ==
  ASSUME UNCHANGED <<stream, consumed, http_body_pending>>
  PROVE  /\ Settled' <=> Settled
         /\ Honest(stream)' <=> Honest(stream)
         /\ Cardinality(ReqLines(consumed))' = Cardinality(ReqLines(consumed))
BY DEF Settled, BodyOf, ReqLines

------------------------------------------------------------------------------
(* The steps *)

(* What a step of handler or writer may do to the body counter *)
LEMMA HeaderBody ==
  ASSUME NEW st, NEW next, Header(st, next)
  PROVE  \/ raw_io' /\ http_body_pending' = 0
         \/ (raw_io' <=> raw_io) /\ http_body_pending' = http_body_pending
BY DEF Header, UpgradeClosed, Defer, SendHead, FlagStream

(* Handler and writer read nothing; only an upgrade changes the counter. *)
LEMMA RespondBody ==
  ASSUME HandlerCall \/ WriterStep
  PROVE  /\ \/ raw_io' /\ http_body_pending' = 0
            \/ (raw_io' <=> raw_io) /\ http_body_pending' = http_body_pending
         /\ UNCHANGED <<stream, exchange, after>>
         /\ pc \in {"handler", "put", "flush", "flushBody"}
         /\ \/ pc' \in {"handler", "put", "flush", "flushBody", "exit"}
            \/ pc' = after /\ pc \in {"flush", "flushBody"}
<1>1. ASSUME NEW st, NEW next, Header(st, next) PROVE UNCHANGED stream
  BY <1>1 DEF Header, UpgradeClosed, Defer, SendHead, connVars
<1>2. CASE SetHeaders \/ WriteHeaderAgain
  BY <1>2 DEF SetHeaders, WriteHeaderAgain, InHandler, Raise, connVars, streamState
<1>3. CASE \E st \in Statuses : WriteHeader(st)
  BY <1>1, <1>3, HeaderBody, HeaderGoes DEF WriteHeader, InHandler
<1>4. CASE \E n \in Chunks : Write(n)
  <2>1. PICK n \in Chunks : Write(n)
    BY <1>4
  <2>2. CASE header_written
    BY <2>1, <2>2 DEF Write, InHandler, connVars, streamState
  <2>3. CASE ~header_written
    BY <1>1, <2>1, <2>3, HeaderBody, HeaderGoes DEF Write, InHandler
  <2> QED BY <2>2, <2>3
<1>5. CASE WriterStep
  <2>1. UNCHANGED <<stream, exchange, after, raw_io, http_body_pending>>
    BY <1>5 DEF WriterStep, PutDeferred, PutExtra, Put, HandlerReturns, HandlerThrows,
                FlushNothing, FlushEmpty, FlushHead, FlushBody, streamState, connVars
  <2>2. /\ pc \in {"handler", "put", "flush", "flushBody"}
        /\ \/ pc' \in {"handler", "put", "flush", "flushBody", "exit"}
           \/ pc' = after /\ pc \in {"flush", "flushBody"}
    BY <1>5 DEF WriterStep, PutDeferred, PutExtra, Put, HandlerReturns, HandlerThrows,
                FlushNothing, FlushEmpty, FlushHead, FlushBody, Raise, Continue, ContinueFlush
  <2> QED BY <2>1, <2>2
<1> QED BY <1>2, <1>3, <1>4, <1>5 DEF HandlerCall

(* Where raw mode, and the first exchange, leave the thread *)
LEMMA ControlStep == FInv /\ [Next]_vars => Control'
<1> SUFFICES ASSUME FInv, [Next]_vars PROVE Control'
  OBVIOUS
<1> USE DEF FInv, Control, Known, rxVars, exitVars, streamState, connVars
<1>0. exchange \in Nat /\ http_body_pending \in Nat /\ Buffered \in Nat /\ after \in {"loop", "close"}
  BY Places DEF Typed, TypeInv
<1>1. ASSUME LoopEnds \/ HeadAborted \/ HeadOnClosed \/ HeadNeedsMore PROVE Control'
  BY <1>0, <1>1 DEF LoopEnds, HeadAborted, HeadOnClosed, HeadNeedsMore, Scanning
<1>2. ASSUME LoopAgain PROVE Control'
  <2>1. pc = "loop" /\ open /\ ~raw_io /\ raw_io' = raw_io
    BY <1>2 DEF LoopAgain, RawInv
  <2>2. CASE http_body_pending' > 0
    <3>1. /\ http_body_pending' = http_body_pending - Smaller(http_body_pending, Buffered)
          /\ pc' = "discardRecv" /\ UNCHANGED <<exchange, head, cut>>
      BY <1>2, <2>1, <2>2 DEF LoopAgain, TakeBody
    <3>2. http_body_pending # 0
      BY <1>0, <2>2, <3>1 DEF Smaller
    <3> QED BY <1>0, <2>1, <3>1, <3>2
  <2>3. CASE ~(http_body_pending' > 0)
    BY <1>0, <1>2, <2>1, <2>3 DEF LoopAgain, StartExchange
  <2> QED BY <2>2, <2>3
<1>3. ASSUME DiscardRecv PROVE Control'
  BY <1>0, <1>3 DEF DiscardRecv, StartExchange
<1>4. ASSUME RecvThrows \/ HeadRecv PROVE Control'
  BY <1>0, <1>4 DEF RecvThrows, HeadRecv, CloseConn, RecvClosed
<1>5. ASSUME HeadTooBig PROVE Control'
  BY <1>0, <1>5 DEF HeadTooBig, Reject, Scanning
<1>6. ASSUME NEW e \in LineEnds,
             \/ RequestLineInvalid(e) \/ RequestLineThrows(e) \/ RequestLine(e)
             \/ HeaderLine(e) \/ HeadComplete(e)
      PROVE  Control'
  BY <1>0, <1>6 DEF RequestLineInvalid, RequestLineThrows, RequestLine, HeaderLine, HeadComplete,
     Reject, Scanning
<1>7. ASSUME DropMutation \/ CallHandler PROVE Control'
  <2>1. /\ pc = "serve" /\ pc' \in {"flush", "handler"}
        /\ UNCHANGED <<exchange, raw_io>>
    BY <1>7 DEF DropMutation, CallHandler
  <2> QED BY <2>1
<1>8. ASSUME BodyReadNothing PROVE Control'
  BY <1>0, <1>8 DEF BodyReadNothing, InHandler
<1>9. ASSUME NEW size \in BodyReads, BodyReadBuffered(size) \/ BodyReadSocket(size)
      PROVE  Control'
  BY <1>0, <1>9 DEF BodyReadBuffered, BodyReadSocket, InHandler, TakeBody
<1>10. ASSUME BodyRecv PROVE Control'
  BY <1>0, <1>10 DEF BodyRecv, TakeBody, Raise
<1>11. ASSUME HandlerCall \/ WriterStep, UNCHANGED <<rxVars, exitVars>> PROVE Control'
  <2>1. CASE pc' = "loop"
    <3>1. after = "loop" /\ pc \in {"flush", "flushBody"}
      BY <2>1, <1>11, RespondBody
    <3>2. Known
      BY <3>1 DEF CutInv, Known
    <3> QED BY <1>0, <1>11, <2>1, <3>1, <3>2, RespondBody
  <2>2. CASE pc' # "loop"
    BY <1>0, <1>11, <2>2, RespondBody
  <2> QED BY <2>1, <2>2
<1>12. ASSUME CloseRejected \/ ThreadEnds PROVE Control'
  BY <1>0, <1>12 DEF CloseRejected, ThreadEnds, CloseConn
<1>13. ASSUME Shutdown \/ Restart \/ UNCHANGED vars PROVE Control'
  BY <1>0, <1>13 DEF Shutdown, Restart, vars, txVars
<1> QED BY <1>1, <1>2, <1>3, <1>4, <1>5, <1>6, <1>7, <1>8, <1>9, <1>10, <1>11, <1>12, <1>13, Steps

------------------------------------------------------------------------------
(* A line of the head *)

(* Of a peer that frames its requests, the next line begins where the last  *)
(* one ended, once a request line was read.                                 *)
LEMMA NextLine ==
  ASSUME Typed, Honest(stream), Scan, head.line, NEW e \in LineEnds, IsLineEnd(e)
  PROVE  /\ e = seek + 1 /\ e \in 1 .. Len(stream)
         /\ stream[e].kind \notin {"body", "reqline"}
<1>1. /\ stream \in UnitSeqs /\ Len(stream) \in Nat /\ consumed \in Nat /\ seek \in Nat
      /\ recvd \in Nat /\ seek <= recvd /\ recvd <= Len(stream)
  BY Places
<1>2. e \in 1 .. Len(stream) /\ e \in seek + 1 .. recvd
  BY <1>1 DEF LineEnds
<1> DEFINE b == consumed + 1
           i == seek + 1
<1>3. b \in 1 .. Len(stream) /\ i \in 1 .. Len(stream) /\ b < i /\ i <= recvd
  BY <1>1, <1>2 DEF Scan
<1>4. stream[b].kind = "reqline" /\ \A k \in b + 1 .. i - 1 : stream[k].kind # "end"
  BY <1>1 DEF Scan
<1> HIDE DEF b
<1>5. stream[i].kind \notin {"body", "reqline"}
  BY <1>1, <1>3, <1>4, HeadGoesOn
<1>6. i \in LineEnds
  BY <1>1, <1>3, <1>5 DEF LineEnds
<1>7. e = i
  BY <1>1, <1>2, <1>6 DEF IsLineEnd
<1> QED BY <1>2, <1>5, <1>7

(* Of a peer that frames its requests, the first line is a request line,    *)
(* unless the scanner starts inside a body.                                 *)
LEMMA FirstLine ==
  ASSUME Typed, Honest(stream), Settled, Scan, ~head.line, http_body_pending = 0,
         NEW e \in LineEnds, IsLineEnd(e)
  PROVE  e = seek + 1 /\ stream[e].kind = "reqline"
<1>1. /\ Len(stream) \in Nat /\ consumed \in Nat /\ seek = consumed
      /\ recvd \in Nat /\ recvd <= Len(stream)
  BY Places DEF Scan
<1>2. e \in seek + 1 .. recvd
  BY DEF LineEnds
<1>3. stream[seek + 1].kind = "reqline"
  BY <1>1, <1>2, NextIsRequest
<1>4. seek + 1 \in LineEnds
  BY <1>1, <1>2, <1>3 DEF LineEnds
<1>5. e = seek + 1
  BY <1>1, <1>2, <1>4 DEF IsLineEnd
<1> QED BY <1>3, <1>5

(* The scanner knows the lines it has read, after each of them. *)
LEMMA RequestLineScanned ==
  ASSUME Typed, Honest(stream), Settled, Scan, NEW e \in LineEnds, RequestLine(e)
  PROVE  Scan'
<1>1. /\ IsLineEnd(e) /\ ~head.line /\ e = seek + 1 /\ stream[e].kind = "reqline"
      /\ head' = [head EXCEPT !.line = TRUE, !.can = stream[e].val = 1]
      /\ seek' = e /\ UNCHANGED <<stream, consumed, http_body_pending>>
  BY DEF RequestLine, BadRequestLine, connVars, streamState
<1>2. /\ Len(stream) \in Nat /\ consumed \in Nat /\ seek = consumed
      /\ recvd \in Nat /\ recvd <= Len(stream) /\ http_body_pending \in Nat
  BY <1>1, Places DEF Scan
<1>3. e \in consumed + 1 .. recvd
  BY <1>1, <1>2 DEF LineEnds
<1>4. http_body_pending = 0
  <2> SUFFICES ASSUME http_body_pending # 0 PROVE FALSE
    OBVIOUS
  <2>1. e \in consumed + 1 .. consumed + http_body_pending /\ e <= Len(stream)
    BY <1>1, <1>2, <1>3
  <2>2. stream[e].kind = "body"
    BY <2>1, RestIsBody
  <2> QED BY <1>1, <2>2
<1>5. head \in HeadType
  BY DEF Typed, TypeInv, HeadType
<1>6. (stream[e].val = 1) \in BOOLEAN
  OBVIOUS
<1>7. /\ head'.line /\ ~head'.complete /\ head'.clen = NoLen
      /\ head'.can = (stream'[consumed' + 1].val = 1)
  BY <1>1, <1>2, <1>5, <1>6 DEF HeadType, Scan
<1>8. Lengths(consumed + 1, seek)' = {}
  BY <1>1, <1>2 DEF Lengths
<1>9. /\ http_body_pending' = 0 /\ consumed' < seek'
      /\ stream'[consumed' + 1].kind = "reqline"
      /\ \A i \in consumed' + 2 .. seek' : stream'[i].kind \notin {"reqline", "end", "body"}
  BY <1>1, <1>2, <1>4
<1> QED BY <1>7, <1>8, <1>9 DEF Scan, LastLength

LEMMA HeaderLineScanned ==
  ASSUME Typed, Honest(stream), Scan, NEW e \in LineEnds, HeaderLine(e)
  PROVE  Scan'
<1>1. /\ IsLineEnd(e) /\ head.line /\ ~BlankLine(e)
      /\ head' = IF e = seek + 1 THEN AddHeader(head, stream[e]) ELSE head
      /\ seek' = e /\ UNCHANGED <<stream, consumed, http_body_pending>>
  BY DEF HeaderLine, connVars, streamState
<1>2. e = seek + 1 /\ e \in 1 .. Len(stream) /\ stream[e].kind \notin {"body", "reqline", "end"}
  BY <1>1, NextLine DEF BlankLine
<1>3. /\ Len(stream) \in Nat /\ consumed \in Nat /\ seek \in Nat /\ stream \in UnitSeqs
      /\ consumed < seek
  BY <1>1, Places DEF Scan
<1>4. head \in HeadType
  BY DEF Typed, TypeInv, HeadType
<1>5. /\ head'.line = head.line /\ head'.complete = head.complete /\ head'.can = head.can
      /\ head'.clen = IF stream[e].kind = "clen" THEN stream[e].val ELSE head.clen
  BY <1>1, <1>2, <1>4 DEF AddHeader, HeadType
<1>6. \A i \in consumed' + 2 .. seek' : stream'[i].kind \notin {"reqline", "end", "body"}
  <2> TAKE i \in consumed' + 2 .. seek'
  <2>1. i \in consumed + 2 .. seek \/ i = e
    BY <1>1, <1>2, <1>3
  <2>2. \A k \in consumed + 2 .. seek : stream[k].kind \notin {"reqline", "end", "body"}
    BY <1>1 DEF Scan
  <2> QED BY <1>1, <1>2, <2>1, <2>2
<1> DEFINE lens == Lengths(consumed + 1, seek)
<1>7. \A j \in lens : j \in Nat /\ j <= seek
  BY <1>3 DEF Lengths
<1>8. LastLength'
  <2>1. CASE stream[e].kind = "clen"
    <3>1. Lengths(consumed + 1, seek)' = lens \cup {e}
      BY <1>1, <1>2, <1>3, <2>1 DEF Lengths
    <3>2. \A j \in lens \cup {e} : j <= e
      BY <1>2, <1>3, <1>7
    <3> HIDE DEF lens
    <3> QED BY <1>1, <1>5, <2>1, <3>1, <3>2 DEF LastLength
  <2>2. CASE stream[e].kind # "clen"
    <3>1. Lengths(consumed + 1, seek)' = lens
      BY <1>1, <1>2, <1>3, <2>2 DEF Lengths
    <3>2. head'.clen = head.clen /\ LastLength
      BY <1>1, <1>5, <2>2 DEF Scan
    <3> QED BY <1>1, <3>1, <3>2 DEF LastLength
  <2> QED BY <2>1, <2>2
<1>9. /\ http_body_pending' = 0 /\ consumed' < seek'
      /\ stream'[consumed' + 1].kind = "reqline"
      /\ head'.can = (stream'[consumed' + 1].val = 1)
  BY <1>1, <1>2, <1>3, <1>5 DEF Scan
<1>10. head'.line /\ ~head'.complete
  BY <1>1, <1>5 DEF Scan
<1> QED BY <1>6, <1>8, <1>9, <1>10 DEF Scan

(* The body the server expects behind a head is the one the peer declared.  *)
LEMMA HeadAgrees ==
  ASSUME Typed, Honest(stream), Scan, head.line, NEW e \in LineEnds, IsLineEnd(e),
         BlankLine(e)
  PROVE  e \in HeadEnds(stream) /\ DeclaredBody(stream, e) = PendingBody(head.can)
<1>1. e = seek + 1 /\ e \in 1 .. Len(stream) /\ stream[e].kind = "end"
  BY NextLine DEF BlankLine
<1>2. /\ Len(stream) \in Nat /\ consumed \in Nat /\ seek \in Nat /\ stream \in UnitSeqs
      /\ consumed < seek
  BY Places DEF Scan
<1> DEFINE b == consumed + 1
           l == LineStart(stream, e)
           lens == Lengths(b, seek)
<1>3. l \in 1 .. e /\ stream[l].kind = "reqline" /\ \A j \in l + 1 .. e : stream[j].kind # "reqline"
  BY <1>1, <1>2, LineStartIs
<1>4. l = b
  <2>1. stream[b].kind = "reqline" /\ \A i \in b + 1 .. seek : stream[i].kind # "reqline"
    BY <1>2 DEF Scan
  <2>2. b \in Nat /\ b < e
    BY <1>1, <1>2
  <2> HIDE DEF b, l
  <2>3. ~(l < b)
    BY <1>1, <1>2, <1>3, <2>1, <2>2
  <2>4. ~(b < l)
    BY <1>1, <1>2, <1>3, <2>1, <2>2
  <2> QED BY <1>3, <2>2, <2>3, <2>4
<1> DEFINE declared == {i \in l .. e : stream[i].kind = "clen"}
<1>5. declared = lens
  BY <1>1, <1>2, <1>4 DEF Lengths
<1>6. DeclaredBody(stream, e) =
        IF stream[b].val = 1 /\ lens # {}
        THEN stream[CHOOSE i \in lens : \A j \in lens : j <= i].val ELSE 0
  <2>1. DeclaredBody(stream, e) =
          IF stream[l].val = 1 /\ declared # {}
          THEN stream[CHOOSE i \in declared : \A j \in declared : j <= i].val ELSE 0
    BY Zenon DEF DeclaredBody
  <2> HIDE DEF b, l, declared, lens
  <2> QED BY <1>4, <1>5, <2>1, Zenon
<1>7. head.can = (stream[b].val = 1) /\ LastLength
  BY DEF Scan
<1>8. e \in HeadEnds(stream)
  BY <1>1 DEF HeadEnds
<1>9. CASE lens = {}
  BY <1>6, <1>7, <1>9, <1>8 DEF LastLength, PendingBody
<1>10. CASE lens # {}
  <2>1. PICK m \in lens : (\A j \in lens : j <= m) /\ head.clen = stream[m].val
    BY <1>7, <1>10 DEF LastLength
  <2>2. \A j \in lens : j \in Nat /\ j \in 1 .. Len(stream)
    BY <1>1, <1>2 DEF Lengths
  <2>3. \A i \in lens : (\A j \in lens : j <= i) => i = m
    BY <2>1, <2>2
  <2>4. (CHOOSE i \in lens : \A j \in lens : j <= i) = m
    BY <2>1, <2>3
  <2>5. stream[m].val \in Nat
    BY <1>2, <2>2, UnitAt
  <2>6. head.clen # NoLen
    BY <2>1, <2>5 DEF NoLen
  <2> HIDE DEF lens, b
  <2> QED BY <1>6, <1>7, <1>10, <1>8, <2>1, <2>4, <2>6 DEF PendingBody
<1> QED BY <1>9, <1>10

(* A head holds one request line. *)
LEMMA HeadCounted ==
  ASSUME Typed, Honest(stream), Scan, head.line, NEW e \in LineEnds, IsLineEnd(e),
         BlankLine(e)
  PROVE  Cardinality(ReqLines(e)) = Cardinality(ReqLines(consumed)) + 1
<1>1. e = seek + 1 /\ e \in 1 .. Len(stream) /\ stream[e].kind = "end"
  BY NextLine DEF BlankLine
<1>2. consumed \in Nat /\ seek \in Nat /\ consumed < seek
  BY Places DEF Scan
<1>3. /\ stream[consumed + 1].kind = "reqline"
      /\ \A i \in consumed + 2 .. seek : stream[i].kind # "reqline"
  BY DEF Scan
<1>4. ReqLines(e) = ReqLines(consumed) \cup {consumed + 1}
  BY <1>1, <1>2, <1>3 DEF ReqLines
<1>5. consumed + 1 \notin ReqLines(consumed)
  BY <1>2 DEF ReqLines
<1> QED BY <1>2, <1>4, <1>5, CountType, FS_AddElement

------------------------------------------------------------------------------

(* Steps that leave the stream's account alone *)
LEMMA QuietFraming ==
  ASSUME FInv, Honest(stream), ~Cut, UNCHANGED <<stream, consumed, http_body_pending, exchange>>,
         ~InHead, pc # "serve", ~InHead', pc' # "serve",
         raw_io => raw_io', head' = head
  PROVE  Framing'
BY SameFraming DEF FInv, Framing

(* A head that was cut short is never forgotten. *)
LEMMA CutStays ==
  ASSUME CutInv, [Next]_vars, ~Cut'
  PROVE  ~Cut /\ cut' = cut /\ ~HeadAborted
<1>1. ~HeadAborted
  BY DEF HeadAborted, CutInv, Cut, NoCut
<1>2. cut' = cut
  BY <1>1, FlagsMove DEF exitVars, Shutdown, Restart
<1> QED BY <1>1, <1>2 DEF Cut

(* No step loses the account, unless it cuts a head short. *)
LEMMA FramingStep == FInv /\ Honest(stream) /\ [Next]_vars /\ ~Cut' => Framing'
<1> SUFFICES ASSUME FInv, Honest(stream), [Next]_vars, ~Cut' PROVE Framing'
  OBVIOUS
<1>c. ~Cut /\ ~HeadAborted
  BY CutStays DEF FInv
<1>k. Known => head.complete
  BY <1>c DEF Known, Cut
<1> USE <1>c, <1>k
<1> USE DEF rxVars, streamState, connVars, InHead
<1>0. /\ Typed /\ RawInv /\ CutInv /\ Control /\ Framing
      /\ stream \in UnitSeqs /\ Len(stream) \in Nat
      /\ consumed \in Nat /\ seek \in Nat /\ recvd \in Nat
      /\ consumed <= recvd /\ seek <= recvd /\ recvd <= Len(stream)
      /\ http_body_pending \in Nat /\ exchange \in Nat /\ want \in Nat
      /\ Buffered = recvd - consumed /\ after \in {"loop", "close"}
  BY Places DEF FInv, Typed, TypeInv
<1>1. ASSUME LoopEnds PROVE Framing'
  BY <1>1, QuietFraming DEF LoopEnds
<1>2. ASSUME LoopAgain PROVE Framing'
  <2>1. /\ pc = "loop" /\ open /\ ~raw_io /\ ~raw_io'
        /\ UNCHANGED stream
    BY <1>0, <1>2 DEF LoopAgain, RawInv
  <2> DEFINE n == Smaller(http_body_pending, Buffered)
  <2>2. consumed' = consumed + n /\ http_body_pending' = http_body_pending - n
    BY <1>2, <2>1 DEF LoopAgain, TakeBody
  <2>3. n \in Nat /\ n <= http_body_pending /\ consumed + n <= Len(stream)
    BY <1>0 DEF Smaller
  <2> HIDE DEF n
  <2>4. Settled /\ (head.complete \/ exchange = 0) /\ exchange = Cardinality(ReqLines(consumed))
    BY <1>0, <2>1 DEF Framing, Control
  <2>5. Settled' /\ Cardinality(ReqLines(consumed))' = Cardinality(ReqLines(consumed))
    BY <1>0, <2>1, <2>2, <2>3, <2>4, TakenIsSettled, TakenIsCounted
  <2>6. CASE http_body_pending' > 0
    <3>1. pc' = "discardRecv" /\ UNCHANGED <<exchange, head>>
      BY <1>2, <2>1, <2>6 DEF LoopAgain
    <3> QED BY <2>4, <2>5, <3>1 DEF Framing
  <2>7. CASE ~(http_body_pending' > 0)
    <3>1. StartExchange
      BY <1>2, <2>7 DEF LoopAgain
    <3>2. Scan'
      BY <3>1 DEF StartExchange, Scan, EmptyHead
    <3> QED BY <2>4, <2>5, <3>1, <3>2 DEF Framing, StartExchange
  <2> QED BY <2>6, <2>7
<1>3. ASSUME DiscardRecv PROVE Framing'
  <2>1. /\ pc = "discardRecv" /\ ~raw_io /\ StartExchange /\ want <= http_body_pending
        /\ head.complete /\ UNCHANGED raw_io
    BY <1>0, <1>3 DEF DiscardRecv, RawInv, Typed, Reads, Control
  <2>2. Settled /\ exchange = Cardinality(ReqLines(consumed))
    BY <1>0, <2>1 DEF Framing
  <2>3. Settled' /\ Cardinality(ReqLines(consumed))' = Cardinality(ReqLines(consumed))
    <3>1. CASE \E n \in 1 .. want : RecvData(want, n) /\ TakeBody(n)
      <4>1. PICK n \in 1 .. want : RecvData(want, n) /\ TakeBody(n)
        BY <3>1
      <4>2. /\ n \in Nat /\ n <= http_body_pending /\ UNCHANGED stream
            /\ consumed' = consumed + n /\ http_body_pending' = http_body_pending - n
            /\ consumed + n <= Len(stream)
        BY <1>0, <2>1, <4>1 DEF RecvData, TakeBody
      <4> QED BY <1>0, <2>2, <4>2, TakenIsSettled, TakenIsCounted
    <3>2. CASE (RecvTimeout(want) \/ RecvClosed) /\ UNCHANGED <<consumed, http_body_pending>>
      BY <2>2, <3>2, SameFraming DEF RecvTimeout, RecvClosed, CloseConn
    <3> QED BY <1>3, <3>1, <3>2 DEF DiscardRecv
  <2>4. Scan'
    BY <2>1 DEF StartExchange, Scan, EmptyHead
  <2> QED BY <2>1, <2>2, <2>3, <2>4 DEF Framing, StartExchange
<1>4. ASSUME RecvThrows PROVE Framing'
  <2>1. UNCHANGED <<stream, consumed, http_body_pending, exchange, raw_io, head>>
        /\ pc' = "exit" /\ pc \in {"discardRecv", "headRecv"}
    BY <1>4 DEF RecvThrows, RecvError
  <2> QED BY <1>0, <2>1, SameFraming DEF Framing, Control, Scan
<1>5. ASSUME HeadOnClosed PROVE Framing'
  <2>1. UNCHANGED <<stream, consumed, http_body_pending, exchange, raw_io, head>>
        /\ pc' = "loop" /\ pc = "head"
    BY <1>5 DEF HeadOnClosed, Scanning
  <2> QED BY <1>0, <2>1, SameFraming DEF Framing, Control, Scan
<1>6. ASSUME HeadNeedsMore PROVE Framing'
  <2>1. UNCHANGED <<stream, consumed, http_body_pending, exchange, raw_io, head, seek>>
        /\ pc' = "headRecv" /\ pc = "head"
    BY <1>6 DEF HeadNeedsMore, Scanning
  <2> QED BY <1>0, <2>1, SameFraming DEF Framing, Scan, LastLength, Lengths
<1>7. ASSUME HeadRecv PROVE Framing'
  <2>1. UNCHANGED <<stream, consumed, http_body_pending, exchange, raw_io, head, seek>>
        /\ pc' \in {"head", "loop"} /\ pc = "headRecv"
    BY <1>7 DEF HeadRecv, RecvData, RecvClosed, CloseConn
  <2>2. Scan' /\ Settled' /\ exchange' = Cardinality(ReqLines(consumed))' + 1
    BY <1>0, <2>1, SameFraming DEF Framing, Scan, LastLength, Lengths
  <2> QED BY <1>0, <2>1, <2>2 DEF Framing, Scan, Control
<1>8. ASSUME HeadTooBig \/ \E e \in LineEnds : RequestLineInvalid(e) \/ RequestLineThrows(e)
      PROVE  Framing'
  <2>1. UNCHANGED <<stream, consumed, http_body_pending, exchange, raw_io, head>>
        /\ pc' \in {"flush", "exit"} /\ pc = "head"
    BY <1>8 DEF HeadTooBig, RequestLineInvalid, RequestLineThrows, Reject, Scanning
  <2> QED BY <1>0, <2>1, SameFraming DEF Framing, Control, Scan
<1>9. ASSUME NEW e \in LineEnds, RequestLine(e) \/ HeaderLine(e) PROVE Framing'
  <2>1. UNCHANGED <<stream, consumed, http_body_pending, exchange>> /\ pc = "head" /\ pc' = "head"
    BY <1>9 DEF RequestLine, HeaderLine, Scanning
  <2>2. Scan'
    BY <1>0, <1>9, <2>1, RequestLineScanned, HeaderLineScanned DEF Framing
  <2> QED BY <1>0, <2>1, <2>2, SameFraming DEF Framing
<1>10. ASSUME NEW e \in LineEnds, HeadComplete(e) PROVE Framing'
  <2>1. /\ pc = "head" /\ pc' = "serve" /\ IsLineEnd(e) /\ head.line /\ BlankLine(e)
        /\ head' = [head EXCEPT !.complete = TRUE] /\ consumed' = e
        /\ UNCHANGED <<stream, exchange>>
    BY <1>10 DEF HeadComplete, Scanning, EraseHead
  <2>2. Scan /\ exchange = Cardinality(ReqLines(consumed)) + 1
    BY <1>0, <2>1 DEF Framing
  <2>3. e \in HeadEnds(stream) /\ DeclaredBody(stream, e) = PendingBody(head.can)
    BY <1>0, <2>1, <2>2, HeadAgrees
  <2>4. Cardinality(ReqLines(e)) = Cardinality(ReqLines(consumed)) + 1
    BY <1>0, <2>1, <2>2, HeadCounted
  <2>5. head \in HeadType
    BY <1>0 DEF Typed, TypeInv, HeadType
  <2>6. head'.line /\ head'.can = head.can /\ head'.clen = head.clen
    BY <2>1, <2>5 DEF HeadType
  <2>7. PendingBody(head.can)' = PendingBody(head.can)
    BY <2>6 DEF PendingBody
  <2>8. Cardinality(ReqLines(consumed))' = Cardinality(ReqLines(e))
    BY <2>1 DEF ReqLines
  <2>9. DeclaredBody(stream, consumed)' = DeclaredBody(stream, e)
        /\ HeadEnds(stream)' = HeadEnds(stream)
    BY <2>1 DEF DeclaredBody, LineStart, HeadEnds
  <2>10. consumed' \in HeadEnds(stream)' /\ exchange' = Cardinality(ReqLines(consumed))'
    BY <2>1, <2>2, <2>3, <2>4, <2>8, <2>9
  <2>11. DeclaredBody(stream, consumed)' = PendingBody(head.can)'
    BY <2>3, <2>7, <2>9
  <2>12. head.line' /\ http_body_pending' = 0
    BY <1>10, <2>1, <2>2, <2>6 DEF Scan, HeadComplete, streamState
  <2> QED BY <2>1, <2>10, <2>11, <2>12 DEF Framing
<1>11. ASSUME DropMutation \/ CallHandler PROVE Framing'
  <2>a. pc = "serve" /\ pc' \in {"flush", "handler"} /\ UNCHANGED <<exchange, raw_io>>
    BY <1>11 DEF DropMutation, CallHandler
  <2>b. UNCHANGED <<stream, consumed, head>>
    BY <1>11 DEF DropMutation, CallHandler
  <2>c. ~raw_io /\ ~raw_io'
    BY <1>0, <2>a DEF Control
  <2>1. /\ pc = "serve" /\ pc' \in {"flush", "handler"} /\ ~raw_io /\ ~raw_io'
        /\ UNCHANGED <<stream, consumed, exchange, head>>
    BY <2>a, <2>b, <2>c
  <2>2. CASE ~head.complete
    BY <1>0, <2>1, <2>2 DEF CutInv
  <2>3. CASE head.complete
    <3>1. /\ head.line /\ consumed \in HeadEnds(stream)
          /\ DeclaredBody(stream, consumed) = PendingBody(head.can)
          /\ exchange = Cardinality(ReqLines(consumed))
      BY <1>0, <2>1, <2>3 DEF Framing
    <3>2. MayHaveBody = {head.can}
      BY <3>1 DEF MayHaveBody
    <3>3. http_body_pending' = PendingBody(head.can)
      BY <1>11, <3>2 DEF DropMutation, CallHandler, PendingBody
    <3>4. BodyOf(consumed)'
      BY <1>0, <2>1, <3>1, <3>3 DEF BodyOf
    <3>5. Settled'
      BY <2>1, <3>1, <3>4 DEF Settled, BodyOf
    <3>6. Cardinality(ReqLines(consumed))' = Cardinality(ReqLines(consumed))
      BY <2>1 DEF ReqLines
    <3> QED BY <2>1, <2>3, <3>1, <3>5, <3>6 DEF Framing
  <2> QED BY <2>2, <2>3
<1>12. ASSUME BodyReadNothing \/ \E size \in BodyReads : BodyReadSocket(size) PROVE Framing'
  <2>1. UNCHANGED <<stream, consumed, http_body_pending, exchange, raw_io, head>>
        /\ pc = "handler" /\ pc' \in {"handler", "bodyRecv"}
    BY <1>12 DEF BodyReadNothing, BodyReadSocket, InHandler
  <2> QED BY <2>1, QuietFraming
<1>13. ASSUME NEW size \in BodyReads, BodyReadBuffered(size) PROVE Framing'
  <2>1. /\ pc = "handler" /\ pc' = "handler"
        /\ UNCHANGED <<stream, exchange, raw_io, head>> /\ exchange # 0
    BY <1>0, <1>13 DEF BodyReadBuffered, InHandler, Control
  <2>2. CASE raw_io
    BY <2>1, <2>2 DEF Framing
  <2>3. CASE ~raw_io
    <3> DEFINE n == Smaller(ReadLimit(size), Buffered)
    <3>1. consumed' = consumed + n /\ http_body_pending' = http_body_pending - n
      BY <1>13, <2>3 DEF BodyReadBuffered, TakeBody
    <3>2. size \in Nat
      BY ReaderAssumption
    <3>3. n \in Nat /\ n <= http_body_pending /\ consumed + n <= Len(stream)
      BY <1>0, <2>3, <3>2 DEF Smaller, ReadLimit
    <3> HIDE DEF n
    <3>4. Settled
      BY <1>0, <2>1, <2>3 DEF Framing
    <3>5. Settled' /\ Cardinality(ReqLines(consumed))' = Cardinality(ReqLines(consumed))
      BY <1>0, <2>1, <3>1, <3>3, <3>4, TakenIsSettled, TakenIsCounted
    <3> QED BY <1>0, <2>1, <2>3, <3>5 DEF Framing
  <2> QED BY <2>2, <2>3
<1>14. ASSUME BodyRecv PROVE Framing'
  <2>1. /\ pc = "bodyRecv" /\ pc' \in {"handler", "exit"}
        /\ UNCHANGED <<exchange, raw_io, head>> /\ exchange # 0
    BY <1>0, <1>14 DEF BodyRecv, Raise, Control
  <2>2. CASE UNCHANGED <<stream, consumed, http_body_pending>>
    BY <2>1, <2>2, QuietFraming
  <2>3. CASE raw_io
    BY <2>1, <2>3 DEF Framing
  <2>4. CASE ~raw_io /\ \E n \in 1 .. want : RecvData(want, n) /\ TakeBody(n)
    <3>1. PICK n \in 1 .. want : RecvData(want, n) /\ TakeBody(n)
      BY <2>4
    <3>2. want <= http_body_pending
      BY <1>0, <2>1, <2>4 DEF Typed, Reads
    <3>3. /\ n \in Nat /\ n <= http_body_pending /\ UNCHANGED stream
          /\ consumed' = consumed + n /\ http_body_pending' = http_body_pending - n
          /\ consumed + n <= Len(stream)
      BY <1>0, <2>4, <3>1, <3>2 DEF RecvData, TakeBody
    <3>4. Settled
      BY <1>0, <2>1, <2>4 DEF Framing
    <3>5. Settled' /\ Cardinality(ReqLines(consumed))' = Cardinality(ReqLines(consumed))
      BY <1>0, <3>3, <3>4, TakenIsSettled, TakenIsCounted
    <3> QED BY <1>0, <2>1, <2>4, <3>5 DEF Framing
  <2> QED BY <1>14, <2>2, <2>3, <2>4 DEF BodyRecv, RecvTimeout, RecvClosed, RecvError, CloseConn
<1>15. ASSUME HandlerCall \/ WriterStep, UNCHANGED <<rxVars, exitVars>> PROVE Framing'
  <2>1. /\ pc \in {"handler", "put", "flush", "flushBody"} /\ UNCHANGED <<stream, exchange>>
        /\ pc' \in {"handler", "put", "flush", "flushBody", "exit", "loop", "close"}
        /\ exchange # 0
    BY <1>0, <1>15, RespondBody DEF Control
  <2>2. CASE raw_io'
    BY <2>1, <2>2 DEF Framing
  <2>3. CASE ~raw_io'
    <3>1. ~raw_io /\ UNCHANGED http_body_pending
      BY <1>15, <2>3, RespondBody
    <3> QED BY <1>15, <2>1, <3>1, QuietFraming
  <2> QED BY <2>2, <2>3
<1>16. ASSUME CloseRejected \/ ThreadEnds PROVE Framing'
  <2>1. UNCHANGED <<stream, consumed, http_body_pending, exchange, raw_io, head>>
        /\ pc \in {"close", "exit"} /\ pc' \in {"loop", "gone"}
    BY <1>16 DEF CloseRejected, ThreadEnds, CloseConn
  <2> QED BY <2>1, QuietFraming
<1>17. ASSUME Shutdown \/ Restart \/ UNCHANGED vars PROVE Framing'
  <2>1. UNCHANGED <<stream, consumed, http_body_pending, exchange, raw_io, head, pc, seek>>
    BY <1>17 DEF Shutdown, Restart, vars, txVars
  <2>2. (Scan' <=> Scan) /\ (PendingBody(head.can)' = PendingBody(head.can))
        /\ HeadEnds(stream)' = HeadEnds(stream)
        /\ DeclaredBody(stream, consumed)' = DeclaredBody(stream, consumed)
    BY <2>1 DEF Scan, LastLength, Lengths, PendingBody
  <2> QED BY <1>0, <2>1, <2>2, SameFraming DEF Framing
<1> QED BY <1>1, <1>2, <1>3, <1>4, <1>5, <1>6, <1>7, <1>8, <1>9, <1>10, <1>11, <1>12, <1>13,
           <1>14, <1>15, <1>16, <1>17, Steps

------------------------------------------------------------------------------
LEMMA FInit == Init => FInv
<1> SUFFICES ASSUME Init PROVE FInv
  OBVIOUS
<1>1. Typed /\ RawInv /\ CutInv
  BY TypedInit, RawInit, CutInit
<1>2. Control
  BY DEF Init, Control
<1>3. Cardinality(ReqLines(0)) = 0
  BY FS_EmptySet DEF ReqLines
<1>4. Framing
  BY <1>3 DEF Init, Framing, InHead, Settled
<1> QED BY <1>1, <1>2, <1>4 DEF FInv

LEMMA FStep == FInv /\ [Next]_vars => FInv'
<1> SUFFICES ASSUME FInv, [Next]_vars PROVE FInv'
  OBVIOUS
<1>1. Typed' /\ RawInv' /\ CutInv' /\ Control'
  BY TypedStep, RawStep, CutStep, ControlStep DEF FInv
<1>2. Honest(stream)' <=> Honest(stream)
  <2>1. stream' = stream
    BY StreamStays
  <2> QED BY <2>1
<1>3. Honest(stream)' /\ ~Cut' => Framing'
  BY <1>2, FramingStep
<1> QED BY <1>1, <1>3 DEF FInv

(* The reader's idea of where requests begin and bodies end is the peer's,  *)
(* whenever the peer frames its requests as this server does.               *)
THEOREM FramingInvariance == Spec => []FInv
BY FInit, FStep, PTL DEF Spec

------------------------------------------------------------------------------
(* What follows from it *)

(* Whoever has yet to read of a body: it is the body of some head read. *)
LEMMA RestSettled ==
  ASSUME FInv, Honest(stream), http_body_pending > 0, ~Cut
  PROVE  Settled
<1>1. Known => head.complete
  BY DEF Known, Cut
<1>2. Typed /\ Framing /\ (raw_io => http_body_pending = 0) /\ CutInv
  BY DEF FInv, Control
<1>3. ~raw_io
  BY <1>2
<1>4. CASE pc = "serve"
  <2>1. head.complete
    BY <1>1, <1>2, <1>4 DEF CutInv
  <2> QED BY <1>2, <1>4, <2>1 DEF Framing
<1>5. CASE pc # "serve"
  BY <1>2, <1>3, <1>5 DEF Framing
<1> QED BY <1>4, <1>5

(* The count of unread body bytes counts bytes of the body of the request   *)
(* being served, whoever read some of it, for every peer that frames its    *)
(* requests; and no read asks the socket for nothing.                       *)
THEOREM BodyAccounted == Spec => []BodyAccounting
<1>1. FInv => BodyAccounting
  <2> SUFFICES ASSUME FInv PROVE BodyAccounting
    OBVIOUS
  <2>1. Typed /\ RecvNonZero
    BY DEF FInv, Typed, Reads, RecvNonZero
  <2>2. ASSUME Honest(stream), http_body_pending > 0, cut = NoCut,
               NEW i \in consumed + 1 .. Smaller(consumed + http_body_pending, Len(stream))
        PROVE  stream[i].kind = "body"
    <3>1. consumed \in Nat /\ http_body_pending \in Nat /\ Len(stream) \in Nat
      BY <2>1, Places
    <3>2. i \in consumed + 1 .. consumed + http_body_pending /\ i <= Len(stream)
      BY <2>2, <3>1 DEF Smaller
    <3>3. Settled
      BY <2>2, RestSettled DEF Cut
    <3> QED BY <2>1, <2>2, <3>2, <3>3, RestIsBody
  <2> QED BY <2>1, <2>2 DEF BodyAccounting
<1> QED BY <1>1, FramingInvariance, PTL

(* Pipelined requests are served in order: the k-th exchange's head is the  *)
(* k-th request's.                                                          *)
THEOREM ServedInOrder == Spec => []InOrder
<1>1. FInv => InOrder
  <2> SUFFICES ASSUME FInv, pc = "serve", cut = NoCut, Honest(stream)
               PROVE  exchange = Cardinality({i \in 1 .. consumed : stream[i].kind = "reqline"})
    BY DEF InOrder
  <2>1. ~raw_io /\ Framing /\ head.complete
    BY DEF FInv, Control, CutInv, Known, Cut
  <2> QED BY <2>1 DEF Framing, InHead, ReqLines
<1> QED BY <1>1, FramingInvariance, PTL

(* Steps outside a head take no more than the body that is left. *)
LEMMA TakesBody ==
  ASSUME FInv, [Next]_vars, ~raw_io, pc \in {"loop", "discardRecv", "handler", "bodyRecv"},
         NEW i \in consumed + 1 .. consumed'
  PROVE  i \in consumed + 1 .. consumed + http_body_pending /\ i <= Len(stream)
<1>1. /\ Typed /\ consumed \in Nat /\ recvd \in Nat /\ recvd <= Len(stream) /\ Len(stream) \in Nat
      /\ consumed <= recvd /\ http_body_pending \in Nat /\ want \in Nat /\ Buffered = recvd - consumed
  BY Places DEF FInv
<1>2. consumed' # consumed
  BY <1>1
<1>3. ASSUME NEW n \in Nat, consumed' = consumed + n, n <= http_body_pending,
             n <= Len(stream) - consumed
      PROVE  i \in consumed + 1 .. consumed + http_body_pending /\ i <= Len(stream)
  BY <1>1, <1>3
<1>4. CASE LoopAgain
  <2> DEFINE n == Smaller(http_body_pending, Buffered)
  <2>1. consumed' = consumed + n
    BY <1>4 DEF LoopAgain, TakeBody
  <2>2. n \in Nat /\ n <= http_body_pending /\ n <= Len(stream) - consumed
    BY <1>1 DEF Smaller
  <2> HIDE DEF n
  <2> QED BY <1>3, <2>1, <2>2
<1>5. CASE DiscardRecv \/ BodyRecv
  <2>1. want <= http_body_pending
    BY <1>1, <1>5 DEF Typed, Reads, DiscardRecv, BodyRecv
  <2>2. PICK n \in 1 .. want : RecvData(want, n) /\ TakeBody(n)
    BY <1>2, <1>5 DEF DiscardRecv, BodyRecv
  <2>3. n \in Nat /\ consumed' = consumed + n /\ n <= http_body_pending /\ n <= Len(stream) - consumed
    BY <1>1, <2>1, <2>2 DEF RecvData, TakeBody
  <2> QED BY <1>3, <2>3
<1>6. CASE \E size \in BodyReads : BodyReadBuffered(size)
  <2>1. PICK size \in BodyReads : BodyReadBuffered(size)
    BY <1>6
  <2> DEFINE n == Smaller(ReadLimit(size), Buffered)
  <2>2. consumed' = consumed + n
    BY <2>1 DEF BodyReadBuffered, TakeBody
  <2>3. size \in Nat
    BY ReaderAssumption
  <2>4. n \in Nat /\ n <= http_body_pending /\ n <= Len(stream) - consumed
    BY <1>1, <2>3 DEF Smaller, ReadLimit
  <2> HIDE DEF n
  <2> QED BY <1>3, <2>2, <2>4
<1>7. \/ LoopAgain \/ DiscardRecv \/ BodyRecv \/ \E size \in BodyReads : BodyReadBuffered(size)
  <2> SUFFICES ASSUME ~LoopAgain, ~DiscardRecv, ~BodyRecv,
                      ~\E size \in BodyReads : BodyReadBuffered(size)
               PROVE  FALSE
    OBVIOUS
  <2> USE <1>2 DEF rxVars
  <2>1. ~(LoopEnds \/ RecvThrows \/ CloseRejected \/ ThreadEnds)
    BY DEF LoopEnds, RecvThrows, CloseRejected, ThreadEnds
  <2>2. ~(HeadAborted \/ HeadOnClosed \/ HeadTooBig \/ HeadNeedsMore \/ HeadRecv)
    BY DEF HeadAborted, HeadOnClosed, HeadTooBig, HeadNeedsMore, HeadRecv, Scanning
  <2>3. ~\E e \in LineEnds : \/ RequestLineInvalid(e) \/ RequestLineThrows(e) \/ RequestLine(e)
                             \/ HeaderLine(e) \/ HeadComplete(e)
    BY DEF RequestLineInvalid, RequestLineThrows, RequestLine, HeaderLine, HeadComplete, Scanning
  <2>4. ~(DropMutation \/ CallHandler \/ BodyReadNothing)
    BY DEF DropMutation, CallHandler, BodyReadNothing
  <2>5. ~\E size \in BodyReads : BodyReadSocket(size)
    BY DEF BodyReadSocket
  <2>6. ~((HandlerCall \/ WriterStep) /\ UNCHANGED <<rxVars, exitVars>>)
    OBVIOUS
  <2>7. ~(Shutdown \/ Restart \/ UNCHANGED vars)
    BY DEF Shutdown, Restart, vars
  <2> QED BY <2>1, <2>2, <2>3, <2>4, <2>5, <2>6, <2>7, Steps
<1> QED BY <1>4, <1>5, <1>6, <1>7

(* Outside a head only body bytes leave the buffer or the socket: what the  *)
(* handler reads and what is discarded is no part of the next request.      *)
THEOREM OnlyBodyTaken == Spec => BodyBytesOnly
<1>1. ASSUME FInv, [Next]_vars, Honest(stream), ~raw_io, cut = NoCut,
             pc \in {"loop", "discardRecv", "handler", "bodyRecv"},
             NEW i \in consumed + 1 .. consumed'
      PROVE  stream[i].kind = "body"
  <2>1. i \in consumed + 1 .. consumed + http_body_pending /\ i <= Len(stream)
    BY <1>1, TakesBody
  <2>2. Settled
    BY <1>1 DEF FInv, Framing, InHead, Cut
  <2> QED BY <1>1, <2>1, <2>2, RestIsBody DEF FInv
<1>2. FInv /\ [Next]_vars =>
        [/\ Honest(stream) /\ ~raw_io /\ cut = NoCut
         /\ pc \in {"loop", "discardRecv", "handler", "bodyRecv"}
         => \A i \in consumed + 1 .. consumed' : stream[i].kind = "body"]_vars
  BY <1>1
<1> QED BY <1>2, FramingInvariance, PTL DEF Spec, BodyBytesOnly

(* A peer that frames its requests is told "Bad Request" only when its      *)
(* request is looked for inside the body of the one before, because         *)
(* discard_unread_body gave up on it, or after a head that a shutdown had   *)
(* cut short on this connection.                                            *)
THEOREM RejectedInsideABody ==
  Spec => [][\A e \in LineEnds : Honest(stream) /\ RequestLineInvalid(e)
                                   => http_body_pending > 0 \/ cut # NoCut]_vars
<1>1. FInv /\ [Next]_vars =>
        [\A e \in LineEnds : Honest(stream) /\ RequestLineInvalid(e)
                             => http_body_pending > 0 \/ cut # NoCut]_vars
  <2> SUFFICES ASSUME FInv, NEW e \in LineEnds, Honest(stream), RequestLineInvalid(e), cut = NoCut
               PROVE  http_body_pending > 0
    OBVIOUS
  <2>1. pc = "head" /\ IsLineEnd(e) /\ ~head.line /\ BadRequestLine(e)
    BY DEF RequestLineInvalid, Scanning
  <2>2. Typed /\ Settled /\ Scan /\ http_body_pending \in Nat
    BY <2>1, Places DEF FInv, Framing, InHead, Cut
  <2>3. http_body_pending # 0
    BY <2>1, <2>2, FirstLine DEF BadRequestLine
  <2> QED BY <2>2, <2>3
<1> QED BY <1>1, FramingInvariance, PTL DEF Spec
=============================================================================
