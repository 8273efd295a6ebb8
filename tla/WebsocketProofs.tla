-------------------------- MODULE WebsocketProofs --------------------------
(* next() hands out the frames of every client, however they are cut into   *)
(* reads, and nothing is sent behind a close frame.                         *)
EXTENDS Websocket, TLAPS

(* What next() knows when it asks the reader: the bytes that were buffered  *)
(* early have come with the first read, and no header can be read yet.      *)
Waiting ==
  /\ got = 0 \/ got >= early
  /\ pc = "header" => NoHeader

(* A close frame on the connection has marked the object. *)
Saying ==
  /\ ~m_closed => \A i \in 1 .. Len(sent) : sent[i] # "close"
  /\ pc = "construct" => sent = <<>> /\ ~m_closed

IInv == TypeInv /\ Waiting /\ WholeFrameMask /\ CloseIsLast /\ Saying

(* The frame that comes next lies at the begin of m_read_buff. *)
LEMMA NextFrame ==
  ASSUME frames \in Peers
  PROVE  /\ frames \in Seq(Frame) /\ Len(frames) \in Nat /\ Total \in Nat
         /\ TypeInv /\ FrameBegun =>
              /\ Following \in 1 .. Len(frames) /\ Incoming \in Frame
              /\ Incoming.start = taken
              /\ Incoming.start + 2 <= Incoming.body /\ Incoming.body <= Incoming.start + 14
              /\ Incoming.body <= Incoming.stop
<1>1. frames \in Seq(Frame) /\ Len(frames) \in Nat /\ LaidOut(frames)
  BY PeersAssumption
<1>2. \A i \in 1 .. Len(frames) : frames[i] \in Frame
  BY <1>1
<1>3. Total \in Nat
  <2>1. CASE frames = <<>>
    BY <2>1 DEF Total
  <2>2. CASE frames # <<>>
    <3>1. Len(frames) \in 1 .. Len(frames)
      BY <2>2, <1>1
    <3> QED BY <2>2, <3>1, <1>2 DEF Total, Frame
  <2> QED BY <2>1, <2>2
<1>4. ASSUME TypeInv, FrameBegun
      PROVE  /\ Following \in 1 .. Len(frames) /\ Incoming \in Frame
             /\ Incoming.start = taken
             /\ Incoming.start + 2 <= Incoming.body /\ Incoming.body <= Incoming.start + 14
             /\ Incoming.body <= Incoming.stop
  <2>1. Len(delivered) \in Nat /\ Following \in 1 .. Len(frames)
    BY <1>1, <1>4 DEF TypeInv, FrameBegun, Following
  <2>2. Incoming \in Frame
    BY <1>2, <2>1 DEF Incoming
  <2>3. /\ Incoming.start + 2 <= Incoming.body /\ Incoming.body <= Incoming.start + 14
        /\ Incoming.body <= Incoming.stop
    BY <1>1, <2>1 DEF Incoming, LaidOut
  <2>4. Incoming.start = taken
    <3>1. CASE delivered = <<>>
      BY <3>1, <1>1, <1>4, <2>1 DEF Incoming, Following, TypeInv, LaidOut
    <3>2. CASE delivered # <<>>
      <4>1. Len(delivered) \in 1 .. Len(frames) - 1
        BY <3>2, <1>1, <1>4, <2>1 DEF TypeInv, Following
      <4> QED BY <3>2, <4>1, <1>1, <1>4 DEF Incoming, Following, TypeInv, LaidOut
    <3> QED BY <3>1, <3>2
  <2> QED BY <2>1, <2>2, <2>3, <2>4
<1> QED
  BY <1>1, <1>3, <1>4

LEMMA InitIInv == WsInit => IInv /\ Init
<1> SUFFICES ASSUME WsInit PROVE IInv /\ Init
  OBVIOUS
<1>1. frames \in Peers /\ delivered = <<>> /\ Init
  BY DEF WsInit, Init
<1>2. Len(frames) \in Nat /\ Total \in Nat
  BY <1>1, NextFrame
<1>3. TypeInv
  <2>1. /\ pc = "construct" /\ open \in BOOLEAN /\ m_closed \in BOOLEAN
        /\ multipart = NoMultipart
    BY DEF WsInit
  <2>2. got \in 0 .. Total /\ taken \in 0 .. got /\ early \in 0 .. Total
    <3>1. got = 0 /\ taken = 0 /\ early \in 0 .. Total
      BY DEF WsInit
    <3> QED BY <1>2, <3>1
  <2>3. delivered \in Seq(Nat \X Nat) /\ Len(delivered) = 0
    BY <1>1
  <2>4. masks \in Seq(Masks) /\ Len(masks) = 0 /\ sent \in Seq(Sendable)
    BY DEF WsInit
  <2>5. taken = 0
    BY DEF WsInit
  <2> QED BY <1>1, <1>2, <2>1, <2>2, <2>3, <2>4, <2>5 DEF TypeInv
<1>4. Waiting /\ CloseIsLast /\ Saying
  BY DEF WsInit, Waiting, CloseIsLast, Saying
<1>5. WholeFrameMask
  BY <1>1 DEF WholeFrameMask
<1> QED BY <1>1, <1>3, <1>4, <1>5 DEF IInv

(* Steps that leave the bytes and the frames alone. *)
LEMMA ReaderKept ==
  ASSUME IInv, UNCHANGED <<frames, delivered, readVars>>,
         pc' \in {"construct", "idle", "header", "payload", "gone"},
         pc' = "payload" => HeaderIn(got),
         pc' = "header" => NoHeader,
         open' \in BOOLEAN, m_closed' \in BOOLEAN, sent' \in Seq(Sendable)
  PROVE  TypeInv' /\ Waiting' /\ WholeFrameMask'
<1>1. TypeInv'
  BY DEF IInv, TypeInv, readVars, Total, HeaderIn, FrameBegun, Incoming, Following
<1>2. Waiting'
  BY DEF IInv, Waiting, readVars, NoHeader, Malformed, HeaderIn, FrameBegun, Incoming, Following
<1>3. WholeFrameMask'
  BY DEF IInv, WholeFrameMask, readVars
<1> QED BY <1>1, <1>2, <1>3

LEMMA SendsKept ==
  ASSUME IInv, UNCHANGED sendVars, pc' # "construct"
  PROVE  /\ CloseIsLast' /\ Saying'
         /\ m_closed' \in BOOLEAN /\ sent' \in Seq(Sendable)
BY DEF IInv, TypeInv, CloseIsLast, Saying, sendVars

(* Sending one more frame while the object is not marked closed. *)
LEMMA OneMore ==
  ASSUME IInv, ~m_closed, NEW what \in Sendable, NEW how \in {"ok", "lost", "threw"},
         SendOutcome(what, how)
  PROVE  /\ open' \in BOOLEAN /\ sent' \in Seq(Sendable)
         /\ CloseIsLast'
         /\ what # "close" \/ how # "ok" => \A i \in 1 .. Len(sent') : sent'[i] # "close"
<1>1. sent \in Seq(Sendable) /\ open \in BOOLEAN /\ Len(sent) \in Nat
  BY DEF IInv, TypeInv
<1>2. \A i \in 1 .. Len(sent) : sent[i] # "close"
  BY DEF IInv, Saying
<1>3. open' \in BOOLEAN
  BY <1>1 DEF SendOutcome
<1>4. CASE sent' = sent
  BY <1>1, <1>2, <1>3, <1>4 DEF CloseIsLast
<1>5. ASSUME NEW w \in Sendable, sent' = Append(sent, w), w = "torn" \/ (w = what /\ how = "ok")
      PROVE  /\ sent' \in Seq(Sendable) /\ CloseIsLast'
             /\ what # "close" \/ how # "ok" => \A i \in 1 .. Len(sent') : sent'[i] # "close"
  <2>1. sent' \in Seq(Sendable) /\ Len(sent') = Len(sent) + 1
    BY <1>1, <1>5
  <2>2. sent'[Len(sent) + 1] = w /\ \A i \in 1 .. Len(sent) : sent'[i] = sent[i]
    BY <1>1, <1>5
  <2> QED BY <1>1, <1>2, <1>5, <2>1, <2>2 DEF CloseIsLast
<1>6. sent' = sent \/ sent' = Append(sent, "torn") \/ (sent' = Append(sent, what) /\ how = "ok")
  BY DEF SendOutcome
<1>7. "torn" \in Sendable
  BY DEF Sendable
<1> QED BY <1>3, <1>4, <1>5, <1>6, <1>7

LEMMA MaskUsedType ==
  ASSUME IInv, FrameBegun
  PROVE  MaskUsed \in Masks /\ (Incoming.final => MaskUsed = Incoming.mask)
<1>1. Incoming.mask \in Masks /\ multipart \in Masks \cup {NoMultipart}
  BY NextFrame DEF IInv, TypeInv, Frame
<1> QED BY <1>1 DEF MaskUsed

(* A frame that is handed out is the one the abstract delivery is at. *)
LEMMA HandedOut ==
  ASSUME IInv, pc = "payload", HandOut(Incoming.stop),
         taken' = Incoming.stop,
         got' \in 0 .. Total, got' >= Incoming.stop, got' >= early,
         UNCHANGED <<frames, open, early, sendVars>>
  PROVE  IInv' /\ Deliver
<1>1. frames \in Peers /\ FrameBegun /\ Incoming.valid
  BY DEF IInv, TypeInv, HeaderIn
<1>2. /\ Following \in 1 .. Len(frames) /\ Incoming \in Frame /\ Len(frames) \in Nat
      /\ Incoming.start = taken /\ Incoming.body <= Incoming.stop /\ Total \in Nat
  BY <1>1, NextFrame DEF IInv
<1>3. Incoming.body \in Nat /\ Incoming.stop \in Nat /\ Incoming.mask \in Masks
  BY <1>2 DEF Frame
<1>4. /\ delivered' = Append(delivered, <<Incoming.body, Incoming.stop>>)
      /\ masks' = Append(masks, MaskUsed)
      /\ pc' = "idle" /\ result' = "frame"
  BY DEF HandOut, Return
<1>5. /\ delivered \in Seq(Nat \X Nat) /\ masks \in Seq(Masks)
      /\ Len(masks) = Len(delivered) /\ Len(delivered) \in Nat
  BY DEF IInv, TypeInv
<1>6. MaskUsed \in Masks /\ (Incoming.final => MaskUsed = Incoming.mask)
  BY <1>1, MaskUsedType
<1>7. /\ delivered' \in Seq(Nat \X Nat) /\ Len(delivered') = Following /\ delivered' # <<>>
  <2> DEFINE payload == <<Incoming.body, Incoming.stop>>
  <2>1. payload \in Nat \X Nat
    BY <1>3
  <2> HIDE DEF payload
  <2>2. delivered' = Append(delivered, payload)
    BY <1>4 DEF payload
  <2>3. delivered' \in Seq(Nat \X Nat) /\ Len(delivered') = Len(delivered) + 1
    BY <2>1, <2>2, <1>5
  <2> QED BY <2>3, <1>5 DEF Following
<1>8. /\ masks' \in Seq(Masks) /\ Len(masks') = Following
      /\ masks'[Following] = MaskUsed
      /\ \A i \in 1 .. Len(delivered) : masks'[i] = masks[i]
  BY <1>4, <1>5, <1>6 DEF Following
<1>9. TypeInv'
  <2>1. multipart' \in Masks \cup {NoMultipart}
    BY <1>3 DEF HandOut, IInv, TypeInv
  <2>2. taken' \in 0 .. got' /\ taken' = frames[Len(delivered')].stop
    BY <1>2, <1>3, <1>7 DEF Incoming
  <2>3. Total' = Total /\ early' \in 0 .. Total
    BY DEF Total, IInv, TypeInv
  <2>4. open' \in BOOLEAN /\ m_closed' \in BOOLEAN /\ sent' \in Seq(Sendable)
    BY DEF IInv, TypeInv, sendVars
  <2> QED BY SMTT(30), <1>1, <1>2, <1>4, <1>7, <1>8, <2>1, <2>2, <2>3, <2>4 DEF TypeInv
<1>10. Waiting'
  BY <1>4 DEF Waiting
<1>11. WholeFrameMask'
  <2>1. SUFFICES ASSUME NEW i \in 1 .. Following, frames[i].final
                 PROVE  masks'[i] = frames[i].mask
    BY <1>7 DEF WholeFrameMask
  <2>2. CASE i = Following
    BY <2>1, <2>2, <1>6, <1>8 DEF Incoming
  <2>3. CASE i # Following
    <3>1. i \in 1 .. Len(delivered)
      BY <2>3, <1>5 DEF Following
    <3>2. masks[i] = frames[i].mask
      BY <2>1, <3>1 DEF IInv, WholeFrameMask
    <3> QED BY <3>1, <3>2, <1>8
  <2> QED BY <2>2, <2>3
<1>12. CloseIsLast' /\ Saying'
  BY <1>4, SendsKept
<1>13. Deliver
  BY <1>1, <1>2, <1>4 DEF Deliver, Incoming, Following, FrameBegun
<1> QED
  BY <1>9, <1>10, <1>11, <1>12, <1>13 DEF IInv

(* What a read adds; once a header is in, all that was buffered early is    *)
(* too, and a read brings at most what was asked for.                       *)
LEMMA ReadAdds ==
  ASSUME IInv, NEW size \in Nat, NEW n \in 1 .. Total, Reads(size, n)
  PROVE  /\ got' = got + n /\ got' \in 0 .. Total /\ got' >= early /\ got' >= taken
         /\ got >= early /\ size > 0 => n <= size
<1>1. got \in Nat /\ early \in 0 .. Total /\ Total \in Nat /\ taken \in 0 .. got
  BY NextFrame DEF IInv, TypeInv
<1>2. BodyChunk \in Nat
  BY ChunkAssumption
<1> QED BY <1>1, <1>2 DEF Reads, ReadSize

LEMMA HeaderReadKeeps ==
  ASSUME IInv, NEW n \in 1 .. Total, HeaderRead(n)
  PROVE  IInv'
<1>1. /\ pc = "header"
      /\ UNCHANGED <<frames, delivered, open, early, taken, multipart, masks, sendVars>>
  BY DEF HeaderRead
<1>2. /\ got' = got + n /\ got' \in 0 .. Total /\ got' >= early /\ got' >= taken
  BY ReadAdds, ChunkAssumption DEF HeaderRead
<1>3. pc' \in {"idle", "payload"} /\ (pc' = "payload" => HeaderIn(got'))
  BY <1>2 DEF HeaderRead, Return
<1>4. TypeInv'
  <2>1. pc' = "payload" => HeaderIn(got)'
    BY <1>1, <1>3 DEF HeaderIn, FrameBegun, Incoming, Following
  <2>2. Total' = Total /\ taken' \in 0 .. got'
    BY <1>1, <1>2 DEF Total, IInv, TypeInv
  <2> QED BY <1>1, <1>2, <1>3, <2>1, <2>2 DEF IInv, TypeInv, sendVars
<1>5. Waiting'
  BY <1>1, <1>2, <1>3 DEF Waiting
<1>6. WholeFrameMask'
  BY <1>1 DEF IInv, WholeFrameMask
<1>7. CloseIsLast' /\ Saying'
  BY <1>1, <1>3, SendsKept
<1> QED BY <1>4, <1>5, <1>6, <1>7 DEF IInv

(* The header of a frame is in the buffer with all that was buffered early. *)
LEMMA InPayload ==
  ASSUME IInv, pc = "payload"
  PROVE  /\ FrameBegun /\ got \in Nat /\ early \in Nat /\ taken \in Nat /\ Total \in Nat
         /\ got >= early /\ got \in 0 .. Total
         /\ Incoming.body \in Nat /\ Incoming.stop \in Nat /\ Incoming.body <= Incoming.stop
<1>1. FrameBegun /\ got - taken >= Incoming.body - Incoming.start
  BY DEF IInv, TypeInv, HeaderIn
<1>2. /\ Incoming \in Frame /\ Incoming.start + 2 <= Incoming.body /\ Incoming.body <= Incoming.stop
      /\ Total \in Nat
  BY <1>1, NextFrame DEF IInv, TypeInv
<1>3. /\ Incoming.start \in Nat /\ Incoming.body \in Nat /\ Incoming.stop \in Nat
      /\ got \in 0 .. Total /\ taken \in 0 .. got /\ early \in 0 .. Total
  BY <1>2 DEF Frame, IInv, TypeInv
<1> QED BY <1>1, <1>2, <1>3 DEF IInv, Waiting

LEMMA PayloadBufferedKeeps ==
  ASSUME IInv, PayloadBuffered
  PROVE  IInv' /\ Deliver
<1>1. /\ pc = "payload" /\ HandOut(Incoming.stop) /\ taken' = Incoming.stop
      /\ UNCHANGED <<frames, open, early, got, sendVars>> /\ got >= Incoming.stop
  BY DEF PayloadBuffered, EraseFrame, PayloadIn
<1>2. got' \in 0 .. Total /\ got' >= Incoming.stop /\ got' >= early
  BY <1>1, InPayload
<1> QED BY <1>1, <1>2, HandedOut

LEMMA PayloadReadKeeps ==
  ASSUME IInv, NEW n \in 1 .. Total, PayloadRead(n)
  PROVE  /\ IInv'
         /\ Deliver \/ UNCHANGED <<frames, delivered>>
<1>1. /\ pc = "payload" /\ got < Incoming.stop /\ Reads(Unbuffered, n)
      /\ UNCHANGED <<frames, open, early, sendVars>>
  BY InPayload DEF PayloadRead, PayloadIn
<1>2. /\ got \in Nat /\ Incoming.stop \in Nat /\ got >= early
  BY <1>1, InPayload
<1>3. Unbuffered \in Nat /\ Unbuffered > 0 /\ Unbuffered = Incoming.stop - got
  BY <1>1, <1>2 DEF Unbuffered
<1>4. /\ got' = got + n /\ got' \in 0 .. Total /\ got' >= early /\ got' >= taken
      /\ n <= Unbuffered
  BY <1>1, <1>2, <1>3, ReadAdds
<1>5. CASE got + n < Incoming.stop
  <2>1. /\ pc' = "idle" /\ UNCHANGED <<delivered, taken, multipart, masks>>
    BY <1>2, <1>4, <1>5 DEF PayloadRead, Return
  <2>2. TypeInv'
    <3>1. Total' = Total /\ taken' \in 0 .. got'
      BY <1>1, <1>4, <2>1 DEF Total, IInv, TypeInv
    <3> QED BY <1>1, <1>4, <2>1, <3>1 DEF IInv, TypeInv, sendVars
  <2>3. Waiting'
    BY <1>1, <1>4, <2>1 DEF Waiting
  <2>4. WholeFrameMask'
    BY <1>1, <2>1 DEF IInv, WholeFrameMask
  <2>5. CloseIsLast' /\ Saying'
    BY <1>1, <2>1, SendsKept
  <2> QED BY <1>1, <2>1, <2>2, <2>3, <2>4, <2>5 DEF IInv
<1>6. CASE got + n >= Incoming.stop
  <2>1. got + n = Incoming.stop
    BY <1>2, <1>3, <1>4, <1>6
  <2>2. HandOut(Incoming.stop) /\ taken' = Incoming.stop
    BY <1>2, <1>4, <1>6, <2>1 DEF PayloadRead
  <2>3. got' >= Incoming.stop
    BY <1>2, <1>4, <2>1
  <2> QED BY <1>1, <1>4, <2>2, <2>3, HandedOut
<1> QED
  BY <1>2, <1>4, <1>5, <1>6

(* The sends keep the frames and the buffer as they are. *)
LEMMA SendingKeeps ==
  ASSUME IInv, Write \/ Close \/ Destroy
  PROVE  IInv' /\ UNCHANGED <<frames, delivered>>
<1>1. UNCHANGED <<frames, delivered, readVars>> /\ pc = "idle" /\ pc' \in {"idle", "gone"}
  BY DEF Write, Close, Destroy, Return
<1>2. ASSUME open' \in BOOLEAN, m_closed' \in BOOLEAN, sent' \in Seq(Sendable),
             CloseIsLast', Saying'
      PROVE  IInv' /\ UNCHANGED <<frames, delivered>>
  <2>1. TypeInv' /\ Waiting' /\ WholeFrameMask'
    BY <1>1, <1>2, ReaderKept
  <2> QED BY <1>1, <1>2, <2>1 DEF IInv
<1>3. ASSUME ~m_closed, NEW what \in {"message", "close"}, NEW how \in {"ok", "lost", "threw"},
             SendOutcome(what, how),
             \/ what = "close" /\ ClosedMarked(how)
             \/ what = "message" /\ UNCHANGED m_closed
      PROVE  IInv' /\ UNCHANGED <<frames, delivered>>
  <2>1. /\ open' \in BOOLEAN /\ sent' \in Seq(Sendable) /\ CloseIsLast'
        /\ what # "close" \/ how # "ok" => \A i \in 1 .. Len(sent') : sent'[i] # "close"
    BY <1>3, OneMore DEF Sendable
  <2>2. m_closed' \in BOOLEAN /\ (~m_closed' => what # "close" \/ how # "ok")
    <3>1. CASE what = "message" /\ UNCHANGED m_closed
      BY <3>1 DEF IInv, TypeInv
    <3>2. CASE ClosedMarked(how)
      BY <3>2 DEF ClosedMarked
    <3> QED BY <1>3, <3>1, <3>2
  <2>3. Saying'
    BY <1>1, <2>1, <2>2 DEF Saying
  <2> QED BY <1>2, <2>1, <2>2, <2>3
<1>4. CASE Write
  BY <1>3, <1>4 DEF Write
<1>5. CASE Close
  BY <1>3, <1>5 DEF Close
<1>6. CASE Destroy
  <2>1. CASE open /\ ~m_closed
    BY <1>3, <1>6, <2>1 DEF Destroy
  <2>2. CASE ~(open /\ ~m_closed)
    <3>1. UNCHANGED <<open, sendVars>>
      BY <1>6, <2>2 DEF Destroy
    <3>2. open' \in BOOLEAN
      BY <3>1 DEF IInv, TypeInv
    <3>3. CloseIsLast' /\ Saying' /\ m_closed' \in BOOLEAN /\ sent' \in Seq(Sendable)
      BY <1>1, <3>1, SendsKept
    <3> QED BY <1>2, <3>2, <3>3
  <2> QED BY <2>1, <2>2
<1> QED BY <1>4, <1>5, <1>6

LEMMA OneSent ==
  ASSUME NEW w \in Sendable, w # "close"
  PROVE  <<w>> \in Seq(Sendable) /\ \A i \in 1 .. Len(<<w>>) : <<w>>[i] # "close"
OBVIOUS

(* The constructor sends at most one thing, and never a close frame. *)
LEMMA ConstructingKeeps ==
  ASSUME IInv, Refuse \/ Accept \/ AcceptFails
  PROVE  IInv' /\ UNCHANGED <<frames, delivered>>
<1>1. /\ UNCHANGED <<frames, delivered, readVars, m_closed>>
      /\ pc = "construct" /\ pc' \in {"idle", "gone"}
      /\ open' \in BOOLEAN
  BY DEF Refuse, Accept, AcceptFails, IInv, TypeInv
<1>2. \/ sent' = <<>>
      \/ \E w \in {"error response", "switching", "torn"} : sent' = <<w>>
  BY DEF Refuse, Accept, AcceptFails
<1>3. sent' \in Seq(Sendable) /\ \A i \in 1 .. Len(sent') : sent'[i] # "close"
  <2>1. CASE sent' = <<>>
    BY <2>1
  <2>2. ASSUME NEW w \in {"error response", "switching", "torn"}, sent' = <<w>>
        PROVE  sent' \in Seq(Sendable) /\ \A i \in 1 .. Len(sent') : sent'[i] # "close"
    <3>1. w \in Sendable /\ w # "close"
      BY DEF Sendable
    <3> QED BY <2>2, <3>1, OneSent, Zenon
  <2> QED BY <1>2, <2>1, <2>2
<1>4. m_closed' \in BOOLEAN
  BY <1>1 DEF IInv, TypeInv
<1>5. TypeInv' /\ Waiting' /\ WholeFrameMask'
  BY <1>1, <1>3, <1>4, ReaderKept
<1>6. CloseIsLast' /\ Saying'
  BY <1>1, <1>3 DEF CloseIsLast, Saying
<1> QED BY <1>1, <1>5, <1>6 DEF IInv

(* Calls of next() that read nothing, and write() on a closed object. *)
LEMMA QuietKeeps ==
  ASSUME IInv, NextClosed \/ NextThrows \/ NextParses \/ NextReads \/ ReadFails \/ SendClosed
  PROVE  IInv' /\ UNCHANGED <<frames, delivered>>
<1>1. UNCHANGED <<frames, delivered, readVars, sendVars>>
  BY DEF NextClosed, NextThrows, NextParses, NextReads, ReadFails, SendClosed
<1>2. /\ pc' \in {"idle", "header", "payload"}
      /\ pc' = "payload" => HeaderIn(got)
      /\ pc' = "header" => NoHeader
      /\ open' \in BOOLEAN
  BY DEF NextClosed, NextThrows, NextParses, NextReads, ReadFails, SendClosed, Return, IInv, TypeInv
<1>3. CloseIsLast' /\ Saying' /\ m_closed' \in BOOLEAN /\ sent' \in Seq(Sendable)
  BY <1>1, <1>2, SendsKept
<1>4. TypeInv' /\ Waiting' /\ WholeFrameMask'
  BY <1>1, <1>2, <1>3, ReaderKept
<1> QED BY <1>1, <1>3, <1>4 DEF IInv

LEMMA StepKeeps ==
  ASSUME IInv, [WsNext]_vars
  PROVE  IInv' /\ [Deliver]_<<frames, delivered>>
<1>1. CASE Refuse \/ Accept \/ AcceptFails
  BY <1>1, ConstructingKeeps
<1>2. CASE Write \/ Close \/ Destroy
  BY <1>2, SendingKeeps
<1>3. CASE NextClosed \/ NextThrows \/ NextParses \/ NextReads \/ ReadFails \/ SendClosed
  BY <1>3, QuietKeeps
<1>4. CASE PayloadBuffered
  BY <1>4, PayloadBufferedKeeps
<1>5. ASSUME NEW n \in 1 .. Total, HeaderRead(n)
      PROVE  IInv' /\ [Deliver]_<<frames, delivered>>
  BY <1>5, HeaderReadKeeps DEF HeaderRead
<1>6. ASSUME NEW n \in 1 .. Total, PayloadRead(n)
      PROVE  IInv' /\ [Deliver]_<<frames, delivered>>
  BY <1>6, PayloadReadKeeps
<1>7. CASE UNCHANGED vars
  <2>1. UNCHANGED <<frames, delivered, readVars, sendVars, open, pc>>
    BY <1>7 DEF vars
  <2>2. m_closed' \in BOOLEAN /\ sent' \in Seq(Sendable) /\ open' \in BOOLEAN
    BY <2>1 DEF sendVars, IInv, TypeInv
  <2>3. CloseIsLast' /\ Saying'
    BY <2>1 DEF IInv, CloseIsLast, Saying, sendVars
  <2>4. TypeInv' /\ Waiting' /\ WholeFrameMask'
    BY <2>1, <2>2, ReaderKept DEF IInv, TypeInv, Waiting
  <2> QED BY <2>1, <2>3, <2>4 DEF IInv
<1> QED
  BY <1>1, <1>2, <1>3, <1>4, <1>5, <1>6, <1>7 DEF WsNext, Receive

(* The members keep their types, frames keep to their own masks, and        *)
(* nothing follows a close frame on the connection.                         *)
THEOREM Invariance == WsSpec => []IInv
<1>1. WsInit => IInv
  BY InitIInv
<1>2. IInv /\ [WsNext]_vars => IInv'
  BY StepKeeps
<1> QED BY <1>1, <1>2, PTL DEF WsSpec

THEOREM TypeCorrect == WsSpec => []TypeInv
<1>1. IInv => TypeInv
  BY DEF IInv
<1> QED BY <1>1, Invariance, PTL

(* No message and no second close frame follows a close frame, whatever the *)
(* handler calls and the destructor adds.                                   *)
THEOREM CloseEndsSending == WsSpec => []CloseIsLast
<1>1. IInv => CloseIsLast
  BY DEF IInv
<1> QED BY <1>1, Invariance, PTL

(* A frame that stands alone is unmasked with its own mask. *)
THEOREM MasksRespected == WsSpec => []WholeFrameMask
<1>1. IInv => WholeFrameMask
  BY DEF IInv
<1> QED BY <1>1, Invariance, PTL

(* The throw for a clogged buffer is dead code, for any client. *)
THEOREM CloggingNeverSeen == WsSpec => []NeverClogged
<1>1. IInv => NeverClogged
  <2> SUFFICES ASSUME IInv, pc = "idle", NoHeader PROVE got - taken <= MaxFrameHeader
    BY DEF NeverClogged
  <2>1. got \in 0 .. Total /\ taken \in 0 .. got /\ Total \in Nat
    BY NextFrame DEF IInv, TypeInv
  <2>2. MaxFrameHeader \in Nat /\ MaxFrameHeader >= 14
    BY PeersAssumption
  <2>3. CASE ~FrameBegun
    <3>1. Len(delivered) = Len(frames) /\ Len(frames) \in Nat /\ frames \in Seq(Frame)
          /\ delivered \in Seq(Nat \X Nat)
      BY <2>3, NextFrame DEF IInv, TypeInv, FrameBegun, Following
    <3>2. taken = Total
      BY <3>1 DEF IInv, TypeInv, Total
    <3> QED BY <2>1, <2>2, <3>2
  <2>4. CASE FrameBegun
    <3>1. Incoming \in Frame /\ Incoming.body <= Incoming.start + 14
      BY <2>4, NextFrame DEF IInv, TypeInv
    <3>2. Incoming.start \in Nat /\ Incoming.body \in Nat /\ Incoming.valid \in BOOLEAN
      BY <3>1 DEF Frame
    <3> QED BY <2>1, <2>2, <2>4, <3>1, <3>2 DEF NoHeader, Malformed, HeaderIn
  <2> QED BY <2>3, <2>4
<1> QED BY <1>1, Invariance, PTL

(* next() never asks the reader while a whole frame is buffered. *)
THEOREM NoReadWhileWhole == WsSpec => NoReadPastFrame
<1>1. IInv /\ [WsNext]_vars =>
        [FrameBegun /\ Incoming.valid /\ got >= Incoming.stop => got' = got]_vars
  <2> SUFFICES ASSUME IInv, WsNext, FrameBegun, Incoming.valid, got >= Incoming.stop
               PROVE  got' = got
    OBVIOUS
  <2>1. got \in Nat /\ taken \in Nat
    BY NextFrame DEF IInv, TypeInv
  <2>2. /\ Incoming \in Frame /\ Incoming.start = taken /\ Incoming.body <= Incoming.stop
    BY NextFrame DEF IInv, TypeInv
  <2>3. Incoming.start \in Nat /\ Incoming.body \in Nat /\ Incoming.stop \in Nat
    BY <2>2 DEF Frame
  <2>4. HeaderIn(got) /\ PayloadIn
    BY <2>1, <2>2, <2>3 DEF HeaderIn, PayloadIn
  <2>5. ~NoHeader /\ pc # "header"
    BY <2>4 DEF NoHeader, IInv, Waiting
  <2> QED
    BY <2>4, <2>5 DEF WsNext, Refuse, Accept, AcceptFails, Receive, NextClosed, NextThrows,
         NextParses, NextReads, ReadFails, HeaderRead, PayloadBuffered, PayloadRead,
         SendClosed, Write, Close, Destroy, readVars
<1> QED BY <1>1, Invariance, PTL DEF WsSpec, NoReadPastFrame

(* However the bytes are cut into reads, next() hands out what              *)
(* FrameDelivery promises.                                                  *)
THEOREM Refinement == WsSpec => DeliversFrames
<1>1. WsInit => Init
  BY InitIInv
<1>2. IInv /\ [WsNext]_vars => [Deliver]_<<frames, delivered>>
  BY StepKeeps
<1> QED BY <1>1, <1>2, Invariance, PTL DEF WsSpec, DeliversFrames, Spec
==============================================================================
