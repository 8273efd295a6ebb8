----------------------------- MODULE Websocket -----------------------------
(***************************************************************************)
(* class Websocket (src/ws/websocket.cpp): the handshake, next(), which    *)
(* puts the client's frames together from whatever pieces the body reader  *)
(* returns, write(), close() and the destructor.  The handler that owns    *)
(* the object calls them in any order, and may destroy it at any time.     *)
(*                                                                         *)
(* The reader is RequestBodyReader in raw mode (H1Pipeline): its first     *)
(* read returns all that was buffered behind the request head, however     *)
(* much was asked for; later ones at most what was asked for.              *)
(* m_read_buff is the bytes in [taken, got) of the client's stream.        *)
(***************************************************************************)
EXTENDS FrameDelivery

CONSTANTS
  ReadChunk,     \* read_chunk_size
  BodyChunk,     \* body_chunk_size, the reader's choice for a size of zero
  MaxSends       \* bound on the frames the server sends

ASSUME ChunkAssumption ==
  /\ ReadChunk \in Nat \ {0} /\ BodyChunk \in Nat \ {0}
  /\ MaxSends \in Nat

VARIABLES
  pc,
  open,          \* the connection
  early,         \* bytes that the pipeline buffered before the upgrade
  got,           \* bytes the reader has returned
  taken,         \* bytes that left m_read_buff with a frame
  multipart,     \* m_multipart: the mask of its first frame, or no value
  m_closed,
  masks,         \* history: the mask each payload was unmasked with
  sent,          \* history: what the server put on the connection
  result         \* how the last call ended

readVars == <<early, got, taken, multipart, masks>>
sendVars == <<m_closed, sent>>
vars == <<frames, delivered, pc, open, readVars, sendVars, result>>

NoMultipart == "no value"

Total == IF frames = <<>> THEN 0 ELSE frames[Len(frames)].stop

WsInit ==
  /\ Init
  /\ pc = "construct" /\ open \in BOOLEAN
  /\ early \in 0 .. Total
  /\ got = 0 /\ taken = 0
  /\ multipart = NoMultipart
  /\ masks = <<>>
  /\ m_closed = FALSE
  /\ sent = <<>>
  /\ result = "none"

------------------------------------------------------------------------------
(* The constructor.  A request that is no handshake is answered with an     *)
(* error, whatever becomes of it, and refused with an exception; so is one  *)
(* whose connection is gone.                                                *)

Refuse ==
  /\ pc = "construct"
  /\ pc' = "gone" /\ result' = "refused"
  /\ sent' \in {<<>>} \cup (IF open THEN {<<"error response">>} ELSE {})
  /\ open' \in {open, FALSE}
  /\ UNCHANGED <<frames, delivered, readVars, m_closed>>

Accept ==
  /\ pc = "construct" /\ open
  /\ pc' = "idle" /\ result' = "ready"
  /\ \/ sent' = <<"switching">> /\ UNCHANGED open
     \/ sent' = <<"torn">> /\ open' = FALSE
  /\ UNCHANGED <<frames, delivered, readVars, m_closed>>

AcceptFails ==
  /\ pc = "construct"
  /\ pc' = "gone" /\ result' = "threw"
  /\ sent' \in {<<>>} \cup (IF open THEN {<<"torn">>} ELSE {})
  /\ open' \in {open, FALSE}
  /\ UNCHANGED <<frames, delivered, readVars, m_closed>>

------------------------------------------------------------------------------
(* next() *)

Following == Len(delivered) + 1
Incoming == frames[Following]
FrameBegun == Following <= Len(frames)

(* parse_frame on the bytes up to upTo: throws, or finds a header, or       *)
(* needs more bytes.                                                        *)
Malformed(upTo) == FrameBegun /\ ~Incoming.valid /\ upTo - taken >= 2

(* Mutant: the payload is waited for as part of the header *)
HeaderInWhole(upTo) ==
  FrameBegun /\ Incoming.valid /\ upTo - taken >= Incoming.stop - Incoming.start

HeaderIn(upTo) ==
  FrameBegun /\ Incoming.valid /\ upTo - taken >= Incoming.body - Incoming.start

(* Mutant: a frame that ends with the buffer is taken for unfinished *)
PayloadInStrict == got > Incoming.stop

PayloadIn == got >= Incoming.stop

Return(how) == pc' = "idle" /\ result' = how

NextClosed ==
  /\ pc = "idle" /\ m_closed
  /\ Return("closed")
  /\ UNCHANGED <<frames, delivered, open, readVars, sendVars>>

NextThrows ==
  /\ pc = "idle" /\ ~m_closed
  /\ Malformed(got)
  /\ Return("malformed")
  /\ UNCHANGED <<frames, delivered, open, readVars, sendVars>>

NextParses ==
  /\ pc = "idle" /\ ~m_closed
  /\ HeaderIn(got)
  /\ pc' = "payload"
  /\ UNCHANGED <<frames, delivered, open, readVars, sendVars, result>>

NoHeader == ~Malformed(got) /\ ~HeaderIn(got)

(* The throw of "Read buffer clogging detected" is never due (NeverClogged). *)
NextReads ==
  /\ pc = "idle" /\ ~m_closed
  /\ NoHeader /\ got - taken <= MaxFrameHeader
  /\ pc' = "header"
  /\ UNCHANGED <<frames, delivered, open, readVars, sendVars, result>>

(* BodyReader::read(size) returns n bytes: what was buffered early comes    *)
(* first, all of it; a size of zero is patched.                             *)
ReadSize(size) == IF size > 0 THEN size ELSE BodyChunk

Reads(size, n) ==
  /\ open
  /\ IF got < early THEN n = early - got
                    ELSE n \in 1 .. ReadSize(size) /\ got + n <= Total
  /\ got' = got + n

HeaderRead(n) ==
  /\ pc = "header"
  /\ Reads(ReadChunk, n)
  /\ \/ HeaderIn(got + n) /\ pc' = "payload" /\ UNCHANGED result
     \/ Malformed(got + n) /\ Return("malformed")
     \/ ~Malformed(got + n) /\ ~HeaderIn(got + n) /\ Return("nothing")
  /\ UNCHANGED <<frames, delivered, open, early, taken, multipart, masks, sendVars>>

(* The reader returns nothing, at once or because the client is gone, or    *)
(* throws an error of the connection.                                       *)
ReadFails ==
  /\ pc = "header" \/ (pc = "payload" /\ ~PayloadIn)
  /\ ~open \/ got >= early
  /\ \/ open' = FALSE /\ Return("nothing")
     \/ open /\ UNCHANGED open /\ Return("threw")
  /\ UNCHANGED <<frames, delivered, readVars, sendVars>>

(* The fragments of a message, but the last, share the mask of the first.   *)
MaskUsed == IF ~Incoming.final /\ multipart # NoMultipart THEN multipart ELSE Incoming.mask

(* The frame is handed out with the payload bytes up to upTo. *)
HandOut(upTo) ==
  /\ delivered' = Append(delivered, <<Incoming.body, upTo>>)
  /\ masks' = Append(masks, MaskUsed)
  /\ multipart' = IF Incoming.final THEN NoMultipart
                  ELSE IF multipart = NoMultipart THEN Incoming.mask
                  ELSE multipart
  /\ Return("frame")

EraseFrame == taken' = Incoming.stop

PayloadBuffered ==
  /\ pc = "payload" /\ PayloadIn
  /\ HandOut(Incoming.stop)
  /\ EraseFrame
  /\ UNCHANGED <<frames, open, early, got, sendVars>>

(* Mutant: what is buffered already is asked for again *)
UnbufferedWhole == Incoming.stop - Incoming.body

(* unbuffered_len *)
Unbuffered == Incoming.stop - got

(* the rest of the payload; a chunk that falls short stays in the buffer    *)
PayloadRead(n) ==
  /\ pc = "payload" /\ ~PayloadIn
  /\ Reads(Unbuffered, n)
  /\ \/ got + n < Incoming.stop
        /\ Return("nothing")
        /\ UNCHANGED <<delivered, taken, multipart, masks>>
     \/ got + n >= Incoming.stop
        /\ HandOut(got + n)
        /\ taken' = got + n
  /\ UNCHANGED <<frames, open, early, sendVars>>

------------------------------------------------------------------------------
(* write(), close() and the destructor.  The writer sends all of a frame,   *)
(* or loses the connection, or throws with part of the frame sent.          *)

Sendable == {"error response", "switching", "message", "close", "torn"}

SendOutcome(what, how) ==
  \/ /\ how = "ok" /\ open
     /\ sent' = Append(sent, what)
     /\ UNCHANGED open
  \/ /\ how = "lost" /\ open
     /\ sent' = Append(sent, "torn") /\ open' = FALSE
  \/ /\ how = "threw" /\ open
     /\ sent' \in {sent, Append(sent, "torn")}
     /\ UNCHANGED open
  \/ /\ how = "threw" /\ ~open
     /\ UNCHANGED <<sent, open>>

SendClosed ==
  /\ pc = "idle" /\ m_closed
  /\ Return("closed")
  /\ UNCHANGED <<frames, delivered, open, readVars, sendVars>>

Write ==
  /\ pc = "idle" /\ ~m_closed /\ Len(sent) < MaxSends
  /\ \E how \in {"ok", "lost", "threw"} : SendOutcome("message", how) /\ Return(how)
  /\ UNCHANGED <<frames, delivered, readVars, m_closed>>

(* Mutant: the object is not marked closed *)
ClosedUnmarked(how) == m_closed' = m_closed

(* closed only when something was written *)
ClosedMarked(how) == m_closed' = (how = "ok")

Close ==
  /\ pc = "idle" /\ ~m_closed /\ Len(sent) < MaxSends
  /\ \E how \in {"ok", "lost", "threw"} :
       SendOutcome("close", how) /\ Return(how) /\ ClosedMarked(how)
  /\ UNCHANGED <<frames, delivered, readVars>>

(* ~Websocket says goodbye on a writable connection, unless that was said,  *)
(* and swallows what close() throws.                                        *)
Destroy ==
  /\ pc = "idle"
  /\ pc' = "gone" /\ result' = "destroyed"
  /\ IF open /\ ~m_closed
     THEN \E how \in {"ok", "lost", "threw"} : SendOutcome("close", how) /\ ClosedMarked(how)
     ELSE UNCHANGED <<open, sendVars>>
  /\ UNCHANGED <<frames, delivered, readVars>>

Receive ==
  \/ NextClosed \/ NextThrows \/ NextParses \/ NextReads
  \/ ReadFails \/ PayloadBuffered
  \/ \E n \in 1 .. Total : HeaderRead(n) \/ PayloadRead(n)

WsNext ==
  \/ Refuse \/ Accept \/ AcceptFails
  \/ Receive
  \/ SendClosed \/ Write \/ Close \/ Destroy

WsSpec == WsInit /\ [][WsNext]_vars

------------------------------------------------------------------------------
(* Properties *)

(* The members have their types, and the buffer begins where the last frame *)
(* that was handed out ended.                                               *)
TypeInv ==
  /\ frames \in Peers
  /\ pc \in {"construct", "idle", "header", "payload", "gone"}
  /\ open \in BOOLEAN /\ m_closed \in BOOLEAN
  /\ early \in 0 .. Total /\ got \in 0 .. Total
  /\ taken \in 0 .. got
  /\ multipart \in Masks \cup {NoMultipart}
  /\ delivered \in Seq(Nat \X Nat)
  /\ Len(delivered) <= Len(frames)
  /\ pc = "payload" => HeaderIn(got)
  /\ masks \in Seq(Masks) /\ Len(masks) = Len(delivered)
  /\ taken = IF delivered = <<>> THEN 0 ELSE frames[Len(delivered)].stop
  /\ sent \in Seq(Sendable)

(* The frames come out whole, in order and each once, however their bytes   *)
(* were cut into reads, what was buffered before the upgrade included.      *)
DeliversFrames == Spec

(* A well-formed frame, however it arrives, is never taken for "Data w/o    *)
(* frame headers": no more is buffered than a header may need while none    *)
(* can be read.                                                             *)
NeverClogged == pc = "idle" /\ NoHeader => got - taken <= MaxFrameHeader

(* While a whole frame is in the buffer next() does not wait for the peer:  *)
(* the frame is handed out without another read.                            *)
NoReadPastFrame ==
  [][FrameBegun /\ Incoming.valid /\ got >= Incoming.stop => got' = got]_vars

(* A frame that stands alone is unmasked with the mask it came with. *)
WholeFrameMask ==
  \A i \in 1 .. Len(delivered) :
    frames[i].final => masks[i] = frames[i].mask

(* Nothing follows a close frame on the connection: no message, and no      *)
(* second close from the destructor.                                        *)
CloseIsLast == \A i \in 1 .. Len(sent) - 1 : sent[i] # "close"
==============================================================================
