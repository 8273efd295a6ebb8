----------------------------- MODULE EventStream -----------------------------
(***************************************************************************)
(* SSEWriter (src/http/sse.cpp): a handler that streams events through a   *)
(* ResponseWriter.  The constructor writes the head; the destructor writes *)
(* a last event and keeps what goes wrong with it to itself, when the      *)
(* handler leaves the object's scope and when an exception unwinds it.     *)
(*                                                                         *)
(* An event is the number of its bytes; m_ok is never cleared, so that     *)
(* is_writable() is whether the socket is open.                            *)
(***************************************************************************)
EXTENDS ResponseWriter

VARIABLE sse      \* the handler's SSEWriter: "none", "live" or "gone"

eventVars == <<rwVars, sse>>

(* the headers of the constructor; a content-length set before stays *)
SseHeaders ==
  /\ InHandler
  /\ sse # "live"
  /\ hdr' = [hdr EXCEPT !.conn = "keep-alive", !.sse = TRUE]
  /\ pc' = "sseHead"
  /\ UNCHANGED <<connVars, after, exchange, asked, toWrite, wire, streamState,
                 header_written, deferred, announced, body_written, sse>>

(* writer.write_header(Status::OK) *)
SseHead ==
  /\ pc = "sseHead"
  /\ IF header_written
     THEN Raise /\ UNCHANGED <<connVars, wire, streamState, writerState>>
     ELSE Header(OK, "sseMade")
  /\ UNCHANGED <<after, exchange, ops, asked, toWrite, sse>>

SseMade ==
  /\ pc = "sseMade"
  /\ pc' = "handler"
  /\ sse' = "live"
  /\ UNCHANGED <<connVars, after, exchange, ops, asked, toWrite, wire, streamState, writerState>>

(* "SSE writer closed" when the socket is *)
SseWrite(n) ==
  /\ sse = "live"
  /\ IF open THEN Write(n)
     ELSE /\ InHandler /\ Raise
          /\ UNCHANGED <<connVars, after, exchange, asked, toWrite, wire, streamState, writerState>>
  /\ UNCHANGED sse

CloseEvent == 1

(* close() by the handler: the object stays writable *)
SseClose ==
  /\ sse = "live"
  /\ IF open THEN Write(CloseEvent)
     ELSE /\ InHandler
          /\ UNCHANGED <<connVars, pc, after, exchange, asked, toWrite, wire, streamState,
                         writerState>>
  /\ UNCHANGED sse

(* Mutant: the destructor lets the handler return without a close event *)
DestroyedSilently == sse' = "gone" /\ UNCHANGED <<open, wire, asked, body_written>>

(* ~SSEWriter: the write of close() and what it threw *)
Destroyed ==
  /\ sse' = "gone"
  /\ asked' = asked + (IF open THEN CloseEvent ELSE 0)
  /\ IF open
     THEN \E r \in WriteResults(CloseEvent) :
            /\ PutBody(r)
            /\ body_written' = body_written + (IF r.res = "ok" THEN r.sent ELSE 0)
     ELSE UNCHANGED <<open, wire, body_written>>

SseDestroy ==
  /\ sse = "live"
  /\ pc \in {"handler", "exit"}
  /\ Destroyed
  /\ UNCHANGED <<stream, recvd, rcvTimeout, pc, after, exchange, ops, toWrite, streamState,
                 hdr, header_written, deferred, announced>>

SseStep ==
  \/ SseHeaders \/ SseHead \/ SseMade
  \/ \E n \in Chunks : SseWrite(n)
  \/ SseClose \/ SseDestroy

(* The handler does not return before it has destroyed its SSEWriter. *)
HandlerStep ==
  /\ HandlerCall \/ WriterStep \/ PeerGone
  /\ sse = "live" => pc' # "flush"
  /\ UNCHANGED sse

EventInit == RwInit /\ sse = "none"
EventNext == SseStep \/ HandlerStep
EventSpec == EventInit /\ [][EventNext]_eventVars

------------------------------------------------------------------------------
(* Properties *)

(* Events are not held back: while the handler can use its SSEWriter the    *)
(* peer has a whole head without a length, and behind it every byte of      *)
(* every event written so far; none waits in a deferred body or is cut off  *)
(* at a content-length the handler set before.                              *)
EventsPassThrough ==
  sse = "live" /\ open /\ pc \in {"handler", "put"} =>
    /\ Len(wire) = 1 /\ wire[1].whole /\ ~wire[1].torn
    /\ wire[1].st = OK /\ wire[1].len = NoLen
    /\ wire[1].sent = Passed

(* A stream whose connection is still up when the handler is done was ended *)
(* by an event, and nothing of the stream was lost before it.  If that last *)
(* event cannot be sent the destructor tells nobody.                        *)
StreamEnded ==
  sse = "gone" /\ open /\ pc \in {"flush", "loop"} =>
    \/ wire[1].torn
    \/ asked >= CloseEvent /\ wire[1].sent = asked
==============================================================================
