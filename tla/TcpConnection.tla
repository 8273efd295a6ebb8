--------------------------- MODULE TcpConnection ---------------------------
(***************************************************************************)
(* One accepted TCP connection as class Net::TcpConnection shows it to the *)
(* HTTP code (src/net/tcp_conn.cpp).                                       *)
(*                                                                         *)
(* The bytes the peer sends are a fixed sequence of units, `stream`: a     *)
(* complete line of a request head, or a piece of a request body.  `recvd` *)
(* counts the units recv() has handed to the program.  The peer may fall   *)
(* silent, close or reset at any point, so a recv() may also time out,     *)
(* find the stream closed, or fail.                                        *)
(*                                                                         *)
(* A recv() blocks: it is split over two steps of the thread, the call     *)
(* (the caller's pc) and one of the outcomes below.                        *)
(***************************************************************************)
EXTENDS Integers, Sequences

CONSTANT Streams        \* the unit sequences a peer may send

UnitKind == {"reqline", "clen", "ctype", "close", "other", "end", "body"}

ASSUME StreamsAssumption == Streams \subseteq Seq([kind : UnitKind, val : Nat])

VARIABLES
  stream,       \* what the peer sends on this connection, never changed
  open,         \* m_sock # LAMBDA_INVALID_SOCKET
  recvd,        \* units received so far
  rcvTimeout    \* SO_RCVTIMEO in whole seconds, 0 = recv() never times out

connVars == <<stream, open, recvd, rcvTimeout>>

ConnTypeOK ==
  /\ stream \in Streams
  /\ open \in BOOLEAN
  /\ recvd \in 0 .. Len(stream)
  /\ rcvTimeout \in Nat

(* cast_timeout_value: the milliseconds below a second are dropped *)
TimevalSeconds(ms) == ms \div 1000

(* Mutant: a timeout below one second *)
DefaultIoTimeoutShort == 900

DefaultIoTimeout == 15000

ConnInit ==
  /\ stream \in Streams
  /\ open = TRUE
  /\ recvd = 0
  /\ rcvTimeout = TimevalSeconds(DefaultIoTimeout)

------------------------------------------------------------------------------
(* The outcomes of TcpConnection::read(want).  A recv() of zero bytes       *)
(* returns zero, which the code takes for the end of the stream.            *)

RecvData(want, n) ==
  /\ open /\ want > 0
  /\ n \in 1 .. want
  /\ recvd + n <= Len(stream)
  /\ recvd' = recvd + n
  /\ UNCHANGED <<stream, open, rcvTimeout>>

(* returns empty, the socket stays open *)
RecvTimeout(want) ==
  /\ open /\ want > 0
  /\ rcvTimeout > 0
  /\ UNCHANGED connVars

CloseConn ==
  /\ open' = FALSE
  /\ UNCHANGED <<stream, recvd, rcvTimeout>>

(* end of stream, or an errno of lambda_is_error_disconnect: empty *)
RecvClosed == open /\ CloseConn

(* read() throws: any other errno *)
RecvError == open /\ UNCHANGED connVars

------------------------------------------------------------------------------
(* The results of TcpConnection::write of m bytes, as [sent, res]: "ok"     *)
(* sent them all; "lost" closed the socket and returned 0; "throws" raised  *)
(* and left the socket open.  A send() that is cut short by the send        *)
(* timeout leaves errno to an earlier call, so both failures may follow     *)
(* a partial send.                                                          *)

WriteResults(m) ==
  {[sent |-> m, res |-> "ok"]}
    \cup [sent : {k \in 0 .. m : k < m \/ k = 0}, res : {"lost", "throws"}]
==============================================================================
