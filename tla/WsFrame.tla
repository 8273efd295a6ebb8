------------------------------- MODULE WsFrame -------------------------------
(***************************************************************************)
(* The bytes of a WebSocket frame's header (src/ws/websocket.cpp): what     *)
(* write() puts before a payload, and what parse_frame makes of a header    *)
(* that arrives piece by piece.  Websocket.tla has frames as the places of   *)
(* their bytes; this module shows that parse_frame finds those places.      *)
(*                                                                         *)
(* Payloads are shorter than 2^31 bytes: beyond, unpack_paylen shifts an    *)
(* int out of its range (a byte of zero stays zero).                        *)
(***************************************************************************)
EXTENDS Bytes

CONSTANTS
  FirstBytes,      \* first bytes of frames: frame bits and opcode
  PayloadSizes     \* sizes of payloads

MaxPayload == 2147483647     \* 2^31 - 1

ASSUME WsFrameAssumption == FirstBytes \subseteq 0 .. 255 /\ PayloadSizes \subseteq 0 .. MaxPayload

VARIABLES
  sending,         \* the frame whose header is under way, or NoFrame
  arrived          \* the bytes of it that stand in m_read_buff

NoFrame == [first |-> 256, size |-> 0, mask |-> <<>>]

(* Mutant: the seven bit form is used up to its mark *)
pack_paylen_upto_126(data_size) ==
  IF data_size <= 126 THEN <<data_size>>
  ELSE IF data_size < 65535 THEN <<126>> \o BigEndian(data_size, 2)
  ELSE <<127>> \o BigEndian(data_size, 8)

pack_paylen(data_size) ==
  IF data_size < 126 THEN <<data_size>>
  ELSE IF data_size < 65535 THEN <<126>> \o BigEndian(data_size, 2)
  ELSE <<127>> \o BigEndian(data_size, 8)

(* write(frame): the header before frame.data; the server uses no mask. *)
Header(frame) == <<frame.first>> \o pack_paylen(frame.size)

(* A client's header, as the server's but for the mask *)
MaskedHeader(frame) ==
  LET bare == Header(frame) IN [bare EXCEPT ![2] = @ + 128] \o frame.mask

Sent(frame) == IF frame.mask = <<>> THEN Header(frame) ELSE MaskedHeader(frame)

------------------------------------------------------------------------------
(* parse_frame *)

Incomplete == [how |-> "nothing"]
Rejected == [how |-> "thrown"]

FrameBits == {0, 128}
Opcodes == {0, 1, 2, 8, 9, 10}
ValidFirst(byte) == (byte \div 16) * 16 \in FrameBits /\ byte % 16 \in Opcodes

LengthMark(read_buff) == read_buff[2] % 128
LengthBytes(read_buff) ==
  CASE LengthMark(read_buff) = 126 -> 2 [] LengthMark(read_buff) = 127 -> 8 [] OTHER -> 0
MaskBytes(read_buff) == IF read_buff[2] >= 128 THEN 4 ELSE 0

(* four bytes as a number *)
Word(read_buff, from) ==
  Weight[4] * read_buff[from] + Weight[3] * read_buff[from + 1] + Weight[2] * read_buff[from + 2]
    + read_buff[from + 3]

unpack_paylen(read_buff) ==
  CASE LengthBytes(read_buff) = 0 -> LengthMark(read_buff)
    [] LengthBytes(read_buff) = 2 -> Weight[2] * read_buff[3] + read_buff[4]
    [] LengthBytes(read_buff) = 8 -> Word(read_buff, 3) * 65536 * 65536 + Word(read_buff, 7)

(* next_seek at the end *)
HeaderSize(read_buff) == 2 + LengthBytes(read_buff) + MaskBytes(read_buff)

parse_frame(read_buff) ==
  IF Len(read_buff) < 2 THEN Incomplete
  ELSE IF ~ValidFirst(read_buff[1]) THEN Rejected
  ELSE IF Len(read_buff) < HeaderSize(read_buff) THEN Incomplete
  ELSE [how |-> "frame", first |-> read_buff[1], size |-> unpack_paylen(read_buff),
        next_seek |-> HeaderSize(read_buff),
        mask |-> SubSeq(read_buff, 3 + LengthBytes(read_buff), HeaderSize(read_buff))]

------------------------------------------------------------------------------
(* A header is sent and arrives byte by byte. *)

FrameInit == sending = NoFrame /\ arrived = <<>>

Mask == <<255, 0, 126, 127>>

Send ==
  /\ sending = NoFrame
  /\ \E first \in FirstBytes, size \in PayloadSizes, mask \in {<<>>, Mask} :
       sending' = [first |-> first, size |-> size, mask |-> mask]
  /\ UNCHANGED arrived

Arrive ==
  /\ sending # NoFrame /\ Len(arrived) < Len(Sent(sending))
  /\ arrived' = Append(arrived, Sent(sending)[Len(arrived) + 1])
  /\ UNCHANGED sending

FrameNext == Send \/ Arrive

FrameSpec == FrameInit /\ [][FrameNext]_<<sending, arrived>>

------------------------------------------------------------------------------
(* Properties *)

(* However a header is cut, parse_frame waits until all of it is there, and *)
(* then finds the frame as it was sent: opcode, payload length at each of   *)
(* the three widths, mask, and the payload's begin.  Only a first byte that *)
(* is none throws, and that already with the second byte.                   *)
HeaderWhenWhole ==
  parse_frame(arrived) =
    IF Len(arrived) < 2 THEN Incomplete
    ELSE IF ~ValidFirst(sending.first) THEN Rejected
    ELSE IF Len(arrived) < Len(Sent(sending)) THEN Incomplete
    ELSE [how |-> "frame", first |-> sending.first, size |-> sending.size,
          next_seek |-> Len(Sent(sending)), mask |-> sending.mask]
==============================================================================
