--------------------------- MODULE FrameDelivery ---------------------------
(***************************************************************************)
(* What Websocket::next owes its caller: the payloads of the client's      *)
(* frames, one after the other, each whole and none twice, however the     *)
(* bytes arrive, and nothing from the first invalid frame on.  A frame is  *)
(* where its bytes stand in the client's stream.                           *)
(***************************************************************************)
EXTENDS Integers, Sequences

CONSTANTS
  Peers,            \* the frame sequences a client may send
  MaxFrameHeader    \* max_header_size

Masks == {"none", "m1", "m2"}

Frame == [start : Nat,          \* first byte of the header
          body : Nat,           \* first byte of the payload
          stop : Nat,           \* first byte after the frame
          valid : BOOLEAN,      \* a known frame bit and opcode
          final : BOOLEAN,      \* FrameBit
          mask : Masks]

(* Frames lie end to end; a header has two bytes, the extended length (2 or *)
(* 8) and the mask (4).                                                     *)
LaidOut(f) ==
  /\ \A i \in 1 .. Len(f) :
       /\ f[i].start + 2 <= f[i].body /\ f[i].body <= f[i].start + 14
       /\ f[i].body <= f[i].stop
  /\ f # <<>> => f[1].start = 0
  /\ \A i \in 1 .. Len(f) - 1 : f[i + 1].start = f[i].stop

ASSUME PeersAssumption ==
  /\ \A f \in Peers : f \in Seq(Frame) /\ LaidOut(f)
  /\ MaxFrameHeader \in Nat /\ MaxFrameHeader >= 14

VARIABLES
  frames,       \* what the client sends
  delivered     \* bounds of the payloads the caller got

Init == frames \in Peers /\ delivered = <<>>

Deliver ==
  LET k == Len(delivered) + 1 IN
  /\ k <= Len(frames) /\ frames[k].valid
  /\ delivered' = Append(delivered, <<frames[k].body, frames[k].stop>>)
  /\ UNCHANGED frames

Spec == Init /\ [][Deliver]_<<frames, delivered>>
==============================================================================
