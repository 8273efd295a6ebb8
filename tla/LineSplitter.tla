---------------------------- MODULE LineSplitter ----------------------------
(***************************************************************************)
(* What read_request_head owes its caller, however the bytes arrive: the   *)
(* lines of a head, one after the other, each from where the one before    *)
(* ended to the first CR LF from there on.  Positions count from 0.        *)
(***************************************************************************)
EXTENDS Integers, Sequences

CONSTANT Inputs      \* the byte sequences a peer may send

Byte == {"cr", "lf", "ch"}

ASSUME InputsAssumption == Inputs \subseteq Seq(Byte)

VARIABLES
  bytes,    \* what the peer sends
  pos,      \* where the next line begins
  lines     \* the lines so far: begin and end of each

BreakAt(b, i) == b[i + 1] = "cr" /\ b[i + 2] = "lf"

(* e is the end of the line of b that begins at p. *)
EndsLine(b, p, e) ==
  /\ e \in p .. Len(b) - 2
  /\ BreakAt(b, e)
  /\ \A i \in p .. e - 1 : ~BreakAt(b, i)

Init == bytes \in Inputs /\ pos = 0 /\ lines = <<>>

NextLine ==
  \E e \in 0 .. Len(bytes) : 
    /\ EndsLine(bytes, pos, e)
    /\ lines' = Append(lines, <<pos, e>>)
    /\ pos' = e + 2
    /\ UNCHANGED bytes

Spec == Init /\ [][NextLine]_<<bytes, pos, lines>>
==============================================================================
