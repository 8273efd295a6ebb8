---------------------------- MODULE Conversation ----------------------------
(***************************************************************************)
(* What the thread of a connection promises its peer: requests are taken   *)
(* up one at a time, and each gets its reply before the next is taken up;  *)
(* a reply that breaks off is the last thing said.  How requests are read, *)
(* and how a reply is composed and sent, is left to H1Pipeline.            *)
(***************************************************************************)
EXTENDS Naturals, Sequences

VARIABLES
  taken,      \* requests taken up so far
  replies,    \* for each reply, the request it is to and whether it is unbroken
  phase       \* "idle": ready for a request; "serving"; "over"

Init == taken = 0 /\ replies = <<>> /\ phase = "idle"

(* A request is taken up, perhaps as the connection breaks. *)
Take ==
  /\ phase = "idle"
  /\ taken' = taken + 1
  /\ phase' \in {"serving", "over"}
  /\ UNCHANGED replies

(* A reply begins, and may break off at once. *)
Reply ==
  /\ phase = "serving"
  /\ Len(replies) = taken - 1
  /\ \E unbroken \in BOOLEAN :
       /\ replies' = Append(replies, [to |-> taken, unbroken |-> unbroken])
       /\ phase' \in IF unbroken THEN {"serving", "idle", "over"} ELSE {"over"}
  /\ UNCHANGED taken

(* More of the reply is sent, and some of it is lost. *)
BreakOff ==
  /\ phase = "serving"
  /\ Len(replies) = taken
  /\ replies' = [replies EXCEPT ![taken].unbroken = FALSE]
  /\ phase' = "over"
  /\ UNCHANGED taken

Replied ==
  /\ phase = "serving"
  /\ Len(replies) = taken /\ replies[taken].unbroken
  /\ phase' = "idle"
  /\ UNCHANGED <<taken, replies>>

End ==
  /\ phase # "over"
  /\ phase' = "over"
  /\ UNCHANGED <<taken, replies>>

Next == Take \/ Reply \/ BreakOff \/ Replied \/ End

Spec == Init /\ [][Next]_<<taken, replies, phase>>
==============================================================================
