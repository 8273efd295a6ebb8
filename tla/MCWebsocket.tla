---------------------------- MODULE MCWebsocket ----------------------------
(* Clients that send up to three frames: empty and longer than a read, with *)
(* and without a mask, the largest header, a message in fragments, and an   *)
(* invalid frame.                                                           *)
EXTENDS Websocket

Shape(header, length, final, mask) ==
  [header |-> header, length |-> length, valid |-> TRUE, final |-> final, mask |-> mask]

Junk == [header |-> 2, length |-> 3, valid |-> FALSE, final |-> TRUE, mask |-> "none"]

(* The frames of the given shapes, end to end *)
Lay(shapes) ==
  LET begin[i \in 1 .. Len(shapes) + 1] ==
        IF i = 1 THEN 0 ELSE begin[i - 1] + shapes[i - 1].header + shapes[i - 1].length
  IN [i \in 1 .. Len(shapes) |->
        [start |-> begin[i],
         body  |-> begin[i] + shapes[i].header,
         stop  |-> begin[i + 1],
         valid |-> shapes[i].valid,
         final |-> shapes[i].final,
         mask  |-> shapes[i].mask]]

MCPeers ==
  {Lay(<<Shape(6, 3, TRUE, "m1"), Shape(2, 0, TRUE, "none"), Shape(6, 0, TRUE, "m2")>>),
   Lay(<<Shape(14, 9, TRUE, "m1"), Shape(6, 1, TRUE, "m2")>>),
   Lay(<<Shape(6, 2, FALSE, "m1"), Shape(6, 1, FALSE, "m2"), Shape(6, 2, TRUE, "m2")>>),
   Lay(<<Shape(4, 5, TRUE, "none"), Shape(2, 1, TRUE, "none"), Junk>>)}
==============================================================================
