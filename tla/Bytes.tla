-------------------------------- MODULE Bytes --------------------------------
(* Whole numbers as bytes, the most significant first: the shifts and masks *)
(* of pack_paylen (src/ws/websocket.cpp) and Sha1 (src/hash/sha1.cpp)       *)
EXTENDS Integers, Sequences

Weight == <<1, 256, 65536, 16777216>>     \* 256^0 .. 256^3

(* number >> (8 * places) & 0xFF; four places are 65536 twice *)
ByteAt(number, places) ==
  LET shifted == IF places < 4 THEN number ELSE (number \div 65536) \div 65536
  IN (shifted \div Weight[(places % 4) + 1]) % 256

BigEndian(number, width) == [i \in 1 .. width |-> ByteAt(number, width - i)]
==============================================================================
