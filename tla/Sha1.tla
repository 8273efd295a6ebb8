-------------------------------- MODULE Sha1 --------------------------------
(***************************************************************************)
(* The block buffer of Sha1 (src/hash/sha1.cpp): how update() and digest()  *)
(* cut a message of any length into blocks and pad the last of them.  What  *)
(* m_transform computes from a block is left out: `state` is the sequence  *)
(* of the blocks it was given.                                              *)
(*                                                                         *)
(* A byte of the message stands for its place in it (MessageByte), so that *)
(* a byte lost, doubled or out of place shows.                              *)
(***************************************************************************)
EXTENDS Bytes

CONSTANT MaxMessage    \* bound on the length of a message

ASSUME Sha1Assumption == MaxMessage \in Nat

VARIABLES
  block,      \* data[64]
  datalen,
  bitlen,
  state,      \* the blocks transformed
  fed,        \* bytes given to update() so far
  digested    \* the object is spent

sha1Vars == <<block, datalen, bitlen, state, fed, digested>>

BlockLength == 64
LengthField == 56     \* where the length of the message goes in the last block

MessageByte(i) == 256 + i

Zeros(n) == [i \in 1 .. n |-> 0]

Sha1Init ==
  /\ block = Zeros(BlockLength) /\ datalen = 0 /\ bitlen = 0 /\ state = <<>>
  /\ fed = 0 /\ digested = FALSE

(* update(): one turn of its loop *)
UpdateByte ==
  /\ ~digested /\ fed < MaxMessage
  /\ fed' = fed + 1
  /\ block' = [block EXCEPT ![datalen + 1] = MessageByte(fed')]
  /\ IF datalen + 1 = BlockLength
     THEN state' = Append(state, block') /\ bitlen' = bitlen + 512 /\ datalen' = 0
     ELSE datalen' = datalen + 1 /\ UNCHANGED <<state, bitlen>>
  /\ UNCHANGED digested

(* the buffer, the mark of the end, and zeros up to `length` *)
Ended(length) == SubSeq(block, 1, datalen) \o <<128>> \o Zeros(length - datalen - 1)

(* Mutant: the mark is let into the place of the length *)
MarkFitsUpto == datalen <= LengthField

(* in front of the length *)
MarkFits == datalen < LengthField

Digest ==
  /\ ~digested /\ digested' = TRUE
  /\ bitlen' = bitlen + datalen * 8
  /\ LET length == BigEndian(bitlen', BlockLength - LengthField)
     IN IF MarkFits
        THEN block' = Ended(LengthField) \o length /\ state' = Append(state, block')
        ELSE /\ block' = Zeros(LengthField) \o length
             /\ state' = state \o <<Ended(BlockLength), block'>>
  /\ UNCHANGED <<datalen, fed>>

Sha1Next == UpdateByte \/ Digest

Sha1Spec == Sha1Init /\ [][Sha1Next]_sha1Vars

------------------------------------------------------------------------------
(* Properties *)

(* SHA-1's padding: the message, a bit, as few zeros as fill the blocks     *)
(* behind them, and the length of the message in bits                      *)
PaddedMessage(n) ==
  LET gap == CHOOSE k \in 0 .. BlockLength - 1 : (n + 1 + k + 8) % BlockLength = 0
  IN [i \in 1 .. n |-> MessageByte(i)] \o <<128>> \o Zeros(gap) \o BigEndian(8 * n, 8)

(* bytes in blocks of 64 *)
Blocks(bytes) ==
  [k \in 1 .. Len(bytes) \div BlockLength |->
     SubSeq(bytes, BlockLength * (k - 1) + 1, BlockLength * k)]

(* For a message of every length, on both sides of the places where the     *)
(* padding needs another block, m_transform gets exactly the blocks of the  *)
(* padded message, in order.                                                *)
BlocksPadded == digested => state = Blocks(PaddedMessage(fed))
==============================================================================
