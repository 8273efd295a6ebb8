-------------------------------- MODULE Base64 --------------------------------
(***************************************************************************)
(* Base64 (src/base64/base64.cpp): three bytes are four characters of six  *)
(* bits each.  Exclusive or of parts that share no bit is written as +.    *)
(***************************************************************************)
EXTENDS Naturals, Sequences, SequencesExt

(* table_encode: A-Z a-z 0-9 + / *)
Char(n) ==
  CASE n < 26 -> 65 + n
    [] n \in 26 .. 51 -> 71 + n
    [] n \in 52 .. 61 -> n - 4
    [] n = 62 -> 43
    [] n = 63 -> 47

Alphabet == {Char(n) : n \in 0 .. 63}
Padding == 61

valid(data) == \A i \in 1 .. Len(data) : data[i] \in Alphabet \cup {Padding}

(* table_decode, without the two zero bits at its right: a character that   *)
(* is not in the alphabet counts as zero                                   *)
Sextet(c) == IF c \in Alphabet THEN CHOOSE n \in 0 .. 63 : Char(n) = c ELSE 0

(* The bytes and characters of a block: enc_b1 .. enc_b4, dec_b1 .. dec_b3 *)
Enc(a, b, c) ==
  <<Char(a \div 4), Char((a % 4) * 16 + b \div 16), Char((b % 16) * 4 + c \div 64), Char(c % 64)>>

Dec(a, b, c, d) ==
  <<Sextet(a) * 4 + Sextet(b) \div 16,
    (Sextet(b) % 16) * 16 + Sextet(c) \div 4,
    (Sextet(c) % 4) * 64 + Sextet(d)>>

(* The characters of the bytes from i on: where bytes are missing, padding   *)
EncBlock(data, i) ==
  IF Len(data) = i
  THEN LET enc == Enc(data[i], 0, 0) IN <<enc[1], enc[2], Padding, Padding>>
  ELSE IF Len(data) = i + 1
  THEN LET enc == Enc(data[i], data[i + 1], 0) IN <<enc[1], enc[2], enc[3], Padding>>
  ELSE Enc(data[i], data[i + 1], data[i + 2])

base64_encode(data) ==
  [k \in 1 .. 4 * ((Len(data) + 2) \div 3) |->
     EncBlock(data, 3 * ((k - 1) \div 4) + 1)[((k - 1) % 4) + 1]]

(* Mutant: only the last character is looked at *)
PaddingOfLast(data) == IF data[Len(data)] = Padding THEN 1 ELSE 0

(* How many of the last two characters are padding *)
PaddingLength(data) == Cardinality({i \in {Len(data) - 1, Len(data)} : data[i] = Padding})

(* The bytes of the characters from i on *)
DecBlock(data, i) == Dec(data[i], data[i + 1], data[i + 2], data[i + 3])

(* Of nonempty data.  An incomplete block makes room for one byte only (its *)
(* second byte is written behind the result and lost); without one the     *)
(* bytes that stand for padding are dropped.                               *)
base64_decode(data) ==
  LET whole == Len(data) \div 4
      bytes == [k \in 1 .. 3 * whole |-> DecBlock(data, 4 * ((k - 1) \div 3) + 1)[((k - 1) % 3) + 1]]
      rest == SubSeq(data, 4 * whole + 1, Len(data))
  IN CASE Len(rest) = 0 -> SubSeq(bytes, 1, 3 * whole - PaddingLength(data))
       [] Len(rest) = 1 -> Append(bytes, Dec(rest[1], 0, 0, 0)[1])
       [] Len(rest) > 1 -> Append(bytes, Dec(rest[1], rest[2], 0, 0)[1])
===============================================================================
