----------------------------- MODULE CodecProofs -----------------------------
(* Theorems about bytes that come in pieces: the headers of WebSocket frames *)
(* (FrameSpec), the blocks that a message is hashed in (Sha1Spec), and the   *)
(* lines of a request head (HeadSpec).                                       *)
EXTENDS WsFrame, Sha1, HeadReader, SequenceTheorems, TLAPS

------------------------------------------------------------------------------
(* Numbers as bytes *)

(* What a payload may be long *)
Lengths == 0 .. MaxPayload

LEMMA LengthIs ==
  ASSUME NEW n \in Lengths
  PROVE  n \in Nat /\ n \div 65536 < 32768
<1>1. MaxPayload \in Nat /\ MaxPayload \div 65536 < 32768
  BY SMT DEF MaxPayload
<1>2. n \in Nat /\ n <= MaxPayload
  BY SMT, <1>1 DEF Lengths
<1> QED BY SMT, <1>1, <1>2

LEMMA Weights == Weight[1] = 1 /\ Weight[2] = 256 /\ Weight[3] = 65536 /\ Weight[4] = 16777216
BY SMT DEF Weight

(* The bytes of a number below 2^31 *)
LEMMA BytesOf ==
  ASSUME NEW n \in Lengths
  PROVE  /\ ByteAt(n, 0) = n % 256 /\ ByteAt(n, 1) = (n \div 256) % 256
         /\ ByteAt(n, 2) = (n \div 65536) % 256 /\ ByteAt(n, 3) = (n \div 16777216) % 256
         /\ \A i \in 4 .. 7 : ByteAt(n, i) = 0
<1>0. n \in Nat
  BY LengthIs, SMT
<1>1. n \div 1 = n
  BY SMT, <1>0
<1>2. 0 % 4 = 0 /\ 1 % 4 = 1 /\ 2 % 4 = 2 /\ 3 % 4 = 3
  BY SMT
<1>3. (n \div 65536) \div 65536 = 0
  BY SMT, LengthIs
<1>4. ASSUME NEW i \in 4 .. 7 PROVE ByteAt(n, i) = 0
  <2>1. (i % 4) + 1 \in {1, 2, 3, 4}
    BY SMT
  <2>2. 0 \div Weight[(i % 4) + 1] = 0
    <3>1. \A w \in {1, 256, 65536, 16777216} : 0 \div w = 0
      BY SMT
    <3>2. Weight[(i % 4) + 1] \in {1, 256, 65536, 16777216}
      BY SMT, <2>1, Weights
    <3> QED BY SMT, <3>1, <3>2
  <2>3. ~(i < 4) /\ 0 % 256 = 0
    BY SMT
  <2> QED BY SMT, <1>3, <2>2, <2>3 DEF ByteAt
<1> QED BY SMT, <1>1, <1>2, <1>4, Weights DEF ByteAt

(* They are bytes, and they make up the number. *)
LEMMA NumberOf ==
  ASSUME NEW n \in Lengths
  PROVE  /\ n < 65536 => 256 * ByteAt(n, 1) + ByteAt(n, 0) = n
         /\ 16777216 * ByteAt(n, 3) + 65536 * ByteAt(n, 2) + 256 * ByteAt(n, 1) + ByteAt(n, 0) = n
<1> DEFINE q1 == n \div 256
           q2 == n \div 65536
           q3 == n \div 16777216
<1>1. q1 \in Nat /\ q2 \in Nat /\ q3 \in Nat /\ q3 < 128
  BY SMT, LengthIs
<1>2. n = 256 * q1 + (n % 256) /\ n % 256 \in Nat /\ n % 256 < 256 /\ n \in Nat
  BY SMT, LengthIs
<1>3. q1 = 256 * q2 + (q1 % 256) /\ q1 % 256 \in Nat /\ q1 % 256 < 256
  BY SMT, LengthIs
<1>4. q2 = 256 * q3 + (q2 % 256) /\ q2 % 256 \in Nat /\ q2 % 256 < 256
  BY SMT, LengthIs
<1>5. q3 % 256 = q3
  <2> HIDE DEF q3
  <2> QED BY SMT, <1>1
<1>6. ByteAt(n, 0) = n % 256 /\ ByteAt(n, 1) = q1 % 256 /\ ByteAt(n, 2) = q2 % 256
      /\ ByteAt(n, 3) = q3 % 256 /\ \A i \in 4 .. 7 : ByteAt(n, i) = 0
  BY SMT, BytesOf
<1>7. n < 65536 => q1 % 256 = q1
  BY SMT, LengthIs
<1> HIDE DEF q1, q2, q3
<1> QED BY SMT, <1>1, <1>2, <1>3, <1>4, <1>5, <1>6, <1>7

LEMMA ByteIsByte ==
  ASSUME NEW n \in Lengths, NEW i \in 0 .. 7
  PROVE  ByteAt(n, i) \in Nat
<1>1. CASE i \in {0, 1, 2, 3}
  <2>1. n \in Nat /\ n \div 256 \in Nat /\ n \div 65536 \in Nat /\ n \div 16777216 \in Nat
    BY SMT, LengthIs
  <2> QED BY SMT, <1>1, <2>1, BytesOf
<1>2. CASE i \in 4 .. 7
  BY SMT, <1>2, BytesOf
<1> QED BY SMT, <1>1, <1>2

(* Bytes behind bytes *)
LEMMA Appended ==
  ASSUME NEW s \in Seq(Nat), NEW t \in Seq(Nat)
  PROVE  /\ s \o t \in Seq(Nat) /\ Len(s \o t) = Len(s) + Len(t)
         /\ \A i \in 1 .. Len(s) : (s \o t)[i] = s[i]
         /\ \A i \in 1 .. Len(t) : (s \o t)[Len(s) + i] = t[i]
OBVIOUS

------------------------------------------------------------------------------
(* The bytes of a header *)

FrameType ==
  [first : 0 .. 255, size : Lengths, mask : {<<>>, Mask}]

(* The length's mark, and the bytes behind it *)
MarkOf(n) == IF n < 126 THEN n ELSE IF n < 65535 THEN 126 ELSE 127
WidthOf(n) == IF n < 126 THEN 0 ELSE IF n < 65535 THEN 2 ELSE 8

PackedAs(n, w, mark) ==
  /\ pack_paylen(n) \in Seq(Nat) /\ Len(pack_paylen(n)) = 1 + w
  /\ pack_paylen(n)[1] = mark
  /\ \A i \in 1 .. w : pack_paylen(n)[1 + i] = ByteAt(n, w - i)

LEMMA PackedBehindMark ==
  ASSUME NEW n \in Lengths, NEW w \in Nat, w <= 8, NEW mark \in Nat,
         pack_paylen(n) = <<mark>> \o BigEndian(n, w)
  PROVE  PackedAs(n, w, mark)
<1>1. \A i \in 1 .. w : ByteAt(n, w - i) \in Nat
  <2> SUFFICES ASSUME NEW i \in 1 .. w PROVE ByteAt(n, w - i) \in Nat
    OBVIOUS
  <2>1. w - i \in 0 .. 7
    BY SMT
  <2> QED BY Zenon, <2>1, ByteIsByte
<1>2. BigEndian(n, w) \in Seq(Nat) /\ Len(BigEndian(n, w)) = w
      /\ \A i \in 1 .. w : BigEndian(n, w)[i] = ByteAt(n, w - i)
  BY SMT, <1>1 DEF BigEndian
<1>3. <<mark>> \in Seq(Nat) /\ Len(<<mark>>) = 1 /\ <<mark>>[1] = mark
  BY SMT
<1>4. pack_paylen(n) \in Seq(Nat) /\ Len(pack_paylen(n)) = 1 + w
  BY SMT, <1>2, <1>3, ConcatProperties
<1>5. pack_paylen(n)[1] = mark /\ \A i \in 1 .. w : pack_paylen(n)[1 + i] = BigEndian(n, w)[i]
  BY SMT, <1>2, <1>3, ConcatProperties
<1> QED BY SMT, <1>2, <1>4, <1>5 DEF PackedAs

LEMMA Packed ==
  ASSUME NEW n \in Lengths
  PROVE  PackedAs(n, WidthOf(n), MarkOf(n))
<1>1. CASE n < 126
  <2>1. pack_paylen(n) = <<n>> /\ WidthOf(n) = 0 /\ MarkOf(n) = n
    BY SMT, <1>1, LengthIs DEF pack_paylen, WidthOf, MarkOf
  <2>2. 1 .. 0 = {} /\ <<n>> \in Seq(Nat) /\ Len(<<n>>) = 1 + 0 /\ <<n>>[1] = n
    BY SMT, LengthIs
  <2> QED BY SMT, <2>1, <2>2 DEF PackedAs
<1>2. CASE ~(n < 126) /\ n < 65535
  <2>1. pack_paylen(n) = <<126>> \o BigEndian(n, 2) /\ WidthOf(n) = 2 /\ MarkOf(n) = 126
    BY SMT, <1>2, LengthIs DEF pack_paylen, WidthOf, MarkOf
  <2> QED BY SMT, <2>1, PackedBehindMark
<1>3. CASE ~(n < 65535)
  <2>1. pack_paylen(n) = <<127>> \o BigEndian(n, 8) /\ WidthOf(n) = 8 /\ MarkOf(n) = 127
    BY SMT, <1>3, LengthIs DEF pack_paylen, WidthOf, MarkOf
  <2> QED BY SMT, <2>1, PackedBehindMark
<1> QED BY SMT, <1>1, <1>2, <1>3

(* The places of a header's bytes *)
MaskedMark(frame) == MarkOf(frame.size) + (IF frame.mask = <<>> THEN 0 ELSE 128)

Laid(h, frame) ==
  /\ h \in Seq(Nat) /\ Len(h) = 2 + WidthOf(frame.size) + Len(frame.mask)
  /\ h[1] = frame.first /\ h[2] = MaskedMark(frame)
  /\ \A i \in 1 .. WidthOf(frame.size) :
       h[2 + i] = ByteAt(frame.size, WidthOf(frame.size) - i)
  /\ \A i \in 1 .. Len(frame.mask) : h[2 + WidthOf(frame.size) + i] = frame.mask[i]

LEMMA Widths ==
  ASSUME NEW n \in Lengths
  PROVE  /\ WidthOf(n) \in {0, 2, 8} /\ MarkOf(n) \in Nat /\ MarkOf(n) < 128
         /\ WidthOf(n) = IF MarkOf(n) = 126 THEN 2 ELSE IF MarkOf(n) = 127 THEN 8 ELSE 0
         /\ WidthOf(n) = 0 => MarkOf(n) = n
         /\ WidthOf(n) = 2 => n < 65536
BY SMT, LengthIs DEF WidthOf, MarkOf

LEMMA HeaderLaid ==
  ASSUME NEW frame \in FrameType
  PROVE  Laid(Sent(frame), frame)
<1> DEFINE n == frame.size
           w == WidthOf(n)
           p == pack_paylen(n)
           h == Header(frame)
<1>1. frame.first \in 0 .. 255 /\ n \in Lengths /\ frame.mask \in {<<>>, Mask}
  BY Zenon DEF FrameType
<1>2. p \in Seq(Nat) /\ Len(p) = 1 + w /\ p[1] = MarkOf(n)
      /\ \A i \in 1 .. w : p[1 + i] = ByteAt(n, w - i)
  BY Zenon, <1>1, Packed DEF PackedAs
<1>3. w \in Nat /\ MarkOf(n) \in Nat
  <2>1. n \in Lengths
    BY Zenon, <1>1
  <2> HIDE DEF n
  <2> QED BY SMT, <2>1, Widths
<1>4. h \in Seq(Nat) /\ Len(h) = 2 + w /\ h[1] = frame.first /\ h[2] = MarkOf(n)
      /\ \A i \in 1 .. w : h[2 + i] = ByteAt(n, w - i)
  <2> DEFINE f == <<frame.first>>
  <2>1. f \in Seq(Nat) /\ Len(f) = 1 /\ f[1] = frame.first
    <3>0. \A byte \in 0 .. 255 : byte \in Nat
      BY SMT
    <3>1. frame.first \in Nat
      BY Zenon, <1>1, <3>0
    <3> QED BY SMT, <3>1
  <2>2. h = f \o p
    BY Zenon DEF Header
  <2> HIDE DEF h, p, f, w, n
  <2>3. h \in Seq(Nat) /\ Len(h) = Len(f) + Len(p)
        /\ (\A i \in 1 .. Len(f) : h[i] = f[i]) /\ (\A i \in 1 .. Len(p) : h[Len(f) + i] = p[i])
    BY Zenon, <1>2, <2>1, <2>2, Appended
  <2>4. Len(h) = 2 + w /\ h[1] = f[1] /\ \A i \in 1 .. 1 + w : h[1 + i] = p[i]
    BY SMT, <1>2, <1>3, <2>1, <2>3
  <2>5. h[2] = p[1] /\ \A i \in 1 .. w : h[2 + i] = p[1 + i]
    BY SMT, <1>3, <2>4
  <2> QED BY SMT, <1>2, <2>1, <2>3, <2>4, <2>5
<1>5. CASE frame.mask = <<>>
  <2>1. Sent(frame) = h /\ Len(frame.mask) = 0 /\ MaskedMark(frame) = MarkOf(n)
    <3>1. Sent(frame) = h
      BY Zenon, <1>5 DEF Sent
    <3> HIDE DEF h, n
    <3>2. Len(frame.mask) = 0
      BY SMT, <1>5
    <3>3. MaskedMark(frame) = MarkOf(n)
      BY SMT, <1>3, <1>5 DEF MaskedMark, n
    <3> QED BY <3>1, <3>2, <3>3
  <2>2. 1 .. 0 = {}
    BY SMT
  <2> HIDE DEF h
  <2> QED BY SMT, <1>3, <1>4, <2>1, <2>2 DEF Laid
<1>6. CASE frame.mask = Mask
  <2> DEFINE g == [h EXCEPT ![2] = @ + 128]
  <2>1. Mask \in Seq(Nat) /\ Len(Mask) = 4 /\ Mask # <<>>
    BY SMT DEF Mask
  <2>2. Sent(frame) = g \o Mask
    BY SMT, <1>6, <2>1 DEF Sent, MaskedHeader
  <2>3. MaskedMark(frame) = MarkOf(n) + 128
    BY SMT, <1>6, <2>1 DEF MaskedMark
  <2> HIDE DEF h, n, w, Mask
  <2>4. g \in Seq(Nat) /\ Len(g) = 2 + w /\ g[2] = MarkOf(n) + 128
        /\ \A i \in 1 .. Len(g) : i # 2 => g[i] = h[i]
    BY SMT, <1>3, <1>4
  <2> HIDE DEF g
  <2>5. Sent(frame) \in Seq(Nat) /\ Len(Sent(frame)) = Len(g) + Len(Mask)
        /\ (\A i \in 1 .. Len(g) : Sent(frame)[i] = g[i])
        /\ (\A i \in 1 .. Len(Mask) : Sent(frame)[Len(g) + i] = Mask[i])
    <3>1. g \in Seq(Nat) /\ Mask \in Seq(Nat)
      BY <2>1, <2>4
    <3>2. /\ g \o Mask \in Seq(Nat) /\ Len(g \o Mask) = Len(g) + Len(Mask)
          /\ \A i \in 1 .. Len(g) : (g \o Mask)[i] = g[i]
          /\ \A i \in 1 .. Len(Mask) : (g \o Mask)[Len(g) + i] = Mask[i]
      BY ONLY <3>1, Appended
    <3> QED BY Zenon, <2>2, <3>2
  <2>6. Len(Sent(frame)) = 2 + w + 4 /\ \A i \in 1 .. 4 : Sent(frame)[2 + w + i] = Mask[i]
    BY SMT, <1>3, <2>1, <2>4, <2>5
  <2>7. Sent(frame)[1] = frame.first /\ Sent(frame)[2] = MarkOf(n) + 128
        /\ \A i \in 1 .. w : Sent(frame)[2 + i] = ByteAt(n, w - i)
    BY SMT, <1>3, <1>4, <2>4, <2>5
  <2> QED BY SMT, <1>6, <2>1, <2>3, <2>5, <2>6, <2>7 DEF Laid, n, w
<1> QED BY <1>1, <1>5, <1>6, Zenon

(* What parse_frame makes of the bytes that arrived of a header *)
Begins(a, frame) ==
  /\ a \in Seq(Nat) /\ Len(a) <= Len(Sent(frame))
  /\ \A i \in 1 .. Len(a) : a[i] = Sent(frame)[i]

LEMMA HeaderKnown ==
  ASSUME NEW frame \in FrameType, NEW a, Begins(a, frame), Len(a) >= 2
  PROVE  /\ a[1] = frame.first /\ LengthMark(a) = MarkOf(frame.size)
         /\ LengthBytes(a) = WidthOf(frame.size) /\ MaskBytes(a) = Len(frame.mask)
         /\ HeaderSize(a) = Len(Sent(frame))
<1> DEFINE n == frame.size
           m == Len(frame.mask)
<1>1. n \in Lengths /\ frame.mask \in {<<>>, Mask}
  BY Zenon DEF FrameType
<1>2. /\ Len(Sent(frame)) = 2 + WidthOf(n) + m /\ Sent(frame)[1] = frame.first
      /\ Sent(frame)[2] = MaskedMark(frame)
  BY Zenon, HeaderLaid DEF Laid
<1>3. /\ m = (IF frame.mask = <<>> THEN 0 ELSE 4)
      /\ MaskedMark(frame) = MarkOf(n) + (IF m = 0 THEN 0 ELSE 128)
  <2>1. Len(<<>>) = 0 /\ Len(Mask) = 4 /\ Mask # <<>>
    BY SMT DEF Mask
  <2>2. m = (IF frame.mask = <<>> THEN 0 ELSE 4)
    BY Zenon, <1>1, <2>1
  <2> HIDE DEF m
  <2> QED BY SMT, <2>2 DEF MaskedMark
<1>4. a[1] = frame.first /\ a[2] = MaskedMark(frame)
  <2>1. 1 \in 1 .. Len(a) /\ 2 \in 1 .. Len(a)
    BY SMT DEF Begins
  <2> QED BY Zenon, <1>2, <2>1 DEF Begins
<1> HIDE DEF n, m
<1>5. /\ MarkOf(n) \in Nat /\ MarkOf(n) < 128 /\ WidthOf(n) \in {0, 2, 8}
      /\ WidthOf(n) = IF MarkOf(n) = 126 THEN 2 ELSE IF MarkOf(n) = 127 THEN 8 ELSE 0
  BY SMT, <1>1, Widths
<1>6. LengthMark(a) = MarkOf(n) /\ (a[2] >= 128 <=> m # 0)
  BY SMT, <1>3, <1>4, <1>5 DEF LengthMark
<1>7. LengthBytes(a) = WidthOf(n)
  BY SMT, <1>5, <1>6 DEF LengthBytes
<1>8. MaskBytes(a) = m
  BY SMT, <1>3, <1>6 DEF MaskBytes
<1>9. HeaderSize(a) = Len(Sent(frame))
  BY SMT, <1>2, <1>3, <1>5, <1>7, <1>8 DEF HeaderSize
<1> QED BY Zenon, <1>4, <1>6, <1>7, <1>8, <1>9 DEF n, m

LEMMA LengthRead ==
  ASSUME NEW frame \in FrameType, NEW a, Begins(a, frame), Len(a) = Len(Sent(frame))
  PROVE  unpack_paylen(a) = frame.size
<1> DEFINE n == frame.size
           w == WidthOf(n)
<1>1. n \in Lengths
  BY Zenon DEF FrameType
<1>2. /\ Len(a) = 2 + w + Len(frame.mask)
      /\ \A i \in 1 .. w : Sent(frame)[2 + i] = ByteAt(n, w - i)
  BY Zenon, HeaderLaid DEF Laid
<1>3. Len(frame.mask) \in Nat
  <2>1. frame.mask \in {<<>>, Mask}
    BY Zenon DEF FrameType
  <2>2. Len(<<>>) \in Nat /\ Len(Mask) \in Nat
    BY SMT DEF Mask
  <2> QED BY Zenon, <2>1, <2>2
<1>4. w \in {0, 2, 8} /\ (w = 0 => MarkOf(n) = n) /\ (w = 2 => n < 65536)
  <2> HIDE DEF n
  <2> QED BY SMT, <1>1, Widths
<1>5. \A i \in 1 .. Len(a) : a[i] = Sent(frame)[i]
  BY Zenon DEF Begins
<1>6. Len(a) >= 2
  BY SMT, <1>2, <1>3, <1>4
<1>7. LengthMark(a) = MarkOf(n) /\ LengthBytes(a) = w
  BY Zenon, <1>6, HeaderKnown
<1> HIDE DEF w, n
<1>8. \A i \in 1 .. w : a[2 + i] = ByteAt(n, w - i)
  <2> SUFFICES ASSUME NEW i \in 1 .. w PROVE a[2 + i] = ByteAt(n, w - i)
    OBVIOUS
  <2>0. w \in Nat /\ Len(a) = 2 + w + Len(frame.mask)
    BY SMT, <1>2, <1>4
  <2>1. 2 + i \in 1 .. Len(a)
    <3> DEFINE m == Len(frame.mask)
    <3>1. w \in Nat /\ m \in Nat /\ Len(a) = 2 + w + m
      BY Zenon, <1>3, <2>0
    <3> HIDE DEF m
    <3>2. i \in Nat /\ 1 <= i /\ i <= w
      BY SMT, <3>1
    <3>3. 2 + i <= 2 + w + m
      BY SMT, <3>1, <3>2
    <3> QED BY SMT, <3>1, <3>2, <3>3
  <2> QED BY Zenon, <1>2, <1>5, <2>1
<1>9. CASE w = 0
  BY SMT, <1>4, <1>7, <1>9 DEF unpack_paylen, n
<1>10. CASE w = 2
  <2>1. a[3] = ByteAt(n, 1) /\ a[4] = ByteAt(n, 0)
    BY SMT, <1>8, <1>10
  <2>2. 256 * ByteAt(n, 1) + ByteAt(n, 0) = n
    BY SMT, <1>1, <1>4, <1>10, NumberOf
  <2> QED BY SMT, <1>7, <1>10, <2>1, <2>2, Weights DEF unpack_paylen, n
<1>11. CASE w = 8
  <2>1. /\ a[3] = ByteAt(n, 7) /\ a[4] = ByteAt(n, 6) /\ a[5] = ByteAt(n, 5) /\ a[6] = ByteAt(n, 4)
        /\ a[7] = ByteAt(n, 3) /\ a[8] = ByteAt(n, 2) /\ a[9] = ByteAt(n, 1) /\ a[10] = ByteAt(n, 0)
    BY SMT, <1>8, <1>11
  <2>2. a[3] = 0 /\ a[4] = 0 /\ a[5] = 0 /\ a[6] = 0
    BY SMT, <1>1, <2>1, BytesOf
  <2>3. Word(a, 3) = 0
    BY SMT, <2>2, Weights DEF Word
  <2>4. Word(a, 7) = n
    BY SMT, <1>1, <2>1, NumberOf, Weights DEF Word
  <2>5. n \in Nat
    BY SMT, <1>1, LengthIs
  <2> QED BY SMT, <1>7, <1>11, <2>3, <2>4, <2>5 DEF unpack_paylen, n
<1> QED BY SMT, <1>4, <1>9, <1>10, <1>11

LEMMA MaskRead ==
  ASSUME NEW frame \in FrameType, NEW a, Begins(a, frame), Len(a) = Len(Sent(frame))
  PROVE  SubSeq(a, 3 + WidthOf(frame.size), Len(a)) = frame.mask
<1> DEFINE w == WidthOf(frame.size)
           k == frame.mask
<1>1. /\ Len(a) = 2 + w + Len(k)
      /\ \A i \in 1 .. Len(k) : Sent(frame)[2 + w + i] = k[i]
  BY Zenon, HeaderLaid DEF Laid
<1>2. a \in Seq(Nat) /\ \A i \in 1 .. Len(a) : a[i] = Sent(frame)[i]
  BY Zenon DEF Begins
<1>3. k \in Seq(Nat)
  <2>1. k \in {<<>>, Mask}
    BY Zenon DEF FrameType
  <2>2. <<>> \in Seq(Nat) /\ Mask \in Seq(Nat)
    BY SMT DEF Mask
  <2> QED BY Zenon, <2>1, <2>2
<1>4. w \in Nat
  <2>1. frame.size \in Lengths
    BY Zenon DEF FrameType
  <2>2. \A n \in Lengths : WidthOf(n) \in Nat
    BY SMT, Widths
  <2> QED BY Zenon, <2>1, <2>2
<1> HIDE DEF w, k
<1>5. Len(k) \in Nat /\ \A i \in 1 .. Len(k) : a[2 + w + i] = k[i]
  <2>1. Len(k) \in Nat
    BY SMT, <1>3
  <2>2. ASSUME NEW i \in 1 .. Len(k) PROVE a[2 + w + i] = k[i]
    <3>1. 2 + w + i \in 1 .. Len(a)
      BY SMT, <1>1, <1>4, <2>1
    <3> QED BY Zenon, <1>1, <1>2, <3>1
  <2> QED BY Zenon, <2>1, <2>2
<1> DEFINE r == SubSeq(a, 3 + w, Len(a))
<1>6. r \in Seq(Nat) /\ Len(r) = Len(k) /\ \A i \in 1 .. Len(r) : r[i] = a[2 + w + i]
  BY SMT, <1>1, <1>2, <1>4, <1>5
<1> HIDE DEF r
<1>7. r = k
  <2>1. \A i \in 1 .. Len(r) : r[i] = k[i]
    BY Zenon, <1>5, <1>6
  <2> QED BY SMT, <1>3, <1>6, <2>1, SeqEqual
<1> QED BY Zenon, <1>7 DEF r, w, k

Expected(a, frame) ==
  IF Len(a) < 2 THEN Incomplete
  ELSE IF ~ValidFirst(frame.first) THEN Rejected
  ELSE IF Len(a) < Len(Sent(frame)) THEN Incomplete
  ELSE [how |-> "frame", first |-> frame.first, size |-> frame.size,
        next_seek |-> Len(Sent(frame)), mask |-> frame.mask]

LEMMA ParsedWhenWhole ==
  ASSUME NEW frame \in FrameType, NEW a, Begins(a, frame)
  PROVE  parse_frame(a) = Expected(a, frame)
<1>1. CASE Len(a) < 2
  BY Zenon, <1>1 DEF parse_frame, Expected
<1>2. CASE ~(Len(a) < 2)
  <2>1. Len(a) \in Nat /\ Len(a) >= 2 /\ Len(Sent(frame)) \in Nat
    <3>1. Sent(frame) \in Seq(Nat) /\ a \in Seq(Nat)
      BY Zenon, HeaderLaid DEF Laid, Begins
    <3> QED BY SMT, <1>2, <3>1
  <2>2. /\ a[1] = frame.first /\ LengthBytes(a) = WidthOf(frame.size)
        /\ HeaderSize(a) = Len(Sent(frame))
    BY Zenon, <2>1, HeaderKnown
  <2>3. CASE Len(a) < Len(Sent(frame))
    BY Zenon, <1>2, <2>2, <2>3 DEF parse_frame, Expected
  <2>4. CASE ~(Len(a) < Len(Sent(frame)))
    <3>1. Len(a) = Len(Sent(frame))
      BY SMT, <2>1, <2>4 DEF Begins
    <3>2. unpack_paylen(a) = frame.size
          /\ SubSeq(a, 3 + LengthBytes(a), HeaderSize(a)) = frame.mask
      BY Zenon, <2>2, <3>1, LengthRead, MaskRead
    <3> QED BY Zenon, <1>2, <2>2, <2>4, <3>2 DEF parse_frame, Expected
  <2> QED BY Zenon, <2>3, <2>4
<1> QED BY Zenon, <1>1, <1>2

(* Reachable: a header was begun, and what arrived begins it. *)
FrameInv ==
  \/ sending = NoFrame /\ arrived = <<>>
  \/ sending \in FrameType /\ Begins(arrived, sending)

LEMMA FrameInvSays == FrameInv => HeaderWhenWhole
<1>1. CASE sending = NoFrame /\ arrived = <<>>
  <2>1. Len(arrived) < 2
    BY SMT, <1>1
  <2> QED BY Zenon, <2>1 DEF HeaderWhenWhole, parse_frame
<1>2. CASE sending \in FrameType /\ Begins(arrived, sending)
  BY Zenon, <1>2, ParsedWhenWhole DEF HeaderWhenWhole, Expected
<1> QED BY Zenon, <1>1, <1>2 DEF FrameInv

LEMMA FrameStep == FrameInv /\ [FrameNext]_<<sending, arrived>> => FrameInv'
<1> SUFFICES ASSUME FrameInv, [FrameNext]_<<sending, arrived>> PROVE FrameInv'
  BY Zenon
<1>1. CASE Send
  <2>1. PICK first \in FirstBytes, size \in PayloadSizes, mask \in {<<>>, Mask} :
          sending' = [first |-> first, size |-> size, mask |-> mask]
    BY Zenon, <1>1 DEF Send
  <2>2. first \in 0 .. 255 /\ size \in Lengths
    BY Zenon, WsFrameAssumption DEF Lengths
  <2>3. sending' \in FrameType
    BY Zenon, <2>1, <2>2 DEF FrameType
  <2>4. arrived' = <<>>
    <3>1. NoFrame \notin FrameType
      <4>1. \A b \in 0 .. 255 : b # 256
        BY SMT
      <4> QED BY Zenon, <4>1 DEF NoFrame, FrameType
    <3> QED BY Zenon, <1>1, <3>1 DEF Send, FrameInv
  <2>5. Sent(sending)' \in Seq(Nat)
    BY Zenon, <2>3, HeaderLaid DEF Laid
  <2>6. Begins(arrived, sending)'
    BY SMT, <2>4, <2>5 DEF Begins
  <2> QED BY Zenon, <2>3, <2>6 DEF FrameInv
<1>2. CASE Arrive
  <2>1. sending \in FrameType /\ Begins(arrived, sending) /\ sending' = sending
    BY Zenon, <1>2 DEF Arrive, FrameInv
  <2> DEFINE h == Sent(sending)
  <2>2. h \in Seq(Nat)
    BY Zenon, <2>1, HeaderLaid DEF Laid
  <2>3. Len(arrived) < Len(h) /\ arrived' = Append(arrived, h[Len(arrived) + 1])
    BY Zenon, <1>2 DEF Arrive
  <2>4. arrived \in Seq(Nat) /\ \A i \in 1 .. Len(arrived) : arrived[i] = h[i]
    BY Zenon, <2>1 DEF Begins
  <2>5. Sent(sending)' = h
    BY Zenon, <2>1
  <2> HIDE DEF h
  <2>6. h[Len(arrived) + 1] \in Nat
    BY SMT, <2>2, <2>3, <2>4
  <2>7. arrived' \in Seq(Nat) /\ Len(arrived') = Len(arrived) + 1
        /\ \A i \in 1 .. Len(arrived') : arrived'[i] = h[i]
    BY SMT, <2>3, <2>4, <2>6
  <2>8. Len(arrived') <= Len(h)
    BY SMT, <2>2, <2>3, <2>4, <2>7
  <2> QED BY Zenon, <2>1, <2>5, <2>7, <2>8 DEF FrameInv, Begins
<1>3. CASE UNCHANGED <<sending, arrived>>
  BY Zenon, <1>3 DEF FrameInv, Begins
<1> QED BY Zenon, <1>1, <1>2, <1>3 DEF FrameNext

(* However a header is cut, parse_frame waits for all of it and finds what  *)
(* was sent, for every first byte, every payload below 2^31 bytes, with and *)
(* without a mask.                                                          *)
THEOREM HeadersReadBack == FrameSpec => []HeaderWhenWhole
<1>1. FrameInit => FrameInv
  BY Zenon DEF FrameInit, FrameInv
<1> QED BY <1>1, FrameStep, FrameInvSays, PTL DEF FrameSpec

------------------------------------------------------------------------------
(* The blocks of a message *)

LEMMA Lengths64 == BlockLength = 64 /\ LengthField = 56
BY SMT DEF BlockLength, LengthField

LEMMA ZerosIs ==
  ASSUME NEW n \in Nat
  PROVE  Zeros(n) \in Seq(Nat) /\ Len(Zeros(n)) = n /\ \A i \in 1 .. n : Zeros(n)[i] = 0
BY SMT DEF Zeros

LEMMA LengthFieldIs ==
  ASSUME NEW n \in Nat
  PROVE  BigEndian(n, 8) \in Seq(Nat) /\ Len(BigEndian(n, 8)) = 8
<1>1. \A i \in Nat : ByteAt(n, i) \in Nat
  <2> SUFFICES ASSUME NEW i \in Nat PROVE ByteAt(n, i) \in Nat
    OBVIOUS
  <2>1. (i % 4) + 1 \in {1, 2, 3, 4}
    BY SMT
  <2>2. PICK w \in Nat : w > 0 /\ w = Weight[(i % 4) + 1]
    BY SMT, <2>1, Weights
  <2>3. \A k \in Nat : (k \div w) % 256 \in Nat
    BY SMT, <2>2
  <2>4. n \in Nat /\ (n \div 65536) \div 65536 \in Nat
    BY SMT
  <2> QED BY SMT, <2>2, <2>3, <2>4 DEF ByteAt
<1>2. \A i \in 1 .. 8 : 8 - i \in Nat
  BY SMT
<1>3. \A i \in 1 .. 8 : ByteAt(n, 8 - i) \in Nat
  BY Zenon, <1>1, <1>2
<1> QED BY SMT, <1>3 DEF BigEndian

(* Bytes, the mark of their end, and two more pieces *)
MarkedAs(c, s, z, l) ==
  /\ c \in Seq(Nat) /\ Len(c) = Len(s) + 1 + Len(z) + Len(l)
  /\ \A i \in 1 .. Len(s) : c[i] = s[i]
  /\ c[Len(s) + 1] = 128
  /\ \A i \in 1 .. Len(z) : c[Len(s) + 1 + i] = z[i]
  /\ \A i \in 1 .. Len(l) : c[Len(s) + 1 + Len(z) + i] = l[i]

LEMMA Marked ==
  ASSUME NEW s \in Seq(Nat), NEW z \in Seq(Nat), NEW l \in Seq(Nat)
  PROVE  MarkedAs(((s \o <<128>>) \o z) \o l, s, z, l)
<1> DEFINE one == <<128>>
           a == s \o one
           b == a \o z
           c == b \o l
<1>1. one \in Seq(Nat) /\ Len(one) = 1 /\ one[1] = 128
  BY SMT
<1>2. Len(s) \in Nat /\ Len(z) \in Nat /\ Len(l) \in Nat
  BY SMT
<1> HIDE DEF one
<1>3. /\ a \in Seq(Nat) /\ Len(a) = Len(s) + Len(one)
      /\ \A i \in 1 .. Len(s) : a[i] = s[i]
      /\ \A i \in 1 .. Len(one) : a[Len(s) + i] = one[i]
  <2>1. s \in Seq(Nat) /\ one \in Seq(Nat)
    BY Zenon, <1>1
  <2> QED BY ONLY <2>1, Appended
<1> HIDE DEF a
<1>4. /\ b \in Seq(Nat) /\ Len(b) = Len(a) + Len(z)
      /\ \A i \in 1 .. Len(a) : b[i] = a[i]
      /\ \A i \in 1 .. Len(z) : b[Len(a) + i] = z[i]
  BY Zenon, <1>3, Appended
<1> HIDE DEF b
<1>5. /\ c \in Seq(Nat) /\ Len(c) = Len(b) + Len(l)
      /\ \A i \in 1 .. Len(b) : c[i] = b[i]
      /\ \A i \in 1 .. Len(l) : c[Len(b) + i] = l[i]
  BY Zenon, <1>4, Appended
<1> HIDE DEF c
<1>6. Len(a) = Len(s) + 1 /\ a[Len(s) + 1] = 128
  BY SMT, <1>1, <1>2, <1>3
<1>7. Len(b) = Len(s) + 1 + Len(z)
  BY SMT, <1>2, <1>4, <1>6
<1>8. \A i \in 1 .. Len(s) : c[i] = s[i]
  BY SMT, <1>2, <1>3, <1>4, <1>5, <1>6, <1>7
<1>9. c[Len(s) + 1] = 128
  <2>1. Len(s) + 1 \in 1 .. Len(a) /\ Len(s) + 1 \in 1 .. Len(b)
    BY SMT, <1>2, <1>6, <1>7
  <2> QED BY ZenonT(60), <1>4, <1>5, <1>6, <2>1
<1>10. ASSUME NEW i \in 1 .. Len(z) PROVE c[Len(s) + 1 + i] = z[i]
  <2>1. Len(s) + 1 + i \in 1 .. Len(b)
    BY SMT, <1>2, <1>7
  <2>2. b[Len(s) + 1 + i] = z[i]
    BY ZenonT(60), <1>4, <1>6
  <2> QED BY Zenon, <1>5, <2>1, <2>2
<1>11. \A i \in 1 .. Len(l) : c[Len(s) + 1 + Len(z) + i] = l[i]
  BY SMT, <1>2, <1>5, <1>7
<1>12. Len(c) = Len(s) + 1 + Len(z) + Len(l)
  BY SMT, <1>2, <1>5, <1>7
<1>13. MarkedAs(c, s, z, l)
  BY Zenon, <1>5, <1>8, <1>9, <1>10, <1>11, <1>12 DEF MarkedAs
<1> QED BY Zenon, <1>13 DEF c, b, a, one

LEMMA MarkedOnly ==
  ASSUME NEW s \in Seq(Nat), NEW z \in Seq(Nat)
  PROVE  MarkedAs((s \o <<128>>) \o z, s, z, <<>>)
<1> DEFINE b == (s \o <<128>>) \o z
<1>1. <<>> \in Seq(Nat)
  BY SMT
<1>2. MarkedAs(b \o <<>>, s, z, <<>>)
  BY Zenon, <1>1, Marked
<1>3. b \in Seq(Nat)
  BY SMT
<1> HIDE DEF b
<1>4. b \o <<>> = b
  BY SMT, <1>3
<1>5. MarkedAs(b, s, z, <<>>)
  BY Zenon, <1>2, <1>4
<1> QED BY Zenon, <1>5 DEF b

(* The padded message, with `gap` zeros *)
PaddedWith(m, n, gap) ==
  /\ m \in Seq(Nat) /\ Len(m) = n + 9 + gap
  /\ \A i \in 1 .. n : m[i] = MessageByte(i)
  /\ m[n + 1] = 128
  /\ \A i \in 1 .. gap : m[n + 1 + i] = 0
  /\ \A i \in 1 .. 8 : m[n + 1 + gap + i] = BigEndian(8 * n, 8)[i]

LEMMA GapIs ==
  ASSUME NEW n \in Nat, NEW gap \in Nat, gap < 64, (n + 9 + gap) % 64 = 0
  PROVE  gap = CHOOSE k \in 0 .. BlockLength - 1 : (n + 1 + k + 8) % BlockLength = 0
<1>1. gap \in 0 .. BlockLength - 1 /\ (n + 1 + gap + 8) % BlockLength = 0
  <2>1. n + 1 + gap + 8 = n + 9 + gap
    BY SMT
  <2> QED BY SMT, <2>1, Lengths64
<1>2. \A k \in 0 .. BlockLength - 1 : (n + 1 + k + 8) % BlockLength = 0 => k = gap
  <2> SUFFICES ASSUME NEW k \in 0 .. BlockLength - 1, (n + 1 + k + 8) % BlockLength = 0
               PROVE  k = gap
    BY Zenon
  <2>1. k \in Nat /\ k < 64 /\ (n + 9 + k) % 64 = 0
    <3>1. k \in Nat /\ k < 64 /\ n + 1 + k + 8 = n + 9 + k
      BY SMT, Lengths64
    <3> QED BY SMT, <3>1, Lengths64
  <2> QED BY SMT, <2>1
<1> QED BY Zenon, <1>1, <1>2

LEMMA PaddedIs ==
  ASSUME NEW n \in Nat, NEW gap \in Nat, gap < 64, (n + 9 + gap) % 64 = 0
  PROVE  PaddedWith(PaddedMessage(n), n, gap)
<1> DEFINE msg == [i \in 1 .. n |-> MessageByte(i)]
           l == BigEndian(8 * n, 8)
           z == Zeros(gap)
<1>1. PaddedMessage(n) = ((msg \o <<128>>) \o z) \o l
  BY Zenon, GapIs DEF PaddedMessage
<1>2. msg \in Seq(Nat) /\ Len(msg) = n /\ \A i \in 1 .. n : msg[i] = MessageByte(i)
  BY SMT DEF MessageByte
<1>3. l \in Seq(Nat) /\ Len(l) = 8
  <2>1. 8 * n \in Nat
    BY SMT
  <2> QED BY Zenon, <2>1, LengthFieldIs
<1>4. z \in Seq(Nat) /\ Len(z) = gap /\ \A i \in 1 .. gap : z[i] = 0
  BY Zenon, ZerosIs
<1> DEFINE m == PaddedMessage(n)
<1> HIDE DEF msg, z, l
<1>5. MarkedAs(m, msg, z, l)
  BY ZenonT(60), <1>1, <1>2, <1>3, <1>4, Marked
<1> HIDE DEF m
<1>6. /\ m \in Seq(Nat) /\ Len(m) = n + 1 + gap + 8
      /\ \A i \in 1 .. n : m[i] = msg[i]
      /\ m[n + 1] = 128
      /\ \A i \in 1 .. gap : m[n + 1 + i] = z[i]
      /\ \A i \in 1 .. 8 : m[n + 1 + gap + i] = l[i]
  BY Zenon, <1>2, <1>3, <1>4, <1>5 DEF MarkedAs
<1>7. n + 1 + gap + 8 = n + 9 + gap
  BY SMT
<1>8. Len(m) = n + 9 + gap /\ \A i \in 1 .. n : m[i] = MessageByte(i)
  BY ZenonT(60), <1>2, <1>6, <1>7
<1>9. ASSUME NEW i \in 1 .. gap PROVE m[n + 1 + i] = 0
  <2>1. z[i] = 0 /\ m[n + 1 + i] = z[i]
    BY Zenon, <1>4, <1>6
  <2> QED BY Zenon, <2>1
<1> QED BY Zenon, <1>6, <1>8, <1>9 DEF PaddedWith, l, m

(* s is the piece of m behind its first p elements, n long. *)
PieceOf(s, m, p, n) ==
  s \in Seq(Nat) /\ Len(s) = n /\ \A i \in 1 .. n : s[i] = m[p + i]

LEMMA PieceIs ==
  ASSUME NEW m \in Seq(Nat), NEW p \in Nat, NEW q \in Nat, p <= q, q <= Len(m)
  PROVE  PieceOf(SubSeq(m, p + 1, q), m, p, q - p)
<1>1. SubSeq(m, p + 1, q) \in Seq(Nat)
  BY SMT
<1>2. Len(SubSeq(m, p + 1, q)) = q - p
  BY SMT
<1>3. ASSUME NEW i \in 1 .. (q - p) PROVE SubSeq(m, p + 1, q)[i] = m[p + i]
  BY SMT
<1> QED BY Zenon, <1>1, <1>2, <1>3 DEF PieceOf

(* b is the block of m behind its first j ones. *)
BlockOf(b, m, j) ==
  b \in Seq(Nat) /\ Len(b) = 64 /\ \A i \in 1 .. Len(b) : b[i] = m[64 * j + i]

LEMMA BlockCut ==
  ASSUME NEW m \in Seq(Nat), NEW j \in Nat, 64 * (j + 1) <= Len(m), NEW b, BlockOf(b, m, j)
  PROVE  b = SubSeq(m, 64 * j + 1, 64 * (j + 1))
<1> DEFINE r == SubSeq(m, 64 * j + 1, 64 * (j + 1))
<1>1. /\ r \in Seq(Nat) /\ Len(r) = 64 /\ \A i \in 1 .. Len(r) : r[i] = m[64 * j + i]
  <2> DEFINE p == 64 * j
             q == 64 * (j + 1)
  <2> HIDE DEF BlockOf
  <2>1. p \in Nat /\ q \in Nat /\ p <= q /\ q - p = 64 /\ q <= Len(m)
    BY SMT
  <2>2. r = SubSeq(m, p + 1, q)
    BY Zenon
  <2> HIDE DEF p, q, r
  <2>3. PieceOf(SubSeq(m, p + 1, q), m, p, q - p)
    BY Zenon, <2>1, PieceIs
  <2>4. r \in Seq(Nat) /\ Len(r) = 64 /\ \A i \in 1 .. Len(r) : r[i] = m[p + i]
    BY Zenon, <2>1, <2>2, <2>3 DEF PieceOf
  <2> QED BY Zenon, <2>4 DEF p
<1> HIDE DEF r
<1>2. b = r
  <2>1. b \in Seq(Nat) /\ Len(b) = 64 /\ \A i \in 1 .. Len(b) : b[i] = m[64 * j + i]
    BY Zenon DEF BlockOf
  <2>2. Len(b) = Len(r)
    BY Zenon, <1>1, <2>1
  <2>3. ASSUME NEW i \in 1 .. Len(b) PROVE b[i] = r[i]
    BY Zenon, <1>1, <2>1, <2>2
  <2>4. r \in Seq(Nat)
    BY Zenon, <1>1
  <2> QED BY Zenon, <2>1, <2>2, <2>3, <2>4, SeqEqual
<1> QED BY Zenon, <1>2 DEF r

LEMMA BlocksAre ==
  ASSUME NEW m \in Seq(Nat), NEW n \in Nat, Len(m) = 64 * n,
         NEW st \in Seq(Seq(Nat)), Len(st) = n, \A k \in 1 .. n : BlockOf(st[k], m, k - 1)
  PROVE  st = Blocks(m)
<1>1. Len(m) \div BlockLength = n
  BY SMT, Lengths64
<1>2. Blocks(m) = [k \in 1 .. n |-> SubSeq(m, 64 * (k - 1) + 1, 64 * k)]
  BY Zenon, <1>1, Lengths64 DEF Blocks
<1>3. ASSUME NEW k \in 1 .. n PROVE st[k] = SubSeq(m, 64 * (k - 1) + 1, 64 * k)
  <2>1. k - 1 \in Nat /\ (k - 1) + 1 = k /\ 64 * k <= Len(m)
    BY SMT
  <2>2. BlockOf(st[k], m, k - 1)
    BY Zenon
  <2>3. st[k] = SubSeq(m, 64 * (k - 1) + 1, 64 * ((k - 1) + 1))
    <3> HIDE DEF BlockOf
    <3>1. 64 * ((k - 1) + 1) <= Len(m)
      BY SMT, <2>1
    <3> QED BY Zenon, <2>1, <2>2, <3>1, BlockCut
  <2> QED BY Zenon, <2>1, <2>3
<1>4. st = [k \in 1 .. n |-> st[k]]
  BY SMT
<1> QED BY ZenonT(60), <1>2, <1>3, <1>4

(* While the object is fed: what its members have to do with the message *)
Filling ==
  /\ datalen \in Nat /\ datalen < 64
  /\ block \in Seq(Nat) /\ Len(block) = 64
  /\ state \in Seq(Seq(Nat))
  /\ fed = 64 * Len(state) + datalen /\ bitlen = 512 * Len(state)
  /\ \A i \in 1 .. datalen : block[i] = MessageByte(64 * Len(state) + i)
  /\ \A k \in 1 .. Len(state) :
       /\ state[k] \in Seq(Nat) /\ Len(state[k]) = 64
       /\ \A i \in 1 .. Len(state[k]) : state[k][i] = MessageByte(64 * (k - 1) + i)

Sha1Inv ==
  /\ fed \in Nat /\ digested \in BOOLEAN
  /\ IF digested THEN state = Blocks(PaddedMessage(fed)) ELSE Filling

(* Full blocks are blocks of the padded message. *)
LEMMA FullBlocks ==
  ASSUME Filling, NEW m, NEW gap \in Nat, PaddedWith(m, fed, gap), NEW k \in 1 .. Len(state)
  PROVE  BlockOf(state[k], m, k - 1)
<1>1. /\ state[k] \in Seq(Nat) /\ Len(state[k]) = 64
      /\ \A i \in 1 .. Len(state[k]) : state[k][i] = MessageByte(64 * (k - 1) + i)
  BY Zenon DEF Filling
<1>2. \A i \in 1 .. fed : m[i] = MessageByte(i)
  BY Zenon DEF PaddedWith
<1>3. ASSUME NEW i \in 1 .. Len(state[k]) PROVE state[k][i] = m[64 * (k - 1) + i]
  <2>1. Len(state) \in Nat /\ datalen \in Nat /\ fed = 64 * Len(state) + datalen
    BY SMT DEF Filling
  <2>2. i \in 1 .. 64
    BY Zenon, <1>1
  <2>3. 64 * (k - 1) + i \in 1 .. fed
    BY SMT, <2>1, <2>2
  <2> QED BY Zenon, <1>1, <1>2, <2>3
<1> QED BY Zenon, <1>1, <1>3 DEF BlockOf

LEMMA Sha1InitInv == Sha1Init => Sha1Inv
<1> SUFFICES ASSUME Sha1Init PROVE Sha1Inv
  OBVIOUS
<1>1. block \in Seq(Nat) /\ Len(block) = 64
  <2>1. 64 \in Nat
    BY SMT
  <2> QED BY Zenon, <2>1, ZerosIs, Lengths64 DEF Sha1Init
<1>2. datalen = 0 /\ bitlen = 0 /\ state = <<>> /\ fed = 0 /\ digested = FALSE
  BY Zenon DEF Sha1Init
<1>3. state \in Seq(Seq(Nat)) /\ Len(state) = 0 /\ 1 .. 0 = {}
  BY SMT, <1>2
<1>4. Filling
  BY SMT, <1>1, <1>2, <1>3 DEF Filling
<1>5. fed \in Nat
  BY SMT, <1>2
<1> QED BY Zenon, <1>2, <1>4, <1>5 DEF Sha1Inv

(* A byte put into the buffer *)
LEMMA BytePut ==
  ASSUME NEW s \in Seq(Nat), NEW p \in 1 .. Len(s), NEW e \in Nat
  PROVE  /\ [s EXCEPT ![p] = e] \in Seq(Nat) /\ Len([s EXCEPT ![p] = e]) = Len(s)
         /\ [s EXCEPT ![p] = e][p] = e
         /\ \A i \in 1 .. Len(s) : i # p => [s EXCEPT ![p] = e][i] = s[i]
BY SMT

LEMMA UpdateInv ==
  ASSUME Sha1Inv, UpdateByte
  PROVE  Sha1Inv'
<1> DEFINE q == Len(state)
           byte == MessageByte(fed + 1)
<1>1. Filling /\ fed \in Nat /\ digested = FALSE /\ digested' = FALSE /\ fed' = fed + 1
  BY Zenon DEF Sha1Inv, UpdateByte
<1>2. /\ q \in Nat /\ datalen \in Nat /\ datalen < 64 /\ fed = 64 * q + datalen
      /\ block \in Seq(Nat) /\ Len(block) = 64
  BY SMT, <1>1 DEF Filling
<1>3. block' = [block EXCEPT ![datalen + 1] = byte] /\ byte \in Nat
  BY SMT, <1>1 DEF UpdateByte, MessageByte
<1>0. fed' \in Nat
  BY SMT, <1>1
<1>4. fed + 1 = 64 * q + (datalen + 1)
  BY SMT, <1>2
<1>5. \A i \in 1 .. datalen : block[i] = MessageByte(64 * q + i)
  BY Zenon, <1>1 DEF Filling
<1> HIDE DEF byte
<1>6. block' \in Seq(Nat) /\ Len(block') = 64 /\ block'[datalen + 1] = byte
      /\ \A i \in 1 .. datalen : block'[i] = block[i]
  <2>1. datalen + 1 \in 1 .. Len(block)
    BY SMT, <1>2
  <2>2. /\ block' \in Seq(Nat) /\ Len(block') = Len(block) /\ block'[datalen + 1] = byte
        /\ \A i \in 1 .. Len(block) : i # datalen + 1 => block'[i] = block[i]
    <3> DEFINE p == datalen + 1
               b == [block EXCEPT ![p] = byte]
    <3>1. block \in Seq(Nat) /\ p \in 1 .. Len(block) /\ byte \in Nat
      BY Zenon, <1>2, <1>3, <2>1
    <3> HIDE DEF p
    <3>2. /\ b \in Seq(Nat) /\ Len(b) = Len(block) /\ b[p] = byte
          /\ \A i \in 1 .. Len(block) : i # p => b[i] = block[i]
      BY ONLY <3>1, BytePut
    <3>3. block' = b
      BY Zenon, <1>3 DEF p
    <3> QED BY Zenon, <3>2, <3>3 DEF p
  <2>3. ASSUME NEW i \in 1 .. datalen PROVE block'[i] = block[i]
    <3>1. i \in 1 .. Len(block) /\ i # datalen + 1
      BY SMT, <1>2
    <3> QED BY Zenon, <2>2, <3>1
  <2> QED BY Zenon, <1>2, <2>2, <2>3
<1>7. \A i \in 1 .. datalen + 1 : block'[i] = MessageByte(64 * q + i)
  <2> SUFFICES ASSUME NEW i \in 1 .. datalen + 1 PROVE block'[i] = MessageByte(64 * q + i)
    OBVIOUS
  <2>1. CASE i = datalen + 1
    BY Zenon, <1>4, <1>6, <2>1 DEF byte
  <2>2. CASE i # datalen + 1
    <3>1. i \in 1 .. datalen
      BY SMT, <1>2, <2>2
    <3> QED BY Zenon, <1>5, <1>6, <3>1
  <2> QED BY Zenon, <2>1, <2>2
<1>8. CASE datalen + 1 = 64
  <2>1. state' = Append(state, block') /\ bitlen' = bitlen + 512 /\ datalen' = 0
    BY Zenon, <1>8, Lengths64 DEF UpdateByte
  <2>2. state \in Seq(Seq(Nat)) /\ bitlen = 512 * q
    BY Zenon, <1>1 DEF Filling
  <2>3. /\ state' \in Seq(Seq(Nat)) /\ Len(state') = q + 1 /\ state'[q + 1] = block'
        /\ \A k \in 1 .. q : state'[k] = state[k]
    BY SMT, <1>6, <2>1, <2>2
  <2>4. fed' = 64 * Len(state') + datalen' /\ bitlen' = 512 * Len(state')
    BY SMT, <1>1, <1>2, <1>8, <2>1, <2>2, <2>3
  <2>5. ASSUME NEW k \in 1 .. Len(state')
        PROVE  /\ state'[k] \in Seq(Nat) /\ Len(state'[k]) = 64
               /\ \A i \in 1 .. Len(state'[k]) : state'[k][i] = MessageByte(64 * (k - 1) + i)
    <3>1. CASE k = q + 1
      <4>1. state'[k] = block' /\ k - 1 = q /\ Len(block') = datalen + 1
        BY SMT, <1>2, <1>6, <1>8, <2>3, <3>1
      <4>2. \A i \in 1 .. Len(block') : block'[i] = MessageByte(64 * (k - 1) + i)
        BY Zenon, <1>7, <4>1
      <4>3. state'[k] \in Seq(Nat) /\ Len(state'[k]) = 64
        BY Zenon, <1>6, <4>1
      <4>4. ASSUME NEW i \in 1 .. Len(state'[k]) PROVE state'[k][i] = MessageByte(64 * (k - 1) + i)
        BY Zenon, <4>1, <4>2
      <4> QED BY Zenon, <4>3, <4>4
    <3>2. CASE k # q + 1
      <4>1. k \in 1 .. q
        BY SMT, <1>2, <2>3, <3>2
      <4>2. state'[k] = state[k]
        BY Zenon, <2>3, <4>1
      <4>3. /\ state[k] \in Seq(Nat) /\ Len(state[k]) = 64
            /\ \A i \in 1 .. Len(state[k]) : state[k][i] = MessageByte(64 * (k - 1) + i)
        BY Zenon, <1>1, <4>1 DEF Filling
      <4> QED BY Zenon, <4>2, <4>3
    <3> QED BY Zenon, <3>1, <3>2
  <2>6. datalen' \in Nat /\ datalen' < 64 /\ 1 .. datalen' = {}
    BY SMT, <2>1
  <2>7. Filling'
    BY Zenon, <1>6, <2>3, <2>4, <2>5, <2>6 DEF Filling
  <2> QED BY Zenon, <1>0, <1>1, <2>7 DEF Sha1Inv
<1>9. CASE datalen + 1 # 64
  <2>1. datalen' = datalen + 1 /\ state' = state /\ bitlen' = bitlen
    BY Zenon, <1>9, Lengths64 DEF UpdateByte
  <2>2. datalen' \in Nat /\ datalen' < 64 /\ fed' = 64 * Len(state') + datalen'
    BY SMT, <1>1, <1>2, <1>4, <1>9, <2>1
  <2>3. Filling'
    BY ZenonT(60), <1>1, <1>6, <1>7, <2>1, <2>2 DEF Filling
  <2> QED BY Zenon, <1>0, <1>1, <2>3 DEF Sha1Inv
<1> QED BY Zenon, <1>8, <1>9

(* The begin of a sequence *)
LEMMA Beginning ==
  ASSUME NEW s \in Seq(Nat), NEW d \in Nat, d <= Len(s)
  PROVE  /\ SubSeq(s, 1, d) \in Seq(Nat) /\ Len(SubSeq(s, 1, d)) = d
         /\ \A i \in 1 .. d : SubSeq(s, 1, d)[i] = s[i]
BY SMT

(* The last block: what is left in the buffer, the mark, zeros, the length *)
LEMMA EndedIs ==
  ASSUME Filling, NEW length \in Nat, datalen < length, length <= 64
  PROVE  /\ SubSeq(block, 1, datalen) \in Seq(Nat) /\ Len(SubSeq(block, 1, datalen)) = datalen
         /\ \A i \in 1 .. datalen :
              SubSeq(block, 1, datalen)[i] = MessageByte(64 * Len(state) + i)
         /\ Zeros(length - datalen - 1) \in Seq(Nat)
         /\ Len(Zeros(length - datalen - 1)) = length - datalen - 1
         /\ \A i \in 1 .. length - datalen - 1 : Zeros(length - datalen - 1)[i] = 0
         /\ Ended(length) = (SubSeq(block, 1, datalen) \o <<128>>) \o Zeros(length - datalen - 1)
<1>1. datalen \in Nat /\ block \in Seq(Nat) /\ Len(block) = 64 /\ datalen < 64
  BY Zenon DEF Filling
<1> DEFINE s == SubSeq(block, 1, datalen)
<1>2. s \in Seq(Nat) /\ Len(s) = datalen /\ \A i \in 1 .. datalen : s[i] = block[i]
  <2>1. block \in Seq(Nat) /\ datalen \in Nat /\ datalen <= Len(block)
    BY SMT, <1>1
  <2> QED BY ONLY <2>1, Beginning
<1>3. \A i \in 1 .. datalen : s[i] = MessageByte(64 * Len(state) + i)
  BY Zenon, <1>2 DEF Filling
<1>4. length - datalen - 1 \in Nat
  BY SMT, <1>1
<1>5. /\ Zeros(length - datalen - 1) \in Seq(Nat)
      /\ Len(Zeros(length - datalen - 1)) = length - datalen - 1
      /\ \A i \in 1 .. length - datalen - 1 : Zeros(length - datalen - 1)[i] = 0
  BY Zenon, <1>4, ZerosIs
<1> QED BY Zenon, <1>2, <1>3, <1>5 DEF Ended

(* A block that begins with the rest of the message is one of the padded    *)
(* message's: its last, with the length at its end, ...                     *)
LEMMA LastBlock ==
  ASSUME NEW q \in Nat, NEW d \in Nat, d < 56, NEW n, n = 64 * q + d, NEW m, NEW b,
         PaddedWith(m, n, 55 - d), NEW s \in Seq(Nat), NEW z \in Seq(Nat),
         Len(s) = d, Len(z) = 55 - d,
         \A i \in 1 .. d : s[i] = MessageByte(64 * q + i),
         \A i \in 1 .. 55 - d : z[i] = 0,
         MarkedAs(b, s, z, BigEndian(8 * n, 8))
  PROVE  BlockOf(b, m, q)
<1> DEFINE l == BigEndian(8 * n, 8)
<1>1. n \in Nat /\ 55 - d \in Nat /\ 8 * n \in Nat
  BY SMT
<1>2. Len(l) = 8
  BY Zenon, <1>1, LengthFieldIs
<1>3. /\ b \in Seq(Nat) /\ Len(b) = d + 1 + (55 - d) + 8
      /\ \A i \in 1 .. d : b[i] = s[i]
      /\ b[d + 1] = 128
      /\ \A i \in 1 .. 55 - d : b[d + 1 + i] = z[i]
      /\ \A i \in 1 .. 8 : b[d + 1 + (55 - d) + i] = l[i]
  <2> DEFINE e == 55 - d
  <2>1. Len(s) = d /\ Len(z) = e
    BY Zenon
  <2> HIDE DEF e, l
  <2>2. /\ b \in Seq(Nat) /\ Len(b) = Len(s) + 1 + Len(z) + Len(l)
        /\ \A i \in 1 .. Len(s) : b[i] = s[i]
        /\ b[Len(s) + 1] = 128
        /\ \A i \in 1 .. Len(z) : b[Len(s) + 1 + i] = z[i]
        /\ \A i \in 1 .. Len(l) : b[Len(s) + 1 + Len(z) + i] = l[i]
    BY Zenon DEF MarkedAs, l
  <2>3. Len(b) = d + 1 + e + 8 /\ b[d + 1] = 128
    BY Zenon, <1>2, <2>1, <2>2
  <2>4. ASSUME NEW i \in 1 .. d PROVE b[i] = s[i]
    BY Zenon, <2>1, <2>2
  <2>5. ASSUME NEW i \in 1 .. e PROVE b[d + 1 + i] = z[i]
    <3>1. i \in 1 .. Len(z)
      BY Zenon, <2>1
    <3>2. b[Len(s) + 1 + i] = z[i]
      BY Zenon, <2>2, <3>1
    <3> QED BY Zenon, <2>1, <3>2
  <2>6. ASSUME NEW i \in 1 .. 8 PROVE b[d + 1 + e + i] = l[i]
    BY ZenonT(60), <1>2, <2>1, <2>2
  <2> QED BY Zenon, <2>2, <2>3, <2>4, <2>5, <2>6 DEF e
<1>4. /\ \A i \in 1 .. n : m[i] = MessageByte(i)
      /\ m[n + 1] = 128
      /\ \A i \in 1 .. 55 - d : m[n + 1 + i] = 0
      /\ \A i \in 1 .. 8 : m[n + 1 + (55 - d) + i] = l[i]
  BY Zenon DEF PaddedWith
<1> HIDE DEF l
<1>5. Len(b) = 64
  BY SMT, <1>3
<1>6. ASSUME NEW i \in 1 .. 64 PROVE b[i] = m[64 * q + i]
  <2>1. CASE i <= d
    <3>1. i \in 1 .. d /\ 64 * q + i \in 1 .. n
      BY SMT, <1>1, <2>1
    <3> QED BY ZenonT(60), <1>3, <1>4, <3>1
  <2>2. CASE i = d + 1
    <3>1. 64 * q + i = n + 1
      BY SMT, <2>2
    <3> QED BY Zenon, <1>3, <1>4, <2>2, <3>1
  <2>3. CASE i > d + 1 /\ i <= 56
    <3> DEFINE j == i - d - 1
    <3>1. j \in 1 .. 55 - d /\ d + 1 + j = i /\ n + 1 + j = 64 * q + i
      BY SMT, <2>3
    <3> HIDE DEF j
    <3>2. b[d + 1 + j] = z[j] /\ z[j] = 0 /\ m[n + 1 + j] = 0
      BY ZenonT(60), <1>3, <1>4, <3>1
    <3> QED BY Zenon, <3>1, <3>2
  <2>4. CASE i > 56
    <3> DEFINE j == i - 56
    <3>1. j \in 1 .. 8 /\ d + 1 + (55 - d) + j = i /\ n + 1 + (55 - d) + j = 64 * q + i
      BY SMTT(30), <2>4
    <3> HIDE DEF j
    <3>2. b[d + 1 + (55 - d) + j] = l[j] /\ m[n + 1 + (55 - d) + j] = l[j]
      BY ZenonT(60), <1>3, <1>4, <3>1
    <3> QED BY Zenon, <3>1, <3>2
  <2>5. i <= d \/ i = d + 1 \/ (i > d + 1 /\ i <= 56) \/ i > 56
    BY SMT
  <2> QED BY Zenon, <2>1, <2>2, <2>3, <2>4, <2>5
<1> QED BY Zenon, <1>3, <1>5, <1>6 DEF BlockOf

(* ... or, where the mark leaves no room for the length, the one with the   *)
(* mark and the one with the length.                                        *)
LEMMA MarkBlock ==
  ASSUME NEW q \in Nat, NEW d \in Nat, d >= 56, d < 64, NEW n, n = 64 * q + d, NEW m, NEW b,
         PaddedWith(m, n, 119 - d), NEW s \in Seq(Nat), NEW z \in Seq(Nat),
         Len(s) = d, Len(z) = 63 - d,
         \A i \in 1 .. d : s[i] = MessageByte(64 * q + i),
         \A i \in 1 .. 63 - d : z[i] = 0,
         MarkedAs(b, s, z, <<>>)
  PROVE  BlockOf(b, m, q)
<1> DEFINE e == 63 - d
           g == 119 - d
<1>1. n \in Nat /\ e \in Nat /\ g \in Nat
  BY SMT
<1>2. Len(s) = d /\ Len(z) = e /\ Len(<<>>) = 0
  <2>1. Len(<<>>) = 0
    BY SMT
  <2> QED BY Zenon, <2>1
<1> HIDE DEF e, g
<1>3. /\ b \in Seq(Nat) /\ Len(b) = Len(s) + 1 + Len(z) + Len(<<>>)
      /\ \A i \in 1 .. Len(s) : b[i] = s[i]
      /\ b[Len(s) + 1] = 128
      /\ \A i \in 1 .. Len(z) : b[Len(s) + 1 + i] = z[i]
  BY Zenon DEF MarkedAs
<1>4. /\ \A i \in 1 .. n : m[i] = MessageByte(i)
      /\ m[n + 1] = 128
      /\ \A i \in 1 .. g : m[n + 1 + i] = 0
  BY Zenon DEF PaddedWith, g
<1>5. Len(b) = 64
  <2>1. Len(b) = d + 1 + e + 0
    BY Zenon, <1>2, <1>3
  <2> QED BY SMT, <2>1 DEF e
<1>6. ASSUME NEW i \in 1 .. 64 PROVE b[i] = m[64 * q + i]
  <2>1. CASE i <= d
    <3>1. i \in 1 .. d /\ 64 * q + i \in 1 .. n
      BY SMT, <1>1, <2>1
    <3>2. b[i] = s[i] /\ s[i] = MessageByte(64 * q + i)
      BY Zenon, <1>2, <1>3, <3>1
    <3> QED BY Zenon, <1>4, <3>1, <3>2
  <2>2. CASE i = d + 1
    <3>1. 64 * q + i = n + 1
      BY SMT, <2>2
    <3> QED BY ZenonT(60), <1>2, <1>3, <1>4, <2>2, <3>1
  <2>3. CASE i > d + 1
    <3> DEFINE j == i - d - 1
    <3>1. j \in 1 .. e /\ j \in 1 .. g /\ d + 1 + j = i /\ n + 1 + j = 64 * q + i
      BY SMT, <2>3 DEF e, g
    <3> HIDE DEF j
    <3>2. j \in 1 .. Len(z)
      BY Zenon, <1>2, <3>1
    <3>3. b[Len(s) + 1 + j] = z[j]
      BY Zenon, <1>3, <3>2
    <3>4. b[i] = z[j]
      BY Zenon, <1>2, <3>1, <3>3
    <3>5. z[j] = 0
      BY Zenon, <3>1 DEF e
    <3>6. m[n + 1 + j] = 0
      BY Zenon, <1>4, <3>1
    <3> QED BY Zenon, <3>1, <3>4, <3>5, <3>6
  <2>4. i <= d \/ i = d + 1 \/ i > d + 1
    BY SMT
  <2> QED BY Zenon, <2>1, <2>2, <2>3, <2>4
<1> QED BY Zenon, <1>3, <1>5, <1>6 DEF BlockOf

LEMMA LengthBlock ==
  ASSUME NEW q \in Nat, NEW d \in Nat, d >= 56, d < 64, NEW n, n = 64 * q + d, NEW m,
         PaddedWith(m, n, 119 - d)
  PROVE  BlockOf(Zeros(56) \o BigEndian(8 * n, 8), m, q + 1)
<1> DEFINE l == BigEndian(8 * n, 8)
           z == Zeros(56)
           b == z \o l
           g == 119 - d
<1>1. n \in Nat /\ 8 * n \in Nat /\ g \in Nat /\ 56 \in Nat
  BY SMT
<1>2. l \in Seq(Nat) /\ Len(l) = 8
  BY Zenon, <1>1, LengthFieldIs
<1>3. z \in Seq(Nat) /\ Len(z) = 56 /\ \A i \in 1 .. 56 : z[i] = 0
  BY Zenon, <1>1, ZerosIs
<1>4. /\ \A i \in 1 .. g : m[n + 1 + i] = 0
      /\ \A i \in 1 .. 8 : m[n + 1 + g + i] = l[i]
  BY Zenon DEF PaddedWith
<1> HIDE DEF l, z, g
<1>5. /\ b \in Seq(Nat) /\ Len(b) = Len(z) + Len(l)
      /\ \A i \in 1 .. Len(z) : b[i] = z[i]
      /\ \A i \in 1 .. Len(l) : b[Len(z) + i] = l[i]
  <2>1. z \in Seq(Nat) /\ l \in Seq(Nat)
    BY Zenon, <1>2, <1>3
  <2> QED BY ONLY <2>1, Appended
<1> HIDE DEF b
<1>6. Len(b) = 64
  <2>1. Len(b) = 56 + 8
    BY Zenon, <1>2, <1>3, <1>5
  <2> QED BY SMT, <2>1
<1>7. ASSUME NEW i \in 1 .. 64 PROVE b[i] = m[64 * (q + 1) + i]
  <2>1. CASE i <= 56
    <3> DEFINE j == 63 - d + i
    <3>1. i \in 1 .. 56 /\ j \in 1 .. g /\ n + 1 + j = 64 * (q + 1) + i
      BY SMT, <2>1 DEF g
    <3> HIDE DEF j
    <3>2. b[i] = z[i] /\ z[i] = 0
      BY Zenon, <1>3, <1>5, <3>1
    <3>3. m[n + 1 + j] = 0
      BY Zenon, <1>4, <3>1
    <3> QED BY Zenon, <3>1, <3>2, <3>3
  <2>2. CASE i > 56
    <3> DEFINE j == i - 56
    <3>1. j \in 1 .. 8 /\ 56 + j = i /\ n + 1 + g + j = 64 * (q + 1) + i
      BY SMT, <2>2 DEF g
    <3> HIDE DEF j
    <3>2. j \in 1 .. Len(l)
      BY Zenon, <1>2, <3>1
    <3>3. b[Len(z) + j] = l[j]
      BY Zenon, <1>5, <3>2
    <3>4. b[i] = l[j]
      BY Zenon, <1>3, <3>1, <3>3
    <3>5. m[n + 1 + g + j] = l[j]
      BY Zenon, <1>4, <3>1
    <3> QED BY Zenon, <3>1, <3>4, <3>5
  <2>3. i <= 56 \/ i > 56
    BY SMT
  <2> QED BY Zenon, <2>1, <2>2, <2>3
<1>8. BlockOf(b, m, q + 1)
  BY Zenon, <1>5, <1>6, <1>7 DEF BlockOf
<1> QED BY Zenon, <1>8 DEF b, l, z

LEMMA DigestInv ==
  ASSUME Sha1Inv, Digest
  PROVE  Sha1Inv'
<1> DEFINE q == Len(state)
           d == datalen
           l == BigEndian(8 * fed, 8)
           m == PaddedMessage(fed)
<1>1. Filling /\ fed \in Nat /\ fed' = fed /\ digested' = TRUE /\ datalen' = datalen
  BY Zenon DEF Sha1Inv, Digest
<1>2. /\ q \in Nat /\ d \in Nat /\ d < 64 /\ fed = 64 * q + d /\ bitlen = 512 * q
      /\ state \in Seq(Seq(Nat))
  BY SMT, <1>1 DEF Filling
<1>3. bitlen' = 8 * fed
  <2>1. bitlen' = bitlen + datalen * 8
    BY Zenon DEF Digest
  <2> QED BY SMT, <1>2, <2>1
<1>4. /\ IF datalen < 56
         THEN block' = Ended(56) \o l /\ state' = Append(state, block')
         ELSE block' = Zeros(56) \o l /\ state' = state \o <<Ended(64), block'>>
  <2>1. 64 - 56 = 8
    BY SMT
  <2> QED BY Zenon, <1>3, <2>1, Lengths64 DEF Digest, MarkFits
<1>5. l \in Seq(Nat)
  <2>1. 8 * fed \in Nat
    BY SMT, <1>1
  <2> QED BY Zenon, <2>1, LengthFieldIs
<1>6. SUFFICES state' = Blocks(m)
  BY Zenon, <1>1 DEF Sha1Inv
<1>7. CASE datalen < 56
  <2>1. 55 - d \in Nat /\ 55 - d < 64 /\ (fed + 9 + (55 - d)) % 64 = 0
        /\ 56 - d - 1 = 55 - d /\ fed + 9 + (55 - d) = 64 * (q + 1) /\ 56 \in Nat /\ 56 <= 64
    BY SMT, <1>2, <1>7
  <2>2. PaddedWith(m, fed, 55 - d)
    BY Zenon, <1>1, <2>1, PaddedIs
  <2> DEFINE s == SubSeq(block, 1, datalen)
             z == Zeros(55 - d)
  <2>3. /\ s \in Seq(Nat) /\ Len(s) = d /\ \A i \in 1 .. d : s[i] = MessageByte(64 * q + i)
        /\ z \in Seq(Nat) /\ Len(z) = 55 - d /\ \A i \in 1 .. 55 - d : z[i] = 0
        /\ Ended(56) = (s \o <<128>>) \o z
    <3>1. /\ s \in Seq(Nat) /\ Len(s) = d /\ \A i \in 1 .. d : s[i] = MessageByte(64 * q + i)
          /\ Zeros(56 - d - 1) \in Seq(Nat) /\ Len(Zeros(56 - d - 1)) = 56 - d - 1
          /\ \A i \in 1 .. 56 - d - 1 : Zeros(56 - d - 1)[i] = 0
          /\ Ended(56) = (s \o <<128>>) \o Zeros(56 - d - 1)
      BY Zenon, <1>1, <1>7, <2>1, EndedIs
    <3> QED BY Zenon, <2>1, <3>1
  <2> HIDE DEF s, z
  <2>4. MarkedAs(block', s, z, l)
    BY ZenonT(60), <1>4, <1>5, <1>7, <2>3, Marked
  <2>5. BlockOf(block', m, q)
    <3> HIDE DEF m
    <3> QED BY Zenon, <1>2, <1>7, <2>2, <2>3, <2>4, LastBlock
  <2>6. /\ state' \in Seq(Seq(Nat)) /\ Len(state') = q + 1 /\ state'[q + 1] = block'
        /\ \A k \in 1 .. q : state'[k] = state[k]
    <3>1. block' \in Seq(Nat) /\ state' = Append(state, block')
      BY Zenon, <1>4, <1>7, <2>5 DEF BlockOf
    <3> QED BY SMT, <1>2, <3>1
  <2>7. ASSUME NEW k \in 1 .. q + 1 PROVE BlockOf(state'[k], m, k - 1)
    <3>1. CASE k = q + 1
      <4>1. k - 1 = q
        BY SMT, <1>2, <3>1
      <4> QED BY Zenon, <2>5, <2>6, <3>1, <4>1
    <3>2. CASE k # q + 1
      <4>1. k \in 1 .. q
        BY SMT, <1>2, <3>2
      <4> QED BY Zenon, <1>1, <2>1, <2>2, <2>6, <4>1, FullBlocks
    <3> QED BY Zenon, <3>1, <3>2
  <2>8. m \in Seq(Nat) /\ Len(m) = 64 * (q + 1) /\ q + 1 \in Nat
    <3>1. q + 1 \in Nat
      BY SMT, <1>2
    <3> QED BY Zenon, <2>1, <2>2, <3>1 DEF PaddedWith
  <2> HIDE DEF m
  <2> QED BY Zenon, <2>6, <2>7, <2>8, BlocksAre
<1>8. CASE ~(datalen < 56)
  <2>1. 119 - d \in Nat /\ 119 - d < 64 /\ (fed + 9 + (119 - d)) % 64 = 0 /\ d >= 56
        /\ 64 - d - 1 = 63 - d /\ fed + 9 + (119 - d) = 64 * (q + 2) /\ 64 \in Nat /\ 64 <= 64
    BY SMT, <1>2, <1>8
  <2>2. PaddedWith(m, fed, 119 - d)
    BY ZenonT(60), <1>1, <2>1, PaddedIs
  <2> DEFINE s == SubSeq(block, 1, datalen)
             z == Zeros(63 - d)
             e == Ended(64)
  <2>3. /\ s \in Seq(Nat) /\ Len(s) = d /\ \A i \in 1 .. d : s[i] = MessageByte(64 * q + i)
        /\ z \in Seq(Nat) /\ Len(z) = 63 - d /\ \A i \in 1 .. 63 - d : z[i] = 0
        /\ e = (s \o <<128>>) \o z
    <3>1. /\ s \in Seq(Nat) /\ Len(s) = d /\ \A i \in 1 .. d : s[i] = MessageByte(64 * q + i)
          /\ Zeros(64 - d - 1) \in Seq(Nat) /\ Len(Zeros(64 - d - 1)) = 64 - d - 1
          /\ \A i \in 1 .. 64 - d - 1 : Zeros(64 - d - 1)[i] = 0
          /\ e = (s \o <<128>>) \o Zeros(64 - d - 1)
      BY ZenonT(60), <1>1, <1>2, <2>1, EndedIs
    <3> QED BY Zenon, <2>1, <3>1
  <2> HIDE DEF s, z, e
  <2>4. MarkedAs(e, s, z, <<>>)
    BY Zenon, <2>3, MarkedOnly
  <2>5. BlockOf(e, m, q)
    <3> HIDE DEF m
    <3> QED BY ZenonT(60), <1>2, <2>1, <2>2, <2>3, <2>4, MarkBlock
  <2>6. BlockOf(block', m, q + 1)
    <3> HIDE DEF m
    <3> QED BY ZenonT(60), <1>2, <1>4, <1>8, <2>1, <2>2, LengthBlock
  <2>7. /\ state' \in Seq(Seq(Nat)) /\ Len(state') = q + 2
        /\ state'[q + 1] = e /\ state'[q + 2] = block'
        /\ \A k \in 1 .. q : state'[k] = state[k]
    <3>1. e \in Seq(Nat) /\ block' \in Seq(Nat) /\ state' = state \o <<e, block'>>
      BY Zenon, <1>4, <1>8, <2>5, <2>6 DEF BlockOf, e
    <3> QED BY SMT, <1>2, <3>1
  <2>8. ASSUME NEW k \in 1 .. q + 2 PROVE BlockOf(state'[k], m, k - 1)
    <3>1. CASE k = q + 1
      <4>1. k - 1 = q
        BY SMT, <1>2, <3>1
      <4> QED BY Zenon, <2>5, <2>7, <3>1, <4>1
    <3>2. CASE k = q + 2
      <4>1. k - 1 = q + 1
        BY SMT, <1>2, <3>2
      <4> QED BY Zenon, <2>6, <2>7, <3>2, <4>1
    <3>3. CASE k # q + 1 /\ k # q + 2
      <4>1. k \in 1 .. q
        BY SMT, <1>2, <3>3
      <4> QED BY Zenon, <1>1, <2>1, <2>2, <2>7, <4>1, FullBlocks
    <3> QED BY Zenon, <3>1, <3>2, <3>3
  <2>9. m \in Seq(Nat) /\ Len(m) = 64 * (q + 2) /\ q + 2 \in Nat
    <3>1. q + 2 \in Nat
      BY SMT, <1>2
    <3> QED BY Zenon, <2>1, <2>2, <3>1 DEF PaddedWith
  <2> HIDE DEF m
  <2> QED BY Zenon, <2>7, <2>8, <2>9, BlocksAre
<1> QED BY Zenon, <1>7, <1>8

(* For a message of every length m_transform gets the blocks of the padded  *)
(* message, each of them once and in order.                                 *)
THEOREM MessagePadded == Sha1Spec => []BlocksPadded
<1>1. Sha1Inv /\ [Sha1Next]_sha1Vars => Sha1Inv'
  <2>1. ASSUME Sha1Inv, UNCHANGED sha1Vars PROVE Sha1Inv'
    <3>1. /\ block' = block /\ datalen' = datalen /\ bitlen' = bitlen
          /\ state' = state /\ fed' = fed /\ digested' = digested
      BY <2>1 DEF sha1Vars
    <3>2. Filling => Filling'
      BY ZenonT(60), <3>1 DEF Filling
    <3> QED BY Zenon, <2>1, <3>1, <3>2 DEF Sha1Inv
  <2> QED BY Zenon, <2>1, UpdateInv, DigestInv DEF Sha1Next
<1>2. Sha1Inv => BlocksPadded
  BY Zenon DEF Sha1Inv, BlocksPadded
<1> QED BY <1>1, <1>2, Sha1InitInv, PTL DEF Sha1Spec

------------------------------------------------------------------------------
(* The lines of a request head.  The chunked scan finds the lines of the     *)
(* byte stream, for every stream, every chunk size and every limit.          *)

(* The invariant the proofs go by.  The search may resume one byte before   *)
(* the line that is looked for; no end of line is found there because that  *)
(* byte is the LF of the line before (AfterLf, in HeadReader).              *)
HeadInv == TypeInv /\ SkippedHasNoBreak /\ AfterLf /\ HeadBounded

(* The first break found in the buffer is the first one of the stream from  *)
(* pos on.                                                                  *)
LEMMA FirstBreakEndsLine ==
  ASSUME HeadInv, NEW e \in Breaks, FirstBreak(e)
  PROVE  e \in Nat /\ e >= pos /\ e + 2 <= got /\ EndsLine(bytes, pos, e)
<1>1. Len(bytes) \in Nat
  BY InputsAssumption DEF HeadInv, TypeInv
<1>2. got \in Nat /\ pos \in Nat /\ chunker_seek \in Int /\ got <= Len(bytes)
  BY <1>1 DEF HeadInv, TypeInv, nullidx
<1>3. SeekBegin \in Int /\ SeekBegin >= pos - 1
  BY <1>2 DEF SeekBegin, HeadInv, SkippedHasNoBreak
<1>4. e \in Int /\ e >= SeekBegin /\ e <= got - 2 /\ BreakAt(bytes, e)
  BY <1>2, <1>3 DEF Breaks
<1>5. \A i \in pos .. SeekBegin - 1 : ~BreakAt(bytes, i)
  BY <1>2 DEF SeekBegin, HeadInv, SkippedHasNoBreak
<1>6. e >= pos
  <2>1. CASE chunker_seek = nullidx
    BY <2>1, <1>2, <1>4 DEF SeekBegin
  <2>2. CASE chunker_seek # nullidx
    <3>1. SeekBegin = chunker_seek /\ chunker_seek >= 0
      BY <2>2, <1>2 DEF SeekBegin, nullidx, HeadInv, TypeInv
    <3>2. SUFFICES ASSUME e = pos - 1 PROVE FALSE
      BY <1>2, <1>3, <1>4
    <3>3. bytes[pos] = "lf"
      BY <3>1, <3>2, <1>2, <1>4 DEF HeadInv, AfterLf
    <3>4. bytes[pos] = "cr"
      BY <3>2, <1>2, <1>4 DEF BreakAt
    <3> QED BY <3>3, <3>4
  <2> QED BY <2>1, <2>2
<1>7. \A i \in pos .. e - 1 : ~BreakAt(bytes, i)
  BY <1>2, <1>3, <1>4, <1>5 DEF FirstBreak, Breaks
<1> QED
  BY <1>1, <1>2, <1>4, <1>6, <1>7 DEF EndsLine

LEMMA HeadInitInv == HeadInit => HeadInv
<1> SUFFICES ASSUME HeadInit PROVE HeadInv
  OBVIOUS
<1>1. Len(bytes) \in Nat
  BY InputsAssumption DEF HeadInit, Init
<1>2. TypeInv
  <2>1. lines \in Seq(Nat \X Nat)
    BY DEF HeadInit, Init
  <2>2. pos \in 0 .. got /\ chunker_seek \in nullidx .. got - 1
    BY <1>1 DEF HeadInit, Init, nullidx
  <2>3. /\ bytes \in Inputs /\ got \in 0 .. Len(bytes) /\ total_read \in Nat
        /\ request_line_parsed \in BOOLEAN /\ open \in BOOLEAN /\ pc = "scan"
    BY DEF HeadInit, Init
  <2> QED BY <2>1, <2>2, <2>3 DEF TypeInv
<1>3. SkippedHasNoBreak /\ AfterLf
  BY DEF HeadInit, Init, SkippedHasNoBreak, AfterLf
<1>4. HeadBounded
  BY SizeAssumption DEF HeadInit, HeadBounded
<1> QED
  BY <1>2, <1>3, <1>4 DEF HeadInv

(* The three ways a line is taken share all that the invariant speaks of.   *)
LEMMA TakeLineHeadInv ==
  ASSUME HeadInv, NEW e \in Breaks, TakeLine(e),
         request_line_parsed' \in BOOLEAN,
         pc' \in {"scan", "failed", "complete"}
  PROVE  HeadInv'
<1>1. e \in Nat /\ e >= pos /\ e + 2 <= got /\ BreakAt(bytes, e)
  BY FirstBreakEndsLine DEF TakeLine, Breaks
<1>2. Len(bytes) \in Nat /\ got \in Nat /\ pos \in Nat
  BY InputsAssumption DEF HeadInv, TypeInv
<1>3. TypeInv'
  <2>1. pos' \in 0 .. got' /\ chunker_seek' \in nullidx .. got' - 1
    BY <1>1, <1>2 DEF TakeLine, nullidx
  <2>2. lines' \in Seq(Nat \X Nat)
    BY <1>1, <1>2 DEF TakeLine, HeadInv, TypeInv
  <2> QED
    BY <2>1, <2>2 DEF TakeLine, HeadInv, TypeInv
<1>4. SkippedHasNoBreak'
  BY DEF TakeLine, SkippedHasNoBreak
<1>5. AfterLf'
  BY <1>1, <1>2 DEF TakeLine, AfterLf, BreakAt
<1>6. HeadBounded'
  BY DEF TakeLine, HeadBounded, HeadInv
<1> QED BY <1>3, <1>4, <1>5, <1>6 DEF HeadInv

LEMMA HeadStep == HeadInv /\ [HeadNext]_vars => HeadInv'
<1> SUFFICES ASSUME HeadInv, [HeadNext]_vars PROVE HeadInv'
  OBVIOUS
<1>a. Len(bytes) \in Nat /\ got \in Nat /\ pos \in Nat /\ pos <= got /\ total_read \in Nat
  BY InputsAssumption DEF HeadInv, TypeInv
<1>1. CASE Abort \/ NoLineClosed \/ NoLineTooBig \/ ReadNothing
  BY <1>1 DEF Abort, NoLineClosed, NoLineTooBig, ReadNothing,
              HeadInv, TypeInv, SkippedHasNoBreak, AfterLf, HeadBounded
<1>2. ASSUME NEW n \in 1 .. ChunkSize, ReadChunk(n) PROVE HeadInv'
  <2>1. n \in Nat /\ n >= 1 /\ n <= ChunkSize
    BY SizeAssumption
  <2>2. TypeInv'
    BY <1>2, <1>a, <2>1 DEF ReadChunk, ResumeAt, nullidx, HeadInv, TypeInv
  <2>3. SkippedHasNoBreak'
    <3> SUFFICES ASSUME chunker_seek' # nullidx
                 PROVE  /\ got - 1 >= pos - 1
                        /\ \A i \in pos .. got - 2 : ~BreakAt(bytes, i)
      BY <1>2, <1>a DEF ReadChunk, ResumeAt, SkippedHasNoBreak
    <3>1. Breaks = {}
      BY <1>2 DEF ReadChunk
    <3>2. chunker_seek \in Int
      BY <1>a DEF HeadInv, TypeInv, nullidx
    <3>3. CASE chunker_seek = nullidx
      BY <3>1, <3>3, <1>a DEF Breaks, SeekBegin
    <3>4. CASE chunker_seek # nullidx
      BY <3>1, <3>2, <3>4, <1>a DEF Breaks, SeekBegin, HeadInv, SkippedHasNoBreak
    <3> QED BY <3>3, <3>4
  <2>4. AfterLf'
    BY <1>2 DEF ReadChunk, HeadInv, AfterLf
  <2>5. HeadBounded'
    BY <1>2, <1>a, <2>1, SizeAssumption DEF ReadChunk, Fits, HeadBounded
  <2> QED BY <2>2, <2>3, <2>4, <2>5 DEF HeadInv
<1>3. ASSUME NEW e \in Breaks, BadRequestLine(e) \/ GoodRequestLine(e) \/ HeaderLine(e)
      PROVE HeadInv'
  <2>1. TakeLine(e)
    BY <1>3 DEF BadRequestLine, GoodRequestLine, HeaderLine
  <2>2. request_line_parsed' \in BOOLEAN /\ pc' \in {"scan", "failed", "complete"}
    BY <1>3, <2>1 DEF BadRequestLine, GoodRequestLine, HeaderLine, TakeLine, HeadInv, TypeInv
  <2> QED BY <2>1, <2>2, TakeLineHeadInv
<1>4. CASE UNCHANGED vars
  BY <1>4 DEF vars, scanVars, HeadInv, TypeInv, SkippedHasNoBreak, AfterLf, HeadBounded
<1> QED
  BY <1>1, <1>2, <1>3, <1>4 DEF HeadNext

(* Every behaviour of the scanner keeps its types, its search invariant and *)
(* the bound on what a peer can make it read.                               *)
THEOREM HeadSafety == HeadSpec => [](TypeInv /\ SkippedHasNoBreak /\ HeadBounded)
<1>1. HeadInv => TypeInv /\ SkippedHasNoBreak /\ HeadBounded
  BY DEF HeadInv
<1> QED
  BY <1>1, HeadInitInv, HeadStep, PTL DEF HeadSpec

(* However the bytes are cut into chunks, the lines handed to the parsers   *)
(* are those of the byte stream: the scanner implements LineSplitter.       *)
THEOREM HeadRefinement == HeadSpec => SplitsLines
<1>1. HeadInit => Init
  BY DEF HeadInit
<1>2. ASSUME HeadInv, [HeadNext]_vars PROVE [NextLine]_<<bytes, pos, lines>>
  <2>1. ASSUME NEW e \in Breaks, TakeLine(e) PROVE NextLine
    <3>1. e \in Nat /\ e + 2 <= got /\ EndsLine(bytes, pos, e)
      BY <1>2, <2>1, FirstBreakEndsLine DEF TakeLine
    <3>2. e \in 0 .. Len(bytes)
      BY <1>2, <3>1, InputsAssumption DEF HeadInv, TypeInv
    <3> QED BY <2>1, <3>1, <3>2 DEF TakeLine, NextLine
  <2> QED
    BY <1>2, <2>1 DEF HeadNext, Abort, NoLineClosed, NoLineTooBig, ReadNothing, ReadChunk,
                      BadRequestLine, GoodRequestLine, HeaderLine, vars, scanVars
<1> QED
  BY <1>1, <1>2, HeadInitInv, HeadStep, PTL DEF HeadSpec, SplitsLines, Spec
==============================================================================
