------------------------------ MODULE UrlProofs ------------------------------
(* Theorems about the codecs of Url, for texts of any bytes and any length:  *)
(* Base64, percent encoding, the credentials of an Authorization header, and *)
(* the search parameters, the cookies and the url that are written and read  *)
(* again.                                                                    *)
EXTENDS Url, SequenceTheorems, FiniteSetTheorems, NaturalsInduction,
        WellFoundedInduction, TLAPS

------------------------------------------------------------------------------
(* Base64 *)

Octets == 0 .. 255
Sextets == 0 .. 63

LEMMA CharIs ==
  /\ \A n \in Sextets : Char(n) \in Nat /\ Char(n) # Padding /\ Char(n) > Blank
  /\ \A m, n \in Sextets : Char(m) = Char(n) => m = n
<1>1. \A n \in Sextets :
        \/ n < 26 /\ Char(n) = 65 + n
        \/ n \in 26 .. 51 /\ Char(n) = 71 + n
        \/ n \in 52 .. 61 /\ Char(n) = n - 4
        \/ n = 62 /\ Char(n) = 43
        \/ n = 63 /\ Char(n) = 47
  BY SMT DEF Char, Sextets
<1>2. \A n \in Sextets : n \in Nat /\ n <= 63
  BY SMT DEF Sextets
<1>3. \A n \in Sextets : Char(n) \in Nat /\ Char(n) # Padding /\ Char(n) > Blank
  BY SMT, <1>1, <1>2 DEF Padding, Blank
<1>4. \A m, n \in Sextets : Char(m) = Char(n) => m = n
  BY SMT, <1>1, <1>2
<1> QED BY <1>3, <1>4

LEMMA SextetIs ==
  /\ \A c : Sextet(c) \in Sextets
  /\ \A n \in Sextets : Sextet(Char(n)) = n
  /\ Sextet(Padding) = 0
<1>1. Alphabet = {Char(n) : n \in Sextets} /\ 0 \in Sextets
  BY SMT DEF Alphabet, Sextets
<1>2. ASSUME NEW c PROVE Sextet(c) \in Sextets
  BY <1>1 DEF Sextet, Sextets
<1>3. ASSUME NEW n \in Sextets PROVE Sextet(Char(n)) = n
  BY <1>1, CharIs DEF Sextet, Sextets
<1>4. Padding \notin Alphabet
  BY <1>1, CharIs
<1> QED BY <1>2, <1>3, <1>4 DEF Sextet

(* The four sextets of three bytes, and the bytes from them again *)
LEMMA SextetsOf ==
  ASSUME NEW a \in Octets, NEW b \in Octets, NEW c \in Octets
  PROVE  /\ a \div 4 \in Sextets /\ (a % 4) * 16 + b \div 16 \in Sextets
         /\ (b % 16) * 4 + c \div 64 \in Sextets /\ c % 64 \in Sextets
BY SMT DEF Octets, Sextets

LEMMA OctetsOf ==
  ASSUME NEW a \in Octets, NEW b \in Octets, NEW c \in Octets
  PROVE  /\ (a \div 4) * 4 + ((a % 4) * 16 + b \div 16) \div 16 = a
         /\ (((a % 4) * 16 + b \div 16) % 16) * 16 + ((b % 16) * 4 + c \div 64) \div 4 = b
         /\ (((b % 16) * 4 + c \div 64) % 4) * 64 + (c % 64) = c
<1>1. ((a % 4) * 16 + b \div 16) \div 16 = a % 4 /\ ((a % 4) * 16 + b \div 16) % 16 = b \div 16
  BY SMT DEF Octets
<1>2. ((b % 16) * 4 + c \div 64) \div 4 = b % 16 /\ ((b % 16) * 4 + c \div 64) % 4 = c \div 64
  BY SMT DEF Octets
<1> QED BY SMT, <1>1, <1>2 DEF Octets

LEMMA DecIsOctets ==
  ASSUME NEW p, NEW q, NEW r, NEW s
  PROVE  Dec(p, q, r, s) \in [1 .. 3 -> Octets]
<1>1. Sextet(p) \in Sextets /\ Sextet(q) \in Sextets /\ Sextet(r) \in Sextets /\ Sextet(s) \in Sextets
  BY SextetIs
<1> DEFINE x == Sextet(p)
           y == Sextet(q)
           z == Sextet(r)
           w == Sextet(s)
<1>2. x \in Sextets /\ y \in Sextets /\ z \in Sextets /\ w \in Sextets
  BY <1>1
<1>3. Dec(p, q, r, s) = <<x * 4 + y \div 16, (y % 16) * 16 + z \div 4, (z % 4) * 64 + w>>
  BY DEF Dec
<1> HIDE DEF x, y, z, w
<1>4. x * 4 + y \div 16 \in Octets /\ (y % 16) * 16 + z \div 4 \in Octets /\ (z % 4) * 64 + w \in Octets
  BY SMT, <1>2 DEF Sextets, Octets
<1> QED BY SMT, <1>3, <1>4

(* A block of characters, decoded *)
DecOf(B) == Dec(B[1], B[2], B[3], B[4])
LEMMA BlockReadsBack ==
  ASSUME NEW data \in Seq(Octets), NEW i \in 1 .. Len(data)
  PROVE  /\ \A j \in 1 .. 4 : EncBlock(data, i)[j] \in Alphabet \cup {Padding}
         /\ IF Len(data) = i THEN EncBlock(data, i)[3] = Padding ELSE EncBlock(data, i)[3] # Padding
         /\ IF Len(data) <= i + 1 THEN EncBlock(data, i)[4] = Padding ELSE EncBlock(data, i)[4] # Padding
         /\ DecOf(EncBlock(data, i))[1] = data[i]
         /\ i + 1 <= Len(data) => DecOf(EncBlock(data, i))[2] = data[i + 1]
         /\ i + 2 <= Len(data) => DecOf(EncBlock(data, i))[3] = data[i + 2]
<1> DEFINE B == EncBlock(data, i)
           a == data[i]
           b == IF Len(data) = i THEN 0 ELSE data[i + 1]
           c == IF Len(data) <= i + 1 THEN 0 ELSE data[i + 2]
           p == Char(a \div 4)
           q == Char((a % 4) * 16 + b \div 16)
           r == Char((b % 16) * 4 + c \div 64)
           s == Char(c % 64)
<1>0. i \in Nat /\ Len(data) \in Nat /\ i >= 1 /\ i <= Len(data)
  BY SMT
<1>1. a \in Octets /\ b \in Octets /\ c \in Octets
  <2>1. 0 \in Octets
    BY SMT DEF Octets
  <2>2. \A j \in 1 .. Len(data) : data[j] \in Octets
    BY SMT
  <2> QED BY SMT, <1>0, <2>1, <2>2
<1>2. /\ B[1] = p /\ B[2] = q /\ B[3] = (IF Len(data) = i THEN Padding ELSE r)
      /\ B[4] = (IF Len(data) <= i + 1 THEN Padding ELSE s)
  <2>1. ASSUME NEW x, NEW y, NEW z, NEW w
        PROVE  /\ <<x, y, z, w>>[1] = x /\ <<x, y, z, w>>[2] = y
               /\ <<x, y, z, w>>[3] = z /\ <<x, y, z, w>>[4] = w
    OBVIOUS
  <2>2. CASE Len(data) = i
    <3>1. B = <<p, q, Padding, Padding>>
      BY <1>0, <2>1, <2>2 DEF EncBlock, Enc
    <3> QED BY <1>0, <2>2, <3>1
  <2>3. CASE Len(data) = i + 1
    <3>1. B = <<p, q, r, Padding>>
      BY <1>0, <2>1, <2>3 DEF EncBlock, Enc
    <3> QED BY <1>0, <2>3, <3>1
  <2>4. CASE Len(data) > i + 1
    <3>1. B = <<p, q, r, s>>
      BY <1>0, <2>4 DEF EncBlock, Enc
    <3> QED BY <1>0, <2>4, <3>1
  <2> QED BY <1>0, <2>2, <2>3, <2>4
<1>3. /\ p \in Alphabet /\ q \in Alphabet /\ r \in Alphabet /\ s \in Alphabet
      /\ p # Padding /\ q # Padding /\ r # Padding /\ s # Padding
  BY ZenonT(60), <1>1, SextetsOf, CharIs DEF Alphabet, Sextets
<1>4. /\ Sextet(p) = a \div 4 /\ Sextet(q) = (a % 4) * 16 + b \div 16
      /\ Sextet(r) = (b % 16) * 4 + c \div 64 /\ Sextet(s) = c % 64
      /\ Sextet(Padding) = 0
  BY <1>1, SextetsOf, SextetIs
<1>5. /\ Sextet(B[3]) = (IF Len(data) = i THEN 0 ELSE (b % 16) * 4 + c \div 64)
      /\ Sextet(B[4]) = (IF Len(data) <= i + 1 THEN 0 ELSE c % 64)
      /\ Sextet(B[1]) = a \div 4 /\ Sextet(B[2]) = (a % 4) * 16 + b \div 16
  BY <1>2, <1>4
<1>6. /\ Len(data) = i => b = 0 /\ c = 0
      /\ Len(data) <= i + 1 => c = 0
      /\ 0 % 16 = 0 /\ 0 % 64 = 0 /\ 0 \div 64 = 0 /\ 0 * 4 + 0 = 0
  BY SMT, <1>0
<1>7. Sextet(B[3]) = (b % 16) * 4 + c \div 64 /\ Sextet(B[4]) = c % 64
  BY <1>5, <1>6
<1>8. Dec(B[1], B[2], B[3], B[4]) = <<a, b, c>>
  <2>1. \A x, y, z, w : Dec(x, y, z, w) = <<Sextet(x) * 4 + Sextet(y) \div 16,
          (Sextet(y) % 16) * 16 + Sextet(z) \div 4, (Sextet(z) % 4) * 64 + Sextet(w)>>
    BY DEF Dec
  <2> HIDE DEF a, b, c
  <2>2. /\ (a \div 4) * 4 + ((a % 4) * 16 + b \div 16) \div 16 = a
        /\ (((a % 4) * 16 + b \div 16) % 16) * 16 + ((b % 16) * 4 + c \div 64) \div 4 = b
        /\ (((b % 16) * 4 + c \div 64) % 4) * 64 + (c % 64) = c
    BY <1>1, OctetsOf
  <2> QED BY Zenon, <1>5, <1>7, <2>1, <2>2
<1>9. DecOf(B) = <<a, b, c>>
  BY Zenon, <1>8 DEF DecOf
<1>10. \A j \in 1 .. 4 : B[j] \in Alphabet \cup {Padding}
  <2>1. \A j \in 1 .. 4 : j = 1 \/ j = 2 \/ j = 3 \/ j = 4
    BY SMT
  <2> HIDE DEF B, p, q, r, s
  <2> QED BY Zenon, <1>2, <1>3, <2>1
<1>11. /\ IF Len(data) = i THEN B[3] = Padding ELSE B[3] # Padding
       /\ IF Len(data) <= i + 1 THEN B[4] = Padding ELSE B[4] # Padding
  <2> HIDE DEF B, p, q, r, s
  <2> QED BY Zenon, <1>2, <1>3
<1>12. /\ DecOf(B)[1] = data[i]
       /\ i + 1 <= Len(data) => DecOf(B)[2] = data[i + 1]
       /\ i + 2 <= Len(data) => DecOf(B)[3] = data[i + 2]
  <2>1. DecOf(B)[1] = a /\ DecOf(B)[2] = b /\ DecOf(B)[3] = c
    <3> HIDE DEF B, a, b, c
    <3> QED BY SMT, <1>9
  <2>2. (i + 1 <= Len(data) => b = data[i + 1]) /\ (i + 2 <= Len(data) => c = data[i + 2])
    BY SMT, <1>0
  <2> HIDE DEF B, b, c
  <2> QED BY Zenon, <2>1, <2>2
<1> QED BY Zenon, <1>10, <1>11, <1>12

LEMMA BlockCount ==
  ASSUME NEW N \in Nat, N >= 1
  PROVE  LET B == (N + 2) \div 3
         IN B \in Nat /\ B >= 1 /\ 3 * B - 2 <= N /\ N <= 3 * B /\ (4 * B) \div 4 = B
BY SMT

(* The characters of the text of `data`, one block at a time *)
LEMMA EncodedIs ==
  ASSUME NEW data \in Seq(Octets), data # <<>>, NEW B, B = (Len(data) + 2) \div 3
  PROVE  /\ base64_encode(data) \in Seq(Alphabet \cup {Padding}) /\ Len(base64_encode(data)) = 4 * B
         /\ \A n \in 0 .. B - 1 :
              /\ 3 * n + 1 \in 1 .. Len(data)
              /\ \A j \in 1 .. 4 : base64_encode(data)[4 * n + j] = EncBlock(data, 3 * n + 1)[j]
<1> DEFINE text == base64_encode(data)
<1>0. Len(data) \in Nat /\ Len(data) >= 1
  BY SMT
<1>1. B \in Nat /\ B >= 1 /\ 3 * B - 2 <= Len(data) /\ Len(data) <= 3 * B
  BY <1>0, BlockCount
<1>2. text = [k \in 1 .. 4 * B |-> EncBlock(data, 3 * ((k - 1) \div 4) + 1)[((k - 1) % 4) + 1]]
  BY DEF base64_encode
<1>3. ASSUME NEW n \in 0 .. B - 1 PROVE 3 * n + 1 \in 1 .. Len(data)
  BY SMT, <1>0, <1>1
<1>4. ASSUME NEW n \in 0 .. B - 1, NEW j \in 1 .. 4
      PROVE  4 * n + j \in 1 .. 4 * B /\ ((4 * n + j) - 1) \div 4 = n /\ ((4 * n + j) - 1) % 4 = j - 1
  BY SMT, <1>1
<1>5. ASSUME NEW n \in 0 .. B - 1, NEW j \in 1 .. 4
      PROVE  text[4 * n + j] = EncBlock(data, 3 * n + 1)[j]
  <2>1. (j - 1) + 1 = j
    BY SMT
  <2> QED BY ZenonT(60), <1>2, <1>4, <2>1
<1>6. ASSUME NEW k \in 1 .. 4 * B PROVE text[k] \in Alphabet \cup {Padding}
  <2>1. /\ (k - 1) \div 4 \in 0 .. B - 1 /\ ((k - 1) % 4) + 1 \in 1 .. 4
    BY SMT, <1>1
  <2>2. 3 * ((k - 1) \div 4) + 1 \in 1 .. Len(data)
    BY Zenon, <1>3, <2>1
  <2>3. EncBlock(data, 3 * ((k - 1) \div 4) + 1)[((k - 1) % 4) + 1] \in Alphabet \cup {Padding}
    BY Zenon, <2>1, <2>2, BlockReadsBack
  <2> QED BY Zenon, <1>2, <2>3
<1>7. text \in Seq(Alphabet \cup {Padding}) /\ Len(text) = 4 * B
  <2>1. 4 * B \in Nat
    BY SMT, <1>1
  <2>2. DOMAIN text = 1 .. 4 * B /\ text = [k \in 1 .. 4 * B |-> text[k]]
    BY Zenon, <1>2
  <2> HIDE DEF Alphabet
  <2> QED BY SMT, <1>6, <2>1, <2>2
<1> QED BY Zenon, <1>3, <1>5, <1>7

(* What base64_encode writes base64_decode reads, whatever the bytes. *)
THEOREM Base64ReadsBack ==
  ASSUME NEW data \in Seq(Octets), data # <<>>
  PROVE  base64_decode(base64_encode(data)) = data
<1> DEFINE text == base64_encode(data)
           N == Len(data)
           B == (Len(data) + 2) \div 3
           Block(n) == EncBlock(data, 3 * n + 1)
           bytes == [k \in 1 .. 3 * B |-> DecBlock(text, 4 * ((k - 1) \div 3) + 1)[((k - 1) % 3) + 1]]
<1>0. N \in Nat /\ N >= 1
  BY SMT
<1>1. B \in Nat /\ B >= 1 /\ 3 * B - 2 <= N /\ N <= 3 * B /\ (4 * B) \div 4 = B
  BY <1>0, BlockCount
<1>2. /\ text \in Seq(Alphabet \cup {Padding}) /\ Len(text) = 4 * B
      /\ \A n \in 0 .. B - 1 :
           /\ 3 * n + 1 \in 1 .. N
           /\ \A j \in 1 .. 4 : text[4 * n + j] = Block(n)[j]
  <2>1. text = base64_encode(data) /\ B = (Len(data) + 2) \div 3
    BY Zenon
  <2> HIDE DEF text, B
  <2>2. text \in Seq(Alphabet \cup {Padding}) /\ Len(text) = 4 * B
    BY Zenon, <2>1, EncodedIs
  <2>3. \A n \in 0 .. B - 1 : 3 * n + 1 \in 1 .. N
    BY Zenon, <2>1, EncodedIs
  <2>4. \A n \in 0 .. B - 1 : \A j \in 1 .. 4 : text[4 * n + j] = Block(n)[j]
    <3>1. \A n \in 0 .. B - 1 : \A j \in 1 .. 4 : text[4 * n + j] = EncBlock(data, 3 * n + 1)[j]
      BY Zenon, <2>1, EncodedIs
    <3> QED BY Zenon, <3>1
  <2> QED BY Zenon, <2>2, <2>3, <2>4
<1> HIDE DEF text, B
<1>3. ASSUME NEW n \in 0 .. B - 1
      PROVE  DecBlock(text, 4 * n + 1) = DecOf(Block(n))
  <2>1. (4 * n + 1) + 1 = 4 * n + 2 /\ (4 * n + 1) + 2 = 4 * n + 3 /\ (4 * n + 1) + 3 = 4 * n + 4
    BY SMT, <1>1
  <2>2. 1 \in 1 .. 4 /\ 2 \in 1 .. 4 /\ 3 \in 1 .. 4 /\ 4 \in 1 .. 4
    BY SMT
  <2> QED BY ZenonT(60), <1>2, <2>1, <2>2 DEF DecBlock, DecOf
<1>4. ASSUME NEW k \in 1 .. N PROVE bytes[k] = data[k]
  <2> DEFINE n == (k - 1) \div 3
             j == ((k - 1) % 3) + 1
  <2>1. n \in 0 .. B - 1 /\ j \in 1 .. 3 /\ k = 3 * n + j /\ k \in 1 .. 3 * B /\ n \in Nat
    BY SMT, <1>0, <1>1
  <2>2. bytes[k] = DecBlock(text, 4 * n + 1)[j]
    BY Zenon, <2>1
  <2>3. 3 * n + 1 \in 1 .. N
    BY Zenon, <1>2, <2>1
  <2> HIDE DEF n, j, bytes
  <2>4. bytes[k] = DecOf(Block(n))[j]
    BY Zenon, <1>3, <2>1, <2>2
  <2>5. /\ DecOf(Block(n))[1] = data[3 * n + 1]
        /\ (3 * n + 1) + 1 <= N =>
             DecOf(Block(n))[2] = data[(3 * n + 1) + 1]
        /\ (3 * n + 1) + 2 <= N =>
             DecOf(Block(n))[3] = data[(3 * n + 1) + 2]
    BY ZenonT(60), <2>3, BlockReadsBack
  <2> HIDE DEF Block
  <2>6. CASE j = 1
    <3>1. k = 3 * n + 1
      BY SMT, <2>1, <2>6
    <3> QED BY Zenon, <2>4, <2>5, <2>6, <3>1
  <2>7. CASE j = 2
    <3>1. k = (3 * n + 1) + 1 /\ (3 * n + 1) + 1 <= N
      BY SMT, <1>0, <2>1, <2>7
    <3> QED BY Zenon, <2>4, <2>5, <2>7, <3>1
  <2>8. CASE j = 3
    <3>1. k = (3 * n + 1) + 2 /\ (3 * n + 1) + 2 <= N
      BY SMT, <1>0, <2>1, <2>8
    <3> QED BY Zenon, <2>4, <2>5, <2>8, <3>1
  <2> QED BY SMT, <2>1, <2>6, <2>7, <2>8
<1>5. PaddingLength(text) = 3 * B - N
  <2> DEFINE m == 4 * B - 1
             l == 4 * B
             n == B - 1
  <2>1. /\ n \in 0 .. B - 1 /\ m = 4 * n + 3 /\ l = 4 * n + 4 /\ m # l
        /\ 3 * n + 1 = 3 * B - 2 /\ 3 \in 1 .. 4 /\ 4 \in 1 .. 4
    BY SMT, <1>1
  <2>2. /\ IF N = 3 * B - 2 THEN text[m] = Padding ELSE text[m] # Padding
        /\ IF N <= (3 * B - 2) + 1 THEN text[l] = Padding ELSE text[l] # Padding
    <3>1. text[m] = Block(n)[3] /\ text[l] = Block(n)[4] /\ 3 * n + 1 \in 1 .. N
      BY Zenon, <1>2, <2>1
    <3>2. /\ IF N = 3 * n + 1 THEN Block(n)[3] = Padding ELSE Block(n)[3] # Padding
          /\ IF N <= (3 * n + 1) + 1 THEN Block(n)[4] = Padding ELSE Block(n)[4] # Padding
      <4> HIDE DEF n
      <4> QED BY Zenon, <3>1, BlockReadsBack
    <3> QED BY Zenon, <2>1, <3>1, <3>2
  <2>3. PaddingLength(text) = Cardinality({i \in {m, l} : text[i] = Padding})
    BY Zenon, <1>2 DEF PaddingLength
  <2> HIDE DEF m, l, n
  <2>4. CASE N = 3 * B
    <3>1. text[m] # Padding /\ text[l] # Padding /\ 3 * B - N = 0
      BY SMT, <1>0, <1>1, <2>2, <2>4
    <3>2. {i \in {m, l} : text[i] = Padding} = {}
      BY Zenon, <3>1
    <3> QED BY <2>3, <3>1, <3>2, FS_EmptySet
  <2>5. CASE N = 3 * B - 1
    <3>1. text[m] # Padding /\ text[l] = Padding /\ 3 * B - N = 1
      BY SMT, <1>0, <1>1, <2>2, <2>5
    <3>2. {i \in {m, l} : text[i] = Padding} = {l}
      BY Zenon, <3>1
    <3> QED BY <2>3, <3>1, <3>2, FS_Singleton
  <2>6. CASE N = 3 * B - 2
    <3>1. text[m] = Padding /\ text[l] = Padding /\ 3 * B - N = 2
      BY SMT, <1>0, <1>1, <2>2, <2>6
    <3>2. {i \in {m, l} : text[i] = Padding} = {l} \cup {m} /\ m \notin {l}
      BY Zenon, <2>1, <3>1
    <3>3. Cardinality({l}) = 1 /\ IsFiniteSet({l})
      BY FS_Singleton
    <3>4. Cardinality({l} \cup {m}) = 1 + 1
      BY <3>2, <3>3, FS_AddElement
    <3>5. PaddingLength(text) = 1 + 1
      BY Zenon, <2>3, <3>2, <3>4
    <3> QED BY SMT, <3>1, <3>5
  <2>7. N = 3 * B \/ N = 3 * B - 1 \/ N = 3 * B - 2
    BY SMT, <1>0, <1>1
  <2> QED BY Zenon, <2>4, <2>5, <2>6, <2>7
<1>6. base64_decode(text) = SubSeq(bytes, 1, N)
  <2>1. Len(text) \div 4 = B /\ Len(text) = 4 * B
    BY Zenon, <1>1, <1>2
  <2>2. Len(SubSeq(text, 4 * B + 1, Len(text))) = 0
    <3>1. 4 * B \in Nat
      BY SMT, <1>1
    <3> HIDE DEF Alphabet
    <3> QED BY SMT, <1>2, <3>1
  <2>3. 3 * B - PaddingLength(text) = N
    BY SMT, <1>0, <1>1, <1>5
  <2>4. base64_decode(text) = SubSeq(bytes, 1, 3 * B - PaddingLength(text))
    <3> HIDE DEF bytes
    <3>1. ~(0 = 1) /\ ~(0 > 1)
      BY SMT
    <3> QED BY Zenon, <2>1, <2>2, <3>1 DEF base64_decode, bytes
  <2> QED BY Zenon, <2>3, <2>4
<1>7. SubSeq(bytes, 1, N) = data
  <2>1. DOMAIN bytes = 1 .. 3 * B /\ 3 * B \in Nat
    BY SMT, <1>1
  <2> HIDE DEF bytes
  <2>2. SubSeq(bytes, 1, N) = [k \in 1 .. N |-> bytes[k]]
    BY SMT, <1>0, <1>1, <2>1
  <2>3. data = [k \in 1 .. N |-> data[k]]
    BY SMT
  <2> QED BY Zenon, <1>4, <2>2, <2>3
<1> QED BY Zenon, <1>6, <1>7 DEF text

LEMMA PairIsFinite ==
  ASSUME NEW a, NEW b
  PROVE  IsFiniteSet({a, b})
<1>1. IsFiniteSet({a} \cup {b})
  BY FS_Singleton, FS_Union
<1>2. {a} \cup {b} = {a, b}
  OBVIOUS
<1> QED BY Zenon, <1>1, <1>2

(* What base64_decode makes of a text are bytes. *)
LEMMA DecodedIs ==
  ASSUME NEW text \in Seq(Octets), text # <<>>
  PROVE  base64_decode(text) \in Seq(Octets)
<1> DEFINE W == Len(text) \div 4
           bytes == [k \in 1 .. 3 * W |-> DecBlock(text, 4 * ((k - 1) \div 3) + 1)[((k - 1) % 3) + 1]]
           rest == SubSeq(text, 4 * W + 1, Len(text))
<1>1. Len(text) \in Nat /\ W \in Nat
  BY SMT
<1>2. rest \in Seq(Octets) /\ Len(rest) \in Nat /\ (W = 0 => Len(rest) > 0)
  BY SMT, <1>1
<1>3. \A p, q, r, s : \A j \in 1 .. 3 : Dec(p, q, r, s)[j] \in Octets
  BY Zenon, DecIsOctets
<1>4. bytes \in Seq(Octets) /\ Len(bytes) = 3 * W
  <2>1. ASSUME NEW k \in 1 .. 3 * W PROVE bytes[k] \in Octets
    <3>1. ((k - 1) % 3) + 1 \in 1 .. 3
      BY SMT, <1>1
    <3> QED BY Zenon, <1>3, <3>1 DEF DecBlock
  <2>2. 3 * W \in Nat
    BY SMT, <1>1
  <2>3. DOMAIN bytes = 1 .. 3 * W /\ bytes = [k \in 1 .. 3 * W |-> bytes[k]]
    BY Zenon
  <2> HIDE DEF bytes, W
  <2> QED BY SMT, <2>1, <2>2, <2>3
<1>5. 1 \in 1 .. 3
  BY SMT
<1>6. CASE Len(rest) = 0
  <2>1. base64_decode(text) = SubSeq(bytes, 1, 3 * W - PaddingLength(text))
    <3>1. ~(0 = 1) /\ ~(0 > 1)
      BY SMT
    <3> QED BY Zenon, <1>6, <3>1 DEF base64_decode
  <2>2. PaddingLength(text) \in Nat
    <3>1. IsFiniteSet({Len(text) - 1, Len(text)})
      BY Zenon, PairIsFinite
    <3>2. IsFiniteSet({i \in {Len(text) - 1, Len(text)} : text[i] = Padding})
      BY <3>1, FS_Subset
    <3> QED BY <3>2, FS_CardinalityType DEF PaddingLength
  <2> HIDE DEF bytes, W
  <2>3. 3 * W \in Nat
    BY SMT, <1>1
  <2>4. SubSeq(bytes, 1, 3 * W - PaddingLength(text)) \in Seq(Octets)
    BY SMT, <1>4, <2>2, <2>3
  <2> QED BY Zenon, <2>1, <2>4
<1>7. CASE Len(rest) = 1
  <2>1. base64_decode(text) = Append(bytes, Dec(rest[1], 0, 0, 0)[1])
    <3>1. ~(1 = 0) /\ ~(1 > 1)
      BY SMT
    <3> QED BY Zenon, <1>7, <3>1 DEF base64_decode
  <2>2. Dec(rest[1], 0, 0, 0)[1] \in Octets
    BY Zenon, <1>3, <1>5
  <2> HIDE DEF bytes, rest
  <2> QED BY SMT, <1>4, <2>1, <2>2
<1>8. CASE Len(rest) > 1
  <2>1. base64_decode(text) = Append(bytes, Dec(rest[1], rest[2], 0, 0)[1])
    <3>1. ~(Len(rest) = 0) /\ ~(Len(rest) = 1)
      BY SMT, <1>2, <1>8
    <3> QED BY Zenon, <1>8, <3>1 DEF base64_decode
  <2>2. Dec(rest[1], rest[2], 0, 0)[1] \in Octets
    BY Zenon, <1>3, <1>5
  <2> HIDE DEF bytes, rest
  <2> QED BY SMT, <1>4, <2>1, <2>2
<1> HIDE DEF rest, bytes, W
<1>9. Len(rest) = 0 \/ Len(rest) = 1 \/ Len(rest) > 1
  BY SMTT(30), <1>2
<1> QED BY Zenon, <1>6, <1>7, <1>8, <1>9

------------------------------------------------------------------------------
(* The first place of a byte *)

LEMMA MinIs ==
  ASSUME NEW S, S \subseteq Nat, S # {}
  PROVE  Min(S) \in S /\ \A x \in S : Min(S) <= x
<1>1. PICK x \in S : \A y \in S : ~(<<y, x>> \in OpToRel(<, Nat))
  BY NatLessThanWellFounded, WFMin
<1>2. \A y \in S : ~(y < x) /\ x \in Nat /\ y \in Nat
  BY <1>1 DEF OpToRel
<1>3. \A y \in S : x <= y
  BY SMT, <1>2
<1> QED BY Zenon, <1>3 DEF Min

LEMMA FindIs ==
  ASSUME NEW S, NEW t \in Seq(S), NEW c, NEW i \in Nat
  PROVE  /\ \/ Find(t, c, i) = Len(t) + 1
            \/ Find(t, c, i) \in i .. Len(t) /\ t[Find(t, c, i)] = c
         /\ \A j \in i .. Len(t) : j < Find(t, c, i) => t[j] # c
<1> DEFINE places == {j \in i .. Len(t) : t[j] = c}
<1>1. Len(t) \in Nat /\ places \subseteq Nat
  BY SMT
<1>2. CASE places = {}
  <2>1. Find(t, c, i) = Len(t) + 1 /\ \A j \in i .. Len(t) : t[j] # c
    BY Zenon, <1>2 DEF Find
  <2> QED BY Zenon, <2>1
<1>3. CASE places # {}
  <2>1. Find(t, c, i) = Min(places)
    BY Zenon, <1>3 DEF Find
  <2>2. Min(places) \in places /\ \A x \in places : Min(places) <= x
    <3> HIDE DEF places
    <3> QED BY Zenon, <1>1, <1>3, MinIs
  <2>3. Find(t, c, i) \in i .. Len(t) /\ t[Find(t, c, i)] = c
    BY Zenon, <2>1, <2>2
  <2>4. \A j \in i .. Len(t) : j < Find(t, c, i) => t[j] # c
    <3>1. \A j \in i .. Len(t) : t[j] = c => Find(t, c, i) <= j
      BY Zenon, <2>1, <2>2
    <3>2. Find(t, c, i) \in Nat
      BY SMT, <2>3
    <3> QED BY SMT, <3>1, <3>2
  <2> QED BY Zenon, <2>3, <2>4
<1> QED BY Zenon, <1>2, <1>3

LEMMA FoundAt ==
  ASSUME NEW S, NEW t \in Seq(S), NEW c, NEW i \in Nat, NEW k \in i .. Len(t), t[k] = c,
         \A j \in i .. Len(t) : j < k => t[j] # c
  PROVE  Find(t, c, i) = k
<1>1. k \in Nat /\ Len(t) \in Nat /\ k <= Len(t)
  BY SMT
<1>2. CASE Find(t, c, i) = Len(t) + 1
  <2>1. k < Find(t, c, i)
    BY SMT, <1>1, <1>2
  <2> QED BY Zenon, <2>1, FindIs
<1>3. CASE Find(t, c, i) \in i .. Len(t) /\ t[Find(t, c, i)] = c
  <2>1. ~(Find(t, c, i) < k)
    BY Zenon, <1>3
  <2>2. ~(k < Find(t, c, i))
    BY Zenon, FindIs
  <2> QED BY SMT, <1>1, <1>3, <2>1, <2>2
<1> QED BY Zenon, <1>2, <1>3, FindIs

(* Texts cut and joined *)
LEMMA CutIs ==
  ASSUME NEW S, NEW t \in Seq(S), NEW m \in Nat, NEW n \in Nat, m <= n, n <= Len(t)
  PROVE  /\ SubSeq(t, m + 1, n) \in Seq(S) /\ Len(SubSeq(t, m + 1, n)) = n - m
         /\ \A i \in 1 .. (n - m) : SubSeq(t, m + 1, n)[i] = t[m + i]
<1>1. SubSeq(t, m + 1, n) \in Seq(S)
  BY SMT
<1>2. Len(SubSeq(t, m + 1, n)) = n - m
  BY SMT
<1>3. ASSUME NEW i \in 1 .. (n - m) PROVE SubSeq(t, m + 1, n)[i] = t[m + i]
  BY SMT
<1> QED BY Zenon, <1>1, <1>2, <1>3

(* Two texts with a byte between them *)
LEMMA JoinIs ==
  ASSUME NEW S, NEW a \in Seq(S), NEW x \in S, NEW b \in Seq(S),
         NEW t, t = a \o <<x>> \o b
  PROVE  /\ t \in Seq(S) /\ Len(t) = Len(a) + 1 + Len(b)
         /\ \A i \in 1 .. Len(a) : t[i] = a[i]
         /\ t[Len(a) + 1] = x
         /\ \A i \in 1 .. Len(b) : t[Len(a) + 1 + i] = b[i]
         /\ SubSeq(t, 1, Len(a)) = a /\ SubSeq(t, Len(a) + 2, Len(t)) = b
<1>1. Len(a) \in Nat /\ Len(b) \in Nat
  BY SMT
<1>2. t \in Seq(S) /\ Len(t) = Len(a) + 1 + Len(b)
  BY SMT
<1>3. ASSUME NEW i \in 1 .. Len(a) PROVE t[i] = a[i]
  BY SMT
<1>4. t[Len(a) + 1] = x
  BY SMT
<1>5. ASSUME NEW i \in 1 .. Len(b) PROVE t[Len(a) + 1 + i] = b[i]
  BY SMT
<1>6. SubSeq(t, 1, Len(a)) = a
  <2>1. /\ SubSeq(t, 0 + 1, Len(a)) \in Seq(S) /\ Len(SubSeq(t, 0 + 1, Len(a))) = Len(a) - 0
        /\ \A i \in 1 .. (Len(a) - 0) : SubSeq(t, 0 + 1, Len(a))[i] = t[0 + i]
    <3>1. 0 \in Nat /\ 0 <= Len(a) /\ Len(a) <= Len(t)
      BY SMT, <1>1, <1>2
    <3> QED BY SMT, <1>1, <1>2, <3>1, CutIs
  <2>2. 0 + 1 = 1 /\ Len(a) - 0 = Len(a) /\ \A i \in 1 .. Len(a) : 0 + i = i
    BY SMT, <1>1
  <2>3. /\ SubSeq(t, 1, Len(a)) \in Seq(S) /\ Len(SubSeq(t, 1, Len(a))) = Len(a)
        /\ \A i \in 1 .. Len(a) : SubSeq(t, 1, Len(a))[i] = a[i]
    BY Zenon, <1>3, <2>1, <2>2
  <2> QED BY Zenon, <2>3, SeqEqual
<1>7. SubSeq(t, Len(a) + 2, Len(t)) = b
  <2> DEFINE m == Len(a) + 1
  <2>1. m \in Nat /\ Len(t) \in Nat /\ m <= Len(t) /\ m + 1 = Len(a) + 2 /\ Len(t) - m = Len(b)
    BY SMT, <1>1, <1>2
  <2>2. \A i \in 1 .. Len(b) : t[m + i] = b[i]
    BY Zenon, <1>5
  <2> HIDE DEF m
  <2>3. /\ SubSeq(t, m + 1, Len(t)) \in Seq(S) /\ Len(SubSeq(t, m + 1, Len(t))) = Len(t) - m
        /\ \A i \in 1 .. (Len(t) - m) : SubSeq(t, m + 1, Len(t))[i] = t[m + i]
    <3>1. Len(t) <= Len(t)
      BY SMT, <2>1
    <3> QED BY SMT, <1>2, <2>1, <3>1, CutIs
  <2>4. /\ SubSeq(t, Len(a) + 2, Len(t)) \in Seq(S) /\ Len(SubSeq(t, Len(a) + 2, Len(t))) = Len(b)
        /\ \A i \in 1 .. Len(b) : SubSeq(t, Len(a) + 2, Len(t))[i] = b[i]
    BY Zenon, <2>1, <2>2, <2>3
  <2> QED BY Zenon, <2>4, SeqEqual
<1> QED BY Zenon, <1>2, <1>3, <1>4, <1>5, <1>6, <1>7

------------------------------------------------------------------------------
(* Credentials *)

(* A user's name, without a colon, and a password of any bytes *)
UserOk(user) ==
  \/ user = NoUser
  \/ \E name, password \in Seq(Octets) :
       /\ user = <<name, password>> /\ name # <<>>
       /\ \A i \in 1 .. Len(name) : name[i] # Colon

LEMMA TextIsValid ==
  ASSUME NEW data \in Seq(Octets), data # <<>>
  PROVE  /\ base64_encode(data) \in Seq(Nat) /\ Len(base64_encode(data)) > 0
         /\ valid(base64_encode(data))
         /\ \A i \in 1 .. Len(base64_encode(data)) : base64_encode(data)[i] # Blank
<1> DEFINE text == base64_encode(data)
           B == (Len(data) + 2) \div 3
<1>1. text \in Seq(Alphabet \cup {Padding}) /\ Len(text) = 4 * B
  <2>1. B = (Len(data) + 2) \div 3
    BY Zenon
  <2> HIDE DEF B
  <2> QED BY Zenon, <2>1, EncodedIs
<1>2. B \in Nat /\ B >= 1
  BY SMT
<1>3. \A c \in Alphabet \cup {Padding} : c \in Nat /\ c # Blank
  <2>1. Alphabet = {Char(n) : n \in Sextets}
    BY Zenon DEF Alphabet, Sextets
  <2>2. \A n \in Sextets : Char(n) \in Nat /\ Char(n) # Blank
    BY SMT, CharIs DEF Blank
  <2>3. Padding \in Nat /\ Padding # Blank
    BY SMT DEF Padding, Blank
  <2> QED BY Zenon, <2>1, <2>2, <2>3
<1> HIDE DEF text, B
<1>4. \A i \in 1 .. Len(text) : text[i] \in Alphabet \cup {Padding}
  <2> HIDE DEF Alphabet
  <2> QED BY SMT, <1>1
<1>5. valid(text) /\ \A i \in 1 .. Len(text) : text[i] # Blank
  BY Zenon, <1>3, <1>4 DEF valid
<1>6. text \in Seq(Nat)
  <2>1. \A i \in 1 .. Len(text) : text[i] \in Nat
    BY Zenon, <1>3, <1>4
  <2> HIDE DEF Alphabet
  <2> QED BY SMT, <1>1, <2>1
<1>7. Len(text) > 0
  BY SMT, <1>1, <1>2
<1> QED BY Zenon, <1>5, <1>6, <1>7 DEF text

LEMMA BasicIs ==
  /\ Basic \in Seq(Nat) /\ Len(Basic) = 5 /\ Blank \in Nat
  /\ \A i \in 1 .. 5 : Basic[i] \in Nat /\ Basic[i] # Blank /\ Lower(Basic[i]) = Basic[i]
BY SMT DEF Basic, Blank, Lower

LEMMA HeaderJoined ==
  ASSUME NEW token \in Seq(Nat), Len(token) > 0,
         NEW header, header = Basic \o <<Blank>> \o token
  PROVE  /\ header \in Seq(Nat) /\ Len(header) = 6 + Len(token)
         /\ \A i \in 1 .. 5 : header[i] = Basic[i]
         /\ header[6] = Blank /\ header[7] = token[1]
         /\ SubSeq(header, 7, Len(header)) = token
<1>1. Basic \in Seq(Nat) /\ Blank \in Nat /\ Len(Basic) = 5
  BY Zenon, BasicIs
<1>2. /\ header \in Seq(Nat) /\ Len(header) = Len(Basic) + 1 + Len(token)
      /\ \A i \in 1 .. Len(Basic) : header[i] = Basic[i]
      /\ header[Len(Basic) + 1] = Blank
      /\ \A i \in 1 .. Len(token) : header[Len(Basic) + 1 + i] = token[i]
      /\ SubSeq(header, Len(Basic) + 2, Len(header)) = token
  <2>1. Basic \in Seq(Nat) /\ Blank \in Nat
    BY Zenon, <1>1
  <2> QED BY SMTT(30), <2>1, JoinIs
<1>3. 5 + 1 = 6 /\ 5 + 2 = 7 /\ 6 + 1 = 7 /\ 1 \in 1 .. Len(token)
  BY SMT
<1> QED BY ZenonT(60), <1>1, <1>2, <1>3

LEMMA FirstAt ==
  ASSUME NEW t \in Seq(Nat), NEW c, NEW k \in 1 .. Len(t), t[k] = c,
         \A j \in 1 .. Len(t) : j < k => t[j] # c
  PROVE  Find(t, c, 1) = k
<1>1. 1 \in Nat
  BY SMT
<1> QED BY Zenon, <1>1, FoundAt

LEMMA SevenIs ==
  ASSUME NEW m \in Nat, m <= 7, m >= 6, m # 6
  PROVE  m = 7
BY SMT

(* How parse_basic_auth takes it apart *)
LEMMA HeaderCut ==
  ASSUME NEW token \in Seq(Nat), Len(token) > 0, \A i \in 1 .. Len(token) : token[i] # Blank,
         NEW header \in Seq(Nat), Len(header) = 6 + Len(token),
         \A i \in 1 .. 5 : header[i] = Basic[i],
         header[6] = Blank, header[7] = token[1], SubSeq(header, 7, Len(header)) = token
  PROVE  /\ Find(header, Blank, 1) = 6
         /\ {i \in 6 .. Len(header) : header[i] # Blank} # {}
         /\ Min({i \in 6 .. Len(header) : header[i] # Blank}) = 7
         /\ [i \in 1 .. 6 - 1 |-> Lower(header[i])] = Basic
         /\ From(header, 7) = token
<1>1. /\ Basic \in Seq(Nat) /\ Len(Basic) = 5 /\ Blank \in Nat
      /\ \A i \in 1 .. 5 : Basic[i] \in Nat /\ Basic[i] # Blank /\ Lower(Basic[i]) = Basic[i]
  BY Zenon, BasicIs
<1>2. Len(token) \in Nat
  BY SMT
<1>3. Find(header, Blank, 1) = 6
  <2>0. Len(header) = 6 + Len(token)
    BY Zenon
  <2>1. 6 \in 1 .. Len(header) /\ 1 \in Nat /\ \A j \in 1 .. Len(header) : j < 6 => j \in 1 .. 5
    BY SMTT(30), <1>2, <2>0
  <2>2. \A j \in 1 .. Len(header) : j < 6 => header[j] # Blank
    BY Zenon, <1>1, <2>1
  <2>3. header \in Seq(Nat) /\ header[6] = Blank
    BY Zenon
  <2> QED BY ZenonT(60), <2>1, <2>2, <2>3, FirstAt
<1>4. /\ {i \in 6 .. Len(header) : header[i] # Blank} # {}
      /\ Min({i \in 6 .. Len(header) : header[i] # Blank}) = 7
  <2> DEFINE behind == {i \in 6 .. Len(header) : header[i] # Blank}
  <2>1. 7 \in 6 .. Len(header) /\ \A i \in 6 .. Len(header) : i \in Nat /\ i >= 6
    BY SMT, <1>2
  <2>2. header[7] # Blank
    BY SMT, <1>2
  <2>3. 7 \in behind /\ behind \subseteq Nat /\ 6 \notin behind /\ \A i \in behind : i \in Nat /\ i >= 6
    BY Zenon, <2>1, <2>2
  <2> HIDE DEF behind
  <2>4. Min(behind) \in behind /\ Min(behind) <= 7
    BY Zenon, <2>3, MinIs
  <2>5. Min(behind) \in Nat /\ Min(behind) >= 6 /\ Min(behind) # 6
    BY Zenon, <2>3, <2>4
  <2>6. Min(behind) = 7
    BY Zenon, <2>4, <2>5, SevenIs
  <2> QED BY Zenon, <2>3, <2>6 DEF behind
<1>5. [i \in 1 .. 6 - 1 |-> Lower(header[i])] = Basic
  <2>1. 6 - 1 = 5 /\ Basic = [i \in 1 .. 5 |-> Basic[i]]
    BY SMT, <1>1
  <2> QED BY ZenonT(60), <1>1, <2>1
<1> QED BY Zenon, <1>3, <1>4, <1>5 DEF From

LEMMA CredentialsAreRead ==
  ASSUME NEW name \in Seq(Octets), NEW password \in Seq(Octets), name # <<>>,
         \A i \in 1 .. Len(name) : name[i] # Colon
  PROVE  parse_basic_auth(BasicHeader(<<name, password>>)) = <<name, password>>
<1> DEFINE data == name \o <<Colon>> \o password
           token == base64_encode(data)
           header == Basic \o <<Blank>> \o token
           split == Find(data, Colon, 1)
<1>1. /\ data \in Seq(Octets) /\ Len(data) = Len(name) + 1 + Len(password)
      /\ \A i \in 1 .. Len(name) : data[i] = name[i]
      /\ data[Len(name) + 1] = Colon
      /\ SubSeq(data, 1, Len(name)) = name /\ SubSeq(data, Len(name) + 2, Len(data)) = password
  <2>1. Colon \in Octets /\ data = name \o <<Colon>> \o password
    BY SMT DEF Colon, Octets
  <2> HIDE DEF data, Colon
  <2> QED BY SMT, <2>1, JoinIs
<1>2. Len(name) \in Nat /\ Len(name) > 0 /\ Len(password) \in Nat
  BY SMT
<1>3. BasicHeader(<<name, password>>) = header
  BY DEF BasicHeader
<1>4. header = Basic \o <<Blank>> \o token
  BY Zenon
<1> HIDE DEF data
<1>5. data # <<>>
  BY SMT, <1>1, <1>2
<1>6. token \in Seq(Nat) /\ Len(token) > 0 /\ valid(token) /\ \A i \in 1 .. Len(token) : token[i] # Blank
  BY Zenon, <1>1, <1>5, TextIsValid
<1>7. base64_decode(token) = data
  BY Zenon, <1>1, <1>5, Base64ReadsBack
<1> HIDE DEF token, header
<1>8. /\ Find(header, Blank, 1) = 6
      /\ {i \in 6 .. Len(header) : header[i] # Blank} # {}
      /\ Min({i \in 6 .. Len(header) : header[i] # Blank}) = 7
      /\ [i \in 1 .. 6 - 1 |-> Lower(header[i])] = Basic
      /\ From(header, 7) = token
  <2>1. /\ header \in Seq(Nat) /\ Len(header) = 6 + Len(token)
        /\ \A i \in 1 .. 5 : header[i] = Basic[i]
        /\ header[6] = Blank /\ header[7] = token[1]
        /\ SubSeq(header, 7, Len(header)) = token
    BY Zenon, <1>4, <1>6, HeaderJoined
  <2> QED BY Zenon, <1>6, <2>1, HeaderCut
<1>9. split = Len(name) + 1
  <2>1. Len(name) + 1 \in 1 .. Len(data) /\ 1 \in Nat
        /\ \A j \in 1 .. Len(data) : j < Len(name) + 1 => j \in 1 .. Len(name)
    BY SMT, <1>1, <1>2
  <2>2. \A j \in 1 .. Len(data) : j < Len(name) + 1 => data[j] # Colon
    BY Zenon, <1>1, <2>1
  <2> HIDE DEF Colon
  <2>3. data \in Seq(Octets) /\ data[Len(name) + 1] = Colon
    BY Zenon, <1>1
  <2> QED BY ZenonT(60), <2>1, <2>2, <2>3, FoundAt
<1>10. /\ ~(split = 1 \/ split > Len(data)) /\ split - 1 = Len(name) /\ split + 1 = Len(name) + 2
  BY SMT, <1>1, <1>2, <1>9
<1>11. Upto(data, split) = name /\ From(data, split + 1) = password
  BY Zenon, <1>1, <1>10 DEF Upto, From
<1>12. parse_basic_auth(header) = <<Upto(data, split), From(data, split + 1)>>
  BY Zenon, <1>6, <1>7, <1>8, <1>10 DEF parse_basic_auth
<1> QED BY Zenon, <1>3, <1>11, <1>12

(* A pair cut at its first colon *)
LEMMA SplitIsOk ==
  ASSUME NEW pair \in Seq(Octets), NEW split, split = Find(pair, Colon, 1), split # 1
  PROVE  UserOk(<<Upto(pair, split), From(pair, split + 1)>>)
<1> DEFINE name == Upto(pair, split)
           password == From(pair, split + 1)
<1>1. 1 \in Nat /\ Len(pair) \in Nat
  BY SMT
<1>2. /\ split = Len(pair) + 1 \/ split \in 1 .. Len(pair)
      /\ \A j \in 1 .. Len(pair) : j < split => pair[j] # Colon
  BY Zenon, <1>1, FindIs
<1>3. split \in Nat /\ split > 1 /\ split <= Len(pair) + 1
  BY SMT, <1>1, <1>2
<1>4. name \in Seq(Octets) /\ Len(name) = split - 1 /\ \A i \in 1 .. split - 1 : name[i] = pair[i]
  BY SMT, <1>1, <1>3 DEF Upto
<1>5. password \in Seq(Octets)
  BY SMT, <1>1, <1>3 DEF From
<1> HIDE DEF name, password
<1>6. name # <<>>
  BY SMT, <1>3, <1>4
<1>7. \A i \in 1 .. Len(name) : i \in 1 .. Len(pair) /\ i < split /\ i \in 1 .. split - 1
  BY SMT, <1>1, <1>3, <1>4
<1>8. \A i \in 1 .. Len(name) : name[i] # Colon
  BY Zenon, <1>2, <1>4, <1>7
<1>9. UserOk(<<name, password>>)
  BY Zenon, <1>4, <1>5, <1>6, <1>8 DEF UserOk
<1> QED BY Zenon, <1>9 DEF name, password

LEMMA NoUserIsOk == UserOk(NoUser)
BY DEF UserOk

LEMMA AuthIsOk ==
  ASSUME NEW header \in Seq(Octets)
  PROVE  UserOk(parse_basic_auth(header))
<1> DEFINE gap == Find(header, Blank, 1)
           behind == {i \in gap .. Len(header) : header[i] # Blank}
           token == From(header, Min(behind))
           pair == base64_decode(token)
           split == Find(pair, Colon, 1)
<1>1. \/ parse_basic_auth(header) = NoUser
      \/ /\ behind # {}
         /\ split # 1
         /\ parse_basic_auth(header) = <<Upto(pair, split), From(pair, split + 1)>>
  BY Zenon DEF parse_basic_auth
<1>2. CASE behind # {} /\ split # 1
  <2>1. gap \in Nat /\ gap >= 1 /\ Len(header) \in Nat
    <3>1. 1 \in Nat /\ Len(header) \in Nat
      BY SMT
    <3>2. gap = Len(header) + 1 \/ gap \in 1 .. Len(header)
      BY Zenon, <3>1, FindIs
    <3> QED BY SMT, <3>1, <3>2
  <2>2. Min(behind) \in gap .. Len(header)
    <3>1. behind \subseteq Nat
      BY SMT, <2>1
    <3>2. Min(behind) \in behind
      <4> HIDE DEF behind
      <4> QED BY Zenon, <1>2, <3>1, MinIs
    <3> QED BY Zenon, <3>2
  <2>3. token \in Seq(Octets) /\ token # <<>>
    <3> DEFINE first == Min(behind)
    <3>1. first \in gap .. Len(header) /\ token = From(header, first)
      BY Zenon, <2>2
    <3> HIDE DEF first, token, behind, gap
    <3>2. first \in Nat /\ first >= 1 /\ first <= Len(header)
      BY SMT, <2>1, <3>1
    <3>3. From(header, first) \in Seq(Octets) /\ Len(From(header, first)) >= 1
      BY SMT, <2>1, <3>2 DEF From
    <3> QED BY SMT, <3>1, <3>3
  <2> HIDE DEF behind, gap
  <2> HIDE DEF token
  <2>4. pair \in Seq(Octets)
    BY Zenon, <2>3, DecodedIs
  <2>5. split = Find(pair, Colon, 1) /\ split # 1
    BY Zenon, <1>2
  <2> HIDE DEF pair, split
  <2>6. UserOk(<<Upto(pair, split), From(pair, split + 1)>>)
    BY SMT, <2>4, <2>5, SplitIsOk
  <2> QED BY Zenon, <1>1, <2>6, NoUserIsOk
<1> QED BY Zenon, <1>1, <1>2, NoUserIsOk

LEMMA PartsAre ==
  ASSUME NEW text \in Seq(Octets), NEW c
  PROVE  /\ Upto(text, Find(text, c, 1)) \in Seq(Octets)
         /\ From(text, Find(text, c, 1)) \in Seq(Octets)
<1>1. 1 \in Nat /\ Len(text) \in Nat
  BY SMT
<1>2. Find(text, c, 1) = Len(text) + 1 \/ Find(text, c, 1) \in 1 .. Len(text)
  BY Zenon, <1>1, FindIs
<1>3. Find(text, c, 1) \in Nat /\ Find(text, c, 1) >= 1 /\ Find(text, c, 1) <= Len(text) + 1
  BY SMT, <1>1, <1>2
<1> DEFINE f == Find(text, c, 1)
<1> HIDE DEF f
<1>4. f \in Nat /\ f >= 1 /\ f <= Len(text) + 1
  BY Zenon, <1>3 DEF f
<1>5. Upto(text, f) \in Seq(Octets) /\ From(text, f) \in Seq(Octets)
  BY SMT, <1>1, <1>4 DEF Upto, From
<1> QED BY Zenon, <1>5 DEF f

LEMMA UserIsOk ==
  ASSUME NEW text \in Seq(Octets)
  PROVE  UserOk(User(Authority(text)))
<1>1. Located(text) \in Seq(Octets)
  <2>1. Marks(text) \subseteq Nat /\ \A m \in Marks(text) : m \in Nat /\ m >= 1 /\ m + 3 <= Len(text) + 1
    BY SMT DEF Marks
  <2>2. CASE Marks(text) = {}
    <3>1. SchemeMark(text) = 0
      BY Zenon, <2>2 DEF SchemeMark
    <3> QED BY Zenon, <3>1 DEF Located
  <2>3. CASE Marks(text) # {}
    <3>1. Min(Marks(text)) \in Marks(text) /\ \A x \in Marks(text) : Min(Marks(text)) <= x
      BY Zenon, <2>1, <2>3, MinIs
    <3>2. SchemeMark(text) \in Marks(text)
      BY Zenon, <2>3, <3>1 DEF SchemeMark
    <3> DEFINE m == SchemeMark(text)
    <3>3. m \in Nat /\ m >= 1 /\ m + 3 <= Len(text) + 1
      BY Zenon, <2>1, <3>2
    <3> HIDE DEF m
    <3>4. From(text, m + 3) \in Seq(Octets) /\ m # 0
      BY SMT, <3>3 DEF From
    <3> QED BY Zenon, <3>4 DEF Located, m
  <2> QED BY Zenon, <2>2, <2>3
<1>2. Authority(text) \in Seq(Octets)
  BY Zenon, <1>1, PartsAre DEF Authority
<1> DEFINE authority == Authority(text)
           token == Upto(authority, Find(authority, At, 1))
<1> HIDE DEF authority
<1>3. token \in Seq(Octets)
  BY Zenon, <1>2, PartsAre DEF authority
<1> HIDE DEF token
<1>4. UserOk(Credentials(token))
  <2> DEFINE split == Find(token, Colon, 1)
  <2>1. \/ Credentials(token) = NoUser
        \/ /\ split # 1
           /\ Credentials(token) = <<Upto(token, split), From(token, split + 1)>>
    BY Zenon DEF Credentials
  <2>2. split = Find(token, Colon, 1)
    BY Zenon
  <2> HIDE DEF split
  <2>3. split # 1 => UserOk(<<Upto(token, split), From(token, split + 1)>>)
    BY SMT, <1>3, <2>2, SplitIsOk
  <2> QED BY Zenon, <2>1, <2>3, NoUserIsOk
<1>5. UserOk(User(authority))
  BY Zenon, <1>4, NoUserIsOk DEF User, token
<1> QED BY Zenon, <1>5 DEF authority

(* Induction, for a set: what holds of 0 and from each number of the next *)
LEMMA Induct ==
  ASSUME NEW S, 0 \in S, \A n \in Nat : n \in S => n + 1 \in S
  PROVE  \A n \in Nat : n \in S
<1> DEFINE rest == {n \in Nat : n \notin S}
<1>1. ASSUME rest # {} PROVE FALSE
  <2>1. rest \subseteq Nat
    OBVIOUS
  <2> DEFINE m == Min(rest)
  <2>2. m \in rest /\ \A x \in rest : m <= x
    <3> HIDE DEF rest
    <3> QED BY Zenon, <1>1, <2>1, MinIs
  <2>3. m \in Nat /\ m \notin S /\ m # 0
    BY <2>2
  <2> HIDE DEF m
  <2>4. m - 1 \in Nat /\ (m - 1) + 1 = m /\ ~(m <= m - 1)
    BY SMT, <2>3
  <2>5. m - 1 \in S
    BY Zenon, <2>2, <2>4
  <2> QED BY Zenon, <2>3, <2>4, <2>5
<1> QED BY <1>1

------------------------------------------------------------------------------
(* Texts behind one another *)

(* u is t behind s. *)
Behind(u, s, t, S) ==
  /\ u \in Seq(S) /\ Len(u) = Len(s) + Len(t)
  /\ Len(s) \in Nat /\ Len(t) \in Nat /\ Len(u) \in Nat /\ Len(s) <= Len(u)
  /\ \A i \in 1 .. Len(s) : u[i] = s[i]
  /\ \A i \in 1 .. Len(t) : u[Len(s) + i] = t[i]

LEMMA ConcatIs ==
  ASSUME NEW S, NEW s \in Seq(S), NEW t \in Seq(S)
  PROVE  Behind(s \o t, s, t, S)
<1>1. Len(s) \in Nat /\ Len(t) \in Nat
  BY SMT
<1>2. s \o t \in Seq(S) /\ Len(s \o t) = Len(s) + Len(t)
  BY SMT
<1>3. Len(s \o t) \in Nat /\ Len(s) <= Len(s \o t)
  BY SMT, <1>1, <1>2
<1>4. \A i \in 1 .. Len(s) : (s \o t)[i] = s[i]
  BY SMT
<1>5. \A i \in 1 .. Len(t) : (s \o t)[Len(s) + i] = t[i]
  BY SMT
<1> QED BY Zenon, <1>1, <1>2, <1>3, <1>4, <1>5 DEF Behind

LEMMA Within ==
  ASSUME NEW a \in Nat, NEW b \in Nat, NEW c \in Nat, NEW d \in Nat, d = a + b, d <= c
  PROVE  \A i \in 1 .. b : a + i \in 1 .. c
BY SMT

LEMMA AtMost == ASSUME NEW a \in Nat, NEW b \in Nat, NEW c \in Nat, a <= b, b <= c PROVE a <= c
BY SMT

(* at[n] is where the n-th text begins in t, less one. *)
LaidOut(t, ss, at) ==
  /\ at \in [1 .. Len(ss) + 1 -> Nat]
  /\ at[1] = 0 /\ at[Len(ss) + 1] = Len(t)
  /\ \A n \in 1 .. Len(ss) :
       /\ at[n + 1] = at[n] + Len(ss[n])
       /\ \A i \in 1 .. Len(ss[n]) : t[at[n] + i] = ss[n][i]

Flattens(f, ss, n) == f = [i \in 1 .. n |-> IF i = 1 THEN ss[i] ELSE f[i - 1] \o ss[i]]

(* What FlattenSeq builds up exists. *)
LEMMA FlattensExists ==
  ASSUME NEW ss
  PROVE  \A n \in Nat : \E f : Flattens(f, ss, n)
<1> DEFINE N == {n \in Nat : \E f : Flattens(f, ss, n)}
<1>1. 0 \in N
  <2>1. 0 \in Nat /\ 1 .. 0 = {}
    BY SMT
  <2> DEFINE f == [i \in 1 .. 0 |-> <<>>]
  <2>2. Flattens(f, ss, 0)
    BY Zenon, <2>1 DEF Flattens
  <2> QED BY Zenon, <2>1, <2>2
<1>2. ASSUME NEW n \in Nat, n \in N PROVE n + 1 \in N
  <2>1. PICK f : Flattens(f, ss, n)
    BY <1>2
  <2> DEFINE g == [i \in 1 .. (n + 1) |-> IF i = 1 THEN ss[i] ELSE f[i - 1] \o ss[i]]
  <2>2. \A i \in 1 .. n : i \in 1 .. (n + 1) /\ g[i] = f[i]
    <3>1. \A i \in 1 .. n : i \in 1 .. (n + 1)
      BY SMT
    <3>2. \A i \in 1 .. n : f[i] = IF i = 1 THEN ss[i] ELSE f[i - 1] \o ss[i]
      BY Zenon, <2>1 DEF Flattens
    <3> QED BY Zenon, <3>1, <3>2
  <2>3. \A i \in 1 .. (n + 1) : i # 1 => i - 1 \in 1 .. n
    BY SMT
  <2>4. \A i \in 1 .. (n + 1) : i # 1 => g[i - 1] = f[i - 1]
    BY Zenon, <2>2, <2>3
  <2>5. g = [i \in 1 .. (n + 1) |-> IF i = 1 THEN ss[i] ELSE g[i - 1] \o ss[i]]
    BY Zenon, <2>4
  <2>6. n + 1 \in Nat
    BY SMT
  <2> HIDE DEF g
  <2> QED BY Zenon, <2>5, <2>6 DEF Flattens
<1> HIDE DEF N
<1>3. \A n \in Nat : n \in N
  BY Zenon, <1>1, <1>2, Induct
<1> QED BY Zenon, <1>3 DEF N

LEMMA FlatIs ==
  ASSUME NEW S, NEW ss \in Seq(Seq(S))
  PROVE  FlattenSeq(ss) \in Seq(S) /\ \E at : LaidOut(FlattenSeq(ss), ss, at)
<1>1. Len(ss) \in Nat
  BY SMT
<1>2. CASE Len(ss) = 0
  <2>1. ss = <<>> /\ FlattenSeq(ss) = <<>>
    BY <1>2 DEF FlattenSeq
  <2> DEFINE at == [n \in 1 .. 1 |-> 0]
  <2>2. LaidOut(FlattenSeq(ss), ss, at)
    BY SMT, <1>2, <2>1 DEF LaidOut
  <2>3. <<>> \in Seq(S)
    BY SMT
  <2> QED BY Zenon, <2>1, <2>2, <2>3
<1>3. CASE Len(ss) # 0
  <2> DEFINE L == Len(ss)
  <2>1. PICK f : Flattens(f, ss, L) /\ FlattenSeq(ss) = f[L]
    <3>1. \E f : Flattens(f, ss, L)
      BY Zenon, <1>1, FlattensExists
    <3> QED BY Zenon, <3>1, <1>3 DEF FlattenSeq, Flattens
  <2>2. f[1] = ss[1] /\ \A n \in 1 .. L : n # 1 => f[n] = f[n - 1] \o ss[n]
    <3>1. 1 \in 1 .. L
      BY SMT, <1>1, <1>3
    <3> HIDE DEF L
    <3>2. \A i \in 1 .. L : f[i] = IF i = 1 THEN ss[i] ELSE f[i - 1] \o ss[i]
      BY Zenon, <2>1 DEF Flattens
    <3> QED BY Zenon, <3>1, <3>2
  <2> DEFINE at == [n \in 1 .. L + 1 |-> IF n = 1 THEN 0 ELSE Len(f[n - 1])]
             Good(n) == /\ f[n] \in Seq(S) /\ Len(f[n]) \in Nat
                        /\ \A m \in 1 .. n :
                             /\ at[m] \in Nat /\ at[m + 1] = at[m] + Len(ss[m])
                             /\ at[m + 1] <= Len(f[n])
                             /\ \A i \in 1 .. Len(ss[m]) : f[n][at[m] + i] = ss[m][i]
             N == {n \in Nat : n + 1 \in 1 .. L => Good(n + 1)}
  <2>3. \A n \in 1 .. L : ss[n] \in Seq(S) /\ Len(ss[n]) \in Nat
    BY SMT
  <2>4. at[1] = 0 /\ \A n \in 1 .. L : n + 1 # 1 /\ at[n + 1] = Len(f[n])
    BY SMT, <1>1
  <2>5. 0 \in N
    <3>1. 1 \in 1 .. L /\ 0 + 1 = 1 /\ 0 \in Nat /\ \A m \in 1 .. 1 : m = 1
      BY SMT, <1>1, <1>3
    <3>2. /\ f[1] \in Seq(S) /\ Len(f[1]) \in Nat
          /\ at[1] \in Nat /\ at[1 + 1] = at[1] + Len(ss[1])
          /\ at[1 + 1] <= Len(f[1])
          /\ \A i \in 1 .. Len(ss[1]) : f[1][at[1] + i] = ss[1][i]
      <4> HIDE DEF at
      <4> QED BY SMT, <2>2, <2>3, <2>4, <3>1
    <3>3. Good(1)
      <4> HIDE DEF at
      <4> QED BY Zenon, <3>1, <3>2
    <3> HIDE DEF Good
    <3> QED BY Zenon, <3>1, <3>3
  <2>6. ASSUME NEW n \in Nat, n \in N PROVE n + 1 \in N
    <3> SUFFICES ASSUME (n + 1) + 1 \in 1 .. L PROVE Good((n + 1) + 1)
      <4>1. n + 1 \in Nat
        BY SMT
      <4> HIDE DEF Good
      <4> QED BY Zenon, <4>1
    <3> DEFINE k == n + 1
    <3>1. k \in 1 .. L /\ k \in Nat /\ k + 1 \in 1 .. L /\ k + 1 # 1 /\ (k + 1) - 1 = k
      BY SMT, <1>1
    <3>2. Good(k)
      <4> HIDE DEF Good
      <4> QED BY Zenon, <2>6, <3>1
    <3> HIDE DEF k
    <3>3. f[k + 1] = f[k] \o ss[k + 1]
      BY Zenon, <2>2, <3>1
    <3>4. f[k] \in Seq(S) /\ Len(f[k]) \in Nat /\ ss[k + 1] \in Seq(S) /\ Len(ss[k + 1]) \in Nat
      BY Zenon, <2>3, <3>1, <3>2
    <3>c. Behind(f[k + 1], f[k], ss[k + 1], S)
      <4>1. Behind(f[k] \o ss[k + 1], f[k], ss[k + 1], S)
        BY Zenon, <3>4, ConcatIs
      <4> QED BY Zenon, <4>1, <3>3
    <3>5. /\ f[k + 1] \in Seq(S) /\ Len(f[k + 1]) = Len(f[k]) + Len(ss[k + 1])
          /\ \A i \in 1 .. Len(f[k]) : f[k + 1][i] = f[k][i]
          /\ \A i \in 1 .. Len(ss[k + 1]) : f[k + 1][Len(f[k]) + i] = ss[k + 1][i]
      BY Zenon, <3>c DEF Behind
    <3>6. at[k + 1] = Len(f[k]) /\ at[(k + 1) + 1] = Len(f[k + 1])
      <4> HIDE DEF at
      <4> QED BY Zenon, <2>4, <3>1
    <3> HIDE DEF at
    <3>7. ASSUME NEW m \in 1 .. k + 1
          PROVE  /\ at[m] \in Nat /\ at[m + 1] = at[m] + Len(ss[m])
                 /\ at[m + 1] <= Len(f[k + 1])
                 /\ \A i \in 1 .. Len(ss[m]) : f[k + 1][at[m] + i] = ss[m][i]
      <4>1. CASE m = k + 1
        BY SMT, <4>1, <3>4, <3>5, <3>6
      <4>2. CASE m # k + 1
        <5>1. m \in 1 .. k /\ m \in 1 .. L
          BY SMT, <4>2, <3>1
        <5>2. /\ at[m] \in Nat /\ at[m + 1] = at[m] + Len(ss[m]) /\ at[m + 1] <= Len(f[k])
              /\ \A i \in 1 .. Len(ss[m]) : f[k][at[m] + i] = ss[m][i]
          BY Zenon, <5>1, <3>2
        <5>3. Len(ss[m]) \in Nat
          BY Zenon, <5>1, <2>3
        <5>4. at[m + 1] <= Len(f[k + 1])
          <6>1. Len(f[k + 1]) \in Nat /\ Len(f[k]) <= Len(f[k + 1])
            BY Zenon, <3>c DEF Behind
          <6>2. at[m + 1] \in Nat
            BY SMT, <5>2, <5>3
          <6> QED BY Zenon, <5>2, <6>1, <6>2, <3>4, AtMost
        <5>5. \A i \in 1 .. Len(ss[m]) : at[m] + i \in 1 .. Len(f[k])
          <6>1. at[m + 1] \in Nat
            BY SMT, <5>2, <5>3
          <6> QED BY Zenon, <5>2, <5>3, <6>1, <3>4, Within
        <5>6. \A i \in 1 .. Len(ss[m]) : f[k + 1][at[m] + i] = ss[m][i]
          BY Zenon, <5>2, <5>5, <3>5
        <5> QED BY Zenon, <5>2, <5>4, <5>6
      <4> QED BY Zenon, <4>1, <4>2
    <3>8. Len(f[k + 1]) \in Nat
      BY Zenon, <3>c DEF Behind
    <3>9. Good(k + 1)
      BY Zenon, <3>5, <3>7, <3>8
    <3> HIDE DEF Good
    <3> QED BY Zenon, <3>9 DEF k
  <2>7. Good(L)
    <3> HIDE DEF N
    <3>1. \A n \in Nat : n \in N
      BY Zenon, <2>5, <2>6, Induct
    <3> USE DEF N
    <3>2. L - 1 \in Nat /\ (L - 1) + 1 = L /\ L \in 1 .. L
      BY SMT, <1>1, <1>3
    <3> HIDE DEF Good, L
    <3> QED BY Zenon, <3>1, <3>2
  <2>8. at \in [1 .. L + 1 -> Nat]
    <3>1. ASSUME NEW n \in 1 .. L + 1 PROVE at[n] \in Nat
      <4>1. CASE n \in 1 .. L
        <5> HIDE DEF at, L
        <5> QED BY Zenon, <4>1, <2>7
      <4>2. CASE n = L + 1
        <5>1. L \in 1 .. L
          BY SMT, <1>1, <1>3
        <5> HIDE DEF at, L
        <5> QED BY Zenon, <4>2, <5>1, <2>4, <2>7
      <4> QED BY SMT, <4>1, <4>2, <1>1
    <3> QED BY Zenon, <3>1
  <2>9. at[L + 1] = Len(f[L])
    <3>1. L \in 1 .. L
      BY SMT, <1>1, <1>3
    <3> QED BY Zenon, <3>1, <2>4
  <2>10. LaidOut(f[L], ss, at)
    <3> HIDE DEF at
    <3> QED BY Zenon, <2>4, <2>7, <2>8, <2>9 DEF LaidOut
  <2> HIDE DEF at, L
  <2> QED BY Zenon, <2>1, <2>7, <2>10
<1> QED BY Zenon, <1>2, <1>3

LEMMA LaidInOrder ==
  ASSUME NEW S, NEW ss \in Seq(Seq(S)), NEW t \in Seq(S), NEW at, LaidOut(t, ss, at)
  PROVE  \A m, n \in 1 .. Len(ss) + 1 : m < n => at[m + 1] <= at[n]
<1> DEFINE L == Len(ss)
           N == {d \in Nat : \A m \in 1 .. L : m + 1 + d <= L + 1 => at[m + 1] <= at[m + 1 + d]}
<1>1. L \in Nat /\ \A n \in 1 .. L : Len(ss[n]) \in Nat
  BY SMT
<1>2. \A n \in 1 .. L + 1 : at[n] \in Nat
  BY DEF LaidOut
<1>3. 0 \in N
  <2> SUFFICES ASSUME NEW m \in 1 .. L PROVE at[m + 1] <= at[m + 1 + 0]
    BY SMT
  <2>1. m + 1 \in 1 .. L + 1 /\ m + 1 + 0 = m + 1
    BY SMT, <1>1
  <2>2. at[m + 1] \in Nat
    BY Zenon, <1>2, <2>1
  <2> QED BY SMT, <2>1, <2>2
<1>4. ASSUME NEW d \in Nat, d \in N PROVE d + 1 \in N
  <2> SUFFICES ASSUME NEW m \in 1 .. L, m + 1 + (d + 1) <= L + 1
               PROVE  at[m + 1] <= at[m + 1 + (d + 1)]
    BY SMT
  <2> DEFINE k == m + 1 + d
  <2>1. /\ k \in 1 .. L /\ k \in 1 .. L + 1 /\ k + 1 \in 1 .. L + 1 /\ k + 1 = m + 1 + (d + 1)
        /\ m + 1 + d <= L + 1 /\ m + 1 \in 1 .. L + 1
    BY SMT, <1>1
  <2>2. at[m + 1] <= at[k]
    BY Zenon, <1>4, <2>1
  <2> HIDE DEF k
  <2>3. at[k + 1] = at[k] + Len(ss[k])
    BY Zenon, <2>1 DEF LaidOut
  <2>4. at[k] \in Nat /\ Len(ss[k]) \in Nat /\ at[m + 1] \in Nat
    BY Zenon, <1>1, <1>2, <2>1
  <2>5. at[m + 1] <= at[k + 1]
    BY SMTT(30), <2>2, <2>3, <2>4
  <2> QED BY Zenon, <2>1, <2>5
<1> HIDE DEF N
<1>5. \A d \in Nat : d \in N
  BY Zenon, <1>3, <1>4, Induct
<1> SUFFICES ASSUME NEW m \in 1 .. L + 1, NEW n \in 1 .. L + 1, m < n
             PROVE  at[m + 1] <= at[n]
  BY DEF L
<1> HIDE DEF L
<1>6. n - m - 1 \in Nat /\ m \in 1 .. L /\ m + 1 + (n - m - 1) = n /\ m + 1 + (n - m - 1) <= L + 1
  BY SMT, <1>1
<1>7. n - m - 1 \in N
  BY Zenon, <1>5, <1>6
<1> QED BY Zenon, <1>6, <1>7 DEF N

(* The place p is one of a text. *)
InText(p, ss, at) == \E n \in 1 .. Len(ss) : \E i \in 1 .. Len(ss[n]) : p = at[n] + i

(* Every byte of the whole is one of a text. *)
LEMMA LaidCovers ==
  ASSUME NEW S, NEW ss \in Seq(Seq(S)), NEW t \in Seq(S), NEW at, LaidOut(t, ss, at),
         NEW p \in 1 .. Len(t)
  PROVE  InText(p, ss, at)
<1> DEFINE L == Len(ss)
           beyond == {n \in 1 .. L + 1 : p <= at[n]}
<1>1. L \in Nat /\ Len(t) \in Nat /\ \A n \in 1 .. L : Len(ss[n]) \in Nat
  BY SMT
<1>2. \A n \in 1 .. L + 1 : at[n] \in Nat
  BY DEF LaidOut
<1>3. L + 1 \in 1 .. L + 1 /\ p <= Len(t) /\ p \in Nat /\ ~(p <= 0) /\ 1 .. L + 1 \subseteq Nat
  BY SMT, <1>1
<1>4. at[L + 1] = Len(t) /\ at[1] = 0
  BY DEF LaidOut
<1>5. beyond \subseteq Nat /\ L + 1 \in beyond
  <2> HIDE DEF L
  <2> QED BY Zenon, <1>3, <1>4
<1> DEFINE m == Min(beyond)
<1>6. m \in beyond /\ \A x \in beyond : m <= x
  <2> HIDE DEF beyond
  <2> QED BY Zenon, <1>5, MinIs
<1> HIDE DEF m
<1>7. m \in 1 .. L + 1 /\ p <= at[m] /\ m # 1
  <2> HIDE DEF L
  <2> QED BY Zenon, <1>6, <1>4, <1>3
<1> DEFINE n == m - 1
<1>8. n \in 1 .. L /\ n \in 1 .. L + 1 /\ n + 1 = m /\ ~(m <= n)
  BY SMT, <1>7, <1>1
<1> HIDE DEF n
<1>9. ~(p <= at[n])
  <2> HIDE DEF L
  <2> QED BY Zenon, <1>6, <1>8
<1>10. at[m] = at[n] + Len(ss[n])
  BY Zenon, <1>8 DEF LaidOut
<1>11. at[n] \in Nat /\ Len(ss[n]) \in Nat
  BY Zenon, <1>1, <1>2, <1>8
<1>12. p - at[n] \in 1 .. Len(ss[n]) /\ p = at[n] + (p - at[n])
  BY SMT, <1>3, <1>7, <1>9, <1>10, <1>11
<1> QED BY Zenon, <1>8, <1>12 DEF InText

------------------------------------------------------------------------------
(* Places in their order *)

LEMMA ImageIsAsMany ==
  ASSUME NEW k \in Nat, NEW q, \A m, n \in 1 .. k : q[m] = q[n] => m = n
  PROVE  IsFiniteSet({q[m] : m \in 1 .. k}) /\ Cardinality({q[m] : m \in 1 .. k}) = k
<1> DEFINE P == {q[m] : m \in 1 .. k}
           g == [m \in 1 .. k |-> q[m]]
<1>1. IsFiniteSet(1 .. k) /\ Cardinality(1 .. k) = k
  BY FS_Interval, SMT
<1>2. g \in Bijection(1 .. k, P)
  BY Zenon DEF Bijection, Injection, Surjection, IsInjective
<1>3. ExistsBijection(1 .. k, P)
  BY Zenon, <1>2 DEF ExistsBijection
<1> HIDE DEF P
<1> QED BY Zenon, <1>1, <1>3, FS_Bijection DEF P

Rising(q, L) ==
  /\ \A n \in 1 .. L : q[n] \in Nat
  /\ \A m, n \in 1 .. L : m < n => q[m] < q[n]

LEMMA RisingIs ==
  ASSUME NEW L \in Nat, NEW q, Rising(q, L)
  PROVE  \A m, n \in 1 .. L : (q[m] = q[n] => m = n) /\ (q[m] < q[n] => m < n)
<1> SUFFICES ASSUME NEW m \in 1 .. L, NEW n \in 1 .. L
             PROVE  (q[m] = q[n] => m = n) /\ (q[m] < q[n] => m < n)
  OBVIOUS
<1>1. q[m] \in Nat /\ q[n] \in Nat /\ (m < n => q[m] < q[n]) /\ (n < m => q[n] < q[m])
  BY Zenon DEF Rising
<1> QED BY SMT, <1>1

LEMMA OrderedIs ==
  ASSUME NEW L \in Nat, NEW q, q = [n \in 1 .. L |-> q[n]], Rising(q, L)
  PROVE  Ordered({q[n] : n \in 1 .. L}) = q
<1> DEFINE P == {q[n] : n \in 1 .. L}
           Rank(i) == Cardinality({j \in P : j < i})
<1>1. Cardinality(P) = L
  <2>1. \A m, n \in 1 .. L : q[m] = q[n] => m = n
    BY Zenon, RisingIs
  <2>2. Cardinality({q[m] : m \in 1 .. L}) = L
    <3> DEFINE k == L
    <3>1. k \in Nat /\ \A m, n \in 1 .. k : q[m] = q[n] => m = n
      BY Zenon, <2>1
    <3> HIDE DEF k
    <3>2. Cardinality({q[m] : m \in 1 .. k}) = k
      BY ZenonT(60), <3>1, ImageIsAsMany
    <3> QED BY Zenon, <3>2 DEF k
  <2>3. P = {q[m] : m \in 1 .. L}
    OBVIOUS
  <2> HIDE DEF P
  <2> QED BY Zenon, <2>2, <2>3
<1>2. ASSUME NEW n \in 1 .. L PROVE Rank(q[n]) = n - 1
  <2>1. n - 1 \in Nat /\ \A m \in 1 .. n - 1 : m \in 1 .. L /\ m < n
    BY SMT
  <2>2. \A m \in 1 .. L : m < n => m \in 1 .. n - 1
    BY SMT
  <2>3. {j \in P : j < q[n]} = {q[m] : m \in 1 .. n - 1}
    <3>1. ASSUME NEW j \in P, j < q[n] PROVE \E m \in 1 .. n - 1 : j = q[m]
      <4>1. PICK m \in 1 .. L : j = q[m]
        BY Zenon
      <4>2. m < n
        BY Zenon, <3>1, <4>1, RisingIs
      <4> QED BY Zenon, <4>1, <4>2, <2>2
    <3>2. ASSUME NEW m \in 1 .. n - 1 PROVE q[m] \in P /\ q[m] < q[n]
      BY Zenon, <2>1 DEF Rising
    <3> HIDE DEF P
    <3> QED BY Zenon, <3>1, <3>2
  <2>4. \A l, m \in 1 .. n - 1 : q[l] = q[m] => l = m
    BY Zenon, <2>1, RisingIs
  <2>5. Cardinality({q[m] : m \in 1 .. n - 1}) = n - 1
    <3> DEFINE k == n - 1
    <3>1. k \in Nat /\ \A l, m \in 1 .. k : q[l] = q[m] => l = m
      BY Zenon, <2>1, <2>4
    <3> HIDE DEF k
    <3>2. Cardinality({q[m] : m \in 1 .. k}) = k
      BY ZenonT(60), <3>1, ImageIsAsMany
    <3> QED BY Zenon, <3>2 DEF k
  <2> QED BY Zenon, <2>3, <2>5
<1>3. ASSUME NEW n \in 1 .. L PROVE (CHOOSE i \in P : Rank(i) = n - 1) = q[n]
  <2>1. q[n] \in P /\ Rank(q[n]) = n - 1
    BY Zenon, <1>2
  <2>2. ASSUME NEW i \in P, Rank(i) = n - 1 PROVE i = q[n]
    <3>1. PICK m \in 1 .. L : i = q[m]
      BY Zenon
    <3>2. m - 1 = n - 1
      <4> HIDE DEF Rank
      <4> QED BY Zenon, <2>2, <3>1, <1>2
    <3>3. m = n
      BY SMT, <3>2
    <3> QED BY Zenon, <3>1, <3>3
  <2> HIDE DEF P, Rank
  <2> QED BY Zenon, <2>1, <2>2
<1>4. Ordered(P) = [n \in 1 .. L |-> CHOOSE i \in P : Rank(i) = n - 1]
  <2> HIDE DEF P
  <2> QED BY Zenon, <1>1 DEF Ordered
<1> HIDE DEF P, Rank
<1>5. Ordered(P) = [n \in 1 .. L |-> q[n]]
  BY Zenon, <1>3, <1>4
<1> QED BY Zenon, <1>5 DEF P

(* Texts with a glue between them: the n-th one begins behind b[n]. *)
Spread(t, ts, glue, b) ==
  LET L == Len(ts)
      w == Len(glue)
      End(n) == b[n] + Len(ts[n])
  IN /\ b[1] = 0 /\ End(L) = Len(t)
     /\ \A n \in 1 .. L :
          /\ b[n] \in Nat /\ End(n) \in Nat /\ End(n) <= Len(t)
          /\ \A i \in 1 .. Len(ts[n]) : t[b[n] + i] = ts[n][i]
     /\ \A n \in 1 .. L - 1 :
          /\ b[n + 1] = End(n) + w
          /\ \A j \in 1 .. w : t[End(n) + j] = glue[j]
     /\ \A m, n \in 1 .. L : m < n => End(m) + w <= b[n]
     /\ \A p \in 1 .. Len(t) :
          \/ \E n \in 1 .. L : \E i \in 1 .. Len(ts[n]) : p = b[n] + i
          \/ \E n \in 1 .. L - 1 : \E j \in 1 .. w : p = End(n) + j

LEMMA ListIs ==
  ASSUME NEW T, NEW n \in Nat, NEW f, f = [i \in 1 .. n |-> f[i]], \A i \in 1 .. n : f[i] \in T
  PROVE  f \in Seq(T) /\ Len(f) = n
<1>1. f \in [1 .. n -> T]
  BY Zenon
<1> QED BY SMT, <1>1

LEMMA JoinedIs ==
  ASSUME NEW S, NEW ts \in Seq(Seq(S)), ts # <<>>, NEW glue \in Seq(S)
  PROVE  Joined(ts, glue) \in Seq(S) /\ \E b : Spread(Joined(ts, glue), ts, glue, b)
<1> DEFINE L == Len(ts)
           w == Len(glue)
           ss == [n \in 1 .. L |-> IF n = 1 THEN ts[n] ELSE glue \o ts[n]]
           t == FlattenSeq(ss)
<1>1. /\ L \in Nat /\ L >= 1 /\ w \in Nat
      /\ \A n \in 1 .. L : ts[n] \in Seq(S) /\ Len(ts[n]) \in Nat
  BY SMT
<1>2. Joined(ts, glue) = t
  BY Zenon DEF Joined
<1>3. \A n \in 1 .. L : n # 1 => Behind(glue \o ts[n], glue, ts[n], S)
  <2> HIDE DEF L
  <2> QED BY Zenon, <1>1, ConcatIs
<1>4. /\ \A n \in 1 .. L : ss[n] \in Seq(S)
      /\ ss[1] = ts[1] /\ \A n \in 1 .. L : n # 1 => ss[n] = glue \o ts[n]
  <2>1. 1 \in 1 .. L
    BY SMT, <1>1
  <2> HIDE DEF L
  <2> QED BY Zenon, <1>1, <1>3, <2>1 DEF Behind
<1>5. ss \in Seq(Seq(S)) /\ Len(ss) = L
  <2>1. ss = [n \in 1 .. L |-> ss[n]]
    OBVIOUS
  <2>2. L \in Nat
    BY <1>1
  <2> HIDE DEF ss, L
  <2> QED BY Zenon, <1>4, <2>1, <2>2, ListIs
<1> HIDE DEF ss, t
<1>6. t \in Seq(S) /\ \E at : LaidOut(t, ss, at)
  BY <1>5, FlatIs DEF t
<1>7. PICK at : LaidOut(t, ss, at)
  BY <1>6
<1> DEFINE b == [n \in 1 .. L |-> IF n = 1 THEN 0 ELSE at[n] + w]
           End(n) == b[n] + Len(ts[n])
<1>8. /\ Len(t) \in Nat /\ at[1] = 0 /\ at[L + 1] = Len(t)
      /\ \A n \in 1 .. L + 1 : at[n] \in Nat
      /\ \A n \in 1 .. L : at[n + 1] = at[n] + Len(ss[n])
      /\ \A n \in 1 .. L : \A i \in 1 .. Len(ss[n]) : t[at[n] + i] = ss[n][i]
  <2>1. Len(t) \in Nat
    BY SMT, <1>6
  <2> HIDE DEF L
  <2> QED BY Zenon, <1>5, <1>7, <2>1 DEF LaidOut
<1>9. \A n \in 1 .. L : n \in 1 .. L + 1 /\ n + 1 \in 1 .. L + 1 /\ n \in Nat
  BY SMT, <1>1
<1>10. \A n \in 1 .. L : /\ b[n] \in Nat /\ b[n] = at[n] + (IF n = 1 THEN 0 ELSE w)
                         /\ Len(ss[n]) = Len(ts[n]) + (IF n = 1 THEN 0 ELSE w)
                         /\ End(n) = at[n + 1]
  <2> SUFFICES ASSUME NEW n \in 1 .. L
               PROVE  /\ b[n] \in Nat /\ b[n] = at[n] + (IF n = 1 THEN 0 ELSE w)
                      /\ Len(ss[n]) = Len(ts[n]) + (IF n = 1 THEN 0 ELSE w)
                      /\ End(n) = at[n + 1]
    BY Zenon
  <2>1. at[n] \in Nat /\ Len(ts[n]) \in Nat /\ at[n + 1] = at[n] + Len(ss[n])
    BY Zenon, <1>1, <1>8, <1>9
  <2>2. CASE n = 1
    <3>1. Len(ss[n]) = Len(ts[n]) /\ at[n] = 0 /\ b[n] = 0
      BY Zenon, <1>4, <1>8, <2>2
    <3> HIDE DEF b
    <3> QED BY SMT, <2>1, <2>2, <3>1
  <2>3. CASE n # 1
    <3>1. Len(ss[n]) = w + Len(ts[n]) /\ b[n] = at[n] + w
      BY Zenon, <1>3, <1>4, <2>3 DEF Behind
    <3> HIDE DEF b
    <3> QED BY SMT, <1>1, <2>1, <2>3, <3>1
  <2> QED BY Zenon, <2>2, <2>3
<1> HIDE DEF b
<1>11. b[1] = 0 /\ End(L) = Len(t)
  <2>1. 1 \in 1 .. L /\ L \in 1 .. L
    BY SMT, <1>1
  <2>2. End(L) = at[L + 1]
    BY Zenon, <1>10, <2>1
  <2>3. b[1] = 0
    BY Zenon, <2>1 DEF b
  <2> QED BY Zenon, <1>8, <2>2, <2>3
<1>12. ASSUME NEW n \in 1 .. L
       PROVE  /\ b[n] \in Nat /\ End(n) \in Nat /\ End(n) <= Len(t)
              /\ \A i \in 1 .. Len(ts[n]) : t[b[n] + i] = ts[n][i]
  <2>1. End(n) \in Nat /\ at[n] \in Nat /\ Len(ts[n]) \in Nat
    BY ZenonT(60), <1>1, <1>8, <1>9, <1>10
  <2>2. End(n) <= Len(t)
    <3>1. CASE n = L
      <4>1. End(n) = Len(t)
        BY Zenon, <1>11, <3>1
      <4> HIDE DEF End
      <4> QED BY SMT, <4>1, <1>8
    <3>2. CASE n # L
      <4>1. n \in 1 .. L + 1 /\ L + 1 \in 1 .. L + 1 /\ n < L + 1
        BY SMT, <1>1
      <4>2. at[n + 1] <= at[L + 1]
        <5> HIDE DEF L
        <5> QED BY Zenon, <4>1, <1>5, <1>6, <1>7, LaidInOrder
      <4> QED BY Zenon, <4>2, <1>8, <1>10
    <3> QED BY Zenon, <3>1, <3>2
  <2>3. ASSUME NEW i \in 1 .. Len(ts[n]) PROVE t[b[n] + i] = ts[n][i]
    <3>1. CASE n = 1
      <4>1. ss[n] = ts[n] /\ b[n] = at[n]
        <5>1. b[n] = 0 /\ at[n] = 0
          BY Zenon, <3>1, <1>8, <1>11
        <5> QED BY Zenon, <5>1, <3>1, <1>4
      <4> QED BY Zenon, <4>1, <1>8
    <3>2. CASE n # 1
      <4>1. Behind(ss[n], glue, ts[n], S) /\ b[n] = at[n] + w /\ Len(ss[n]) = Len(ts[n]) + w
        <5>1. b[n] = at[n] + w
          BY Zenon, <3>2, <1>10
        <5> QED BY Zenon, <5>1, <3>2, <1>3, <1>4, <1>10
      <4>2. w + i \in 1 .. Len(ss[n]) /\ b[n] + i = at[n] + (w + i)
        BY SMTT(30), <1>1, <2>1, <4>1
      <4>3. t[at[n] + (w + i)] = ss[n][w + i]
        BY Zenon, <4>2, <1>8
      <4>4. ss[n][w + i] = ts[n][i]
        BY Zenon, <4>1 DEF Behind
      <4> QED BY Zenon, <4>2, <4>3, <4>4
    <3> QED BY Zenon, <3>1, <3>2
  <2> QED BY Zenon, <1>10, <2>1, <2>2, <2>3
<1>13. ASSUME NEW n \in 1 .. L - 1
       PROVE  /\ b[n + 1] = End(n) + w
              /\ \A j \in 1 .. w : t[End(n) + j] = glue[j]
  <2>1. n \in 1 .. L /\ n + 1 \in 1 .. L /\ n + 1 # 1
    BY SMT, <1>1
  <2>2. End(n) = at[n + 1] /\ b[n + 1] = at[n + 1] + w
    BY Zenon, <2>1, <1>10
  <2>3. Behind(ss[n + 1], glue, ts[n + 1], S) /\ Len(ss[n + 1]) = Len(ts[n + 1]) + w /\ Len(ts[n + 1]) \in Nat
    BY Zenon, <2>1, <1>1, <1>3, <1>4, <1>10
  <2>4. \A j \in 1 .. w : j \in 1 .. Len(ss[n + 1])
    BY SMT, <2>3, <1>1
  <2>5. \A j \in 1 .. w : t[at[n + 1] + j] = glue[j]
    <3>1. \A j \in 1 .. w : t[at[n + 1] + j] = ss[n + 1][j]
      BY Zenon, <2>1, <2>4, <1>8
    <3> QED BY Zenon, <3>1, <2>3 DEF Behind
  <2> QED BY Zenon, <2>2, <2>5
<1>14. ASSUME NEW m \in 1 .. L, NEW n \in 1 .. L, m < n PROVE End(m) + w <= b[n]
  <2>1. m \in 1 .. L + 1 /\ n \in 1 .. L + 1 /\ n # 1
    BY SMT, <1>1, <1>14
  <2>2. at[m + 1] <= at[n]
    <3> HIDE DEF L
    <3> QED BY Zenon, <2>1, <1>14, <1>5, <1>6, <1>7, LaidInOrder
  <2>3. End(m) = at[m + 1] /\ b[n] = at[n] + w
    BY Zenon, <2>1, <1>10
  <2>4. at[m + 1] \in Nat /\ at[n] \in Nat
    BY Zenon, <1>8, <1>9
  <2> HIDE DEF End
  <2> QED BY SMT, <2>2, <2>3, <2>4, <1>1
<1>15. ASSUME NEW p \in 1 .. Len(t)
       PROVE  \/ \E n \in 1 .. L : \E i \in 1 .. Len(ts[n]) : p = b[n] + i
              \/ \E n \in 1 .. L - 1 : \E j \in 1 .. w : p = End(n) + j
  <2>0. PICK n \in 1 .. L : \E i \in 1 .. Len(ss[n]) : p = at[n] + i
    <3>1. InText(p, ss, at)
      BY Zenon, <1>5, <1>6, <1>7, LaidCovers
    <3> HIDE DEF L
    <3> QED BY Zenon, <1>5, <3>1 DEF InText
  <2>1. PICK i \in 1 .. Len(ss[n]) : p = at[n] + i
    BY Zenon, <2>0
  <2>2. at[n] \in Nat /\ Len(ts[n]) \in Nat /\ b[n] \in Nat
    BY Zenon, <1>1, <1>8, <1>9, <1>10
  <2>3. CASE n = 1
    <3>1. b[n] = at[n] /\ Len(ss[n]) = Len(ts[n])
      <4>1. b[n] = 0 /\ at[n] = 0
        BY Zenon, <2>3, <1>8, <1>11
      <4> QED BY Zenon, <4>1, <2>3, <1>4
    <3> QED BY Zenon, <3>1, <2>1
  <2>4. CASE n # 1
    <3>1. b[n] = at[n] + w /\ Len(ss[n]) = Len(ts[n]) + w
      BY Zenon, <2>4, <1>10
    <3>2. CASE i <= w
      <4> DEFINE m == n - 1
      <4>1. m \in 1 .. L - 1 /\ m \in 1 .. L /\ m + 1 = n /\ i \in 1 .. w
        BY SMT, <1>1, <2>4, <3>2
      <4> HIDE DEF m
      <4>2. End(m) = at[n]
        BY Zenon, <1>10, <4>1
      <4> QED BY Zenon, <4>1, <4>2, <2>1
    <3>3. CASE ~(i <= w)
      <4>1. i - w \in 1 .. Len(ts[n]) /\ p = b[n] + (i - w)
        BY SMTT(30), <1>1, <2>1, <2>2, <3>1, <3>3
      <4> QED BY Zenon, <4>1
    <3> QED BY Zenon, <3>2, <3>3
  <2> QED BY Zenon, <2>3, <2>4
<1>16. Spread(t, ts, glue, b)
  BY Zenon, <1>11, <1>12, <1>13, <1>14, <1>15 DEF Spread
<1> QED BY Zenon, <1>2, <1>6, <1>16

(* What was joined comes apart again, where nothing but the glue is taken   *)
(* for a separator.                                                        *)
Joints(ts, b) == {b[n] + Len(ts[n]) + 1 : n \in 1 .. Len(ts) - 1}

LEMMA PiecesOfJoined ==
  ASSUME NEW S, NEW ts \in Seq(Seq(S)), ts # <<>>, NEW glue \in Seq(S), glue # <<>>,
         NEW t \in Seq(S), NEW b, Spread(t, ts, glue, b),
         NEW cuts, cuts = Joints(ts, b)
  PROVE  Pieces(t, cuts, Len(glue)) = ts
<1> DEFINE L == Len(ts)
           w == Len(glue)
           End(n) == b[n] + Len(ts[n])
           q == [n \in 1 .. L |-> End(n) + 1]
<1>1. /\ L \in Nat /\ L >= 1 /\ w \in Nat /\ w >= 1 /\ Len(t) \in Nat
      /\ \A n \in 1 .. L : ts[n] \in Seq(S) /\ Len(ts[n]) \in Nat
  BY SMT
<1>2. /\ b[1] = 0 /\ End(L) = Len(t)
      /\ \A n \in 1 .. L :
          /\ b[n] \in Nat /\ End(n) \in Nat /\ End(n) <= Len(t)
          /\ \A i \in 1 .. Len(ts[n]) : t[b[n] + i] = ts[n][i]
      /\ \A n \in 1 .. L - 1 : b[n + 1] = End(n) + w
      /\ \A m, n \in 1 .. L : m < n => End(m) + w <= b[n]
  BY Zenon DEF Spread
<1>3. Rising(q, L)
  <2>1. ASSUME NEW n \in 1 .. L PROVE q[n] \in Nat
    <3>1. End(n) \in Nat /\ q[n] = End(n) + 1
      BY Zenon, <1>2
    <3> HIDE DEF q, End
    <3> QED BY SMT, <3>1
  <2>2. ASSUME NEW m \in 1 .. L, NEW n \in 1 .. L, m < n PROVE q[m] < q[n]
    <3>1. q[m] = End(m) + 1 /\ q[n] = End(n) + 1 /\ End(n) = b[n] + Len(ts[n])
      BY Zenon
    <3>2. End(m) \in Nat /\ b[n] \in Nat /\ Len(ts[n]) \in Nat /\ End(m) + w <= b[n]
      BY Zenon, <1>1, <1>2, <2>2
    <3> HIDE DEF q, End
    <3> QED BY SMTT(30), <1>1, <3>1, <3>2
  <2> HIDE DEF q, L
  <2> QED BY Zenon, <2>1, <2>2 DEF Rising
<1>4. {q[n] : n \in 1 .. L} = cuts \cup {Len(t) + 1}
  <2>1. \A n \in 1 .. L : n \in 1 .. L - 1 \/ n = L
    BY SMT, <1>1
  <2>2. \A n \in 1 .. L - 1 : n \in 1 .. L
    BY SMT, <1>1
  <2>3. L \in 1 .. L /\ q[L] = Len(t) + 1
    <3>1. L \in 1 .. L
      BY SMT, <1>1
    <3> QED BY Zenon, <3>1, <1>2
  <2>4. cuts = {End(n) + 1 : n \in 1 .. L - 1}
    BY Zenon DEF Joints
  <2>5. \A n \in 1 .. L : q[n] = End(n) + 1
    BY Zenon
  <2> HIDE DEF q, End, L
  <2>6. cuts = {q[n] : n \in 1 .. L - 1}
    BY Zenon, <2>2, <2>4, <2>5
  <2> QED BY Zenon, <2>1, <2>2, <2>3, <2>6
<1>5. Ordered(cuts \cup {Len(t) + 1}) = q
  <2>1. q = [n \in 1 .. L |-> q[n]]
    BY Zenon
  <2>2. L \in Nat
    BY <1>1
  <2> HIDE DEF q, L
  <2>3. Ordered({q[n] : n \in 1 .. L}) = q
    BY Zenon, <2>1, <2>2, <1>3, OrderedIs
  <2> QED BY Zenon, <2>3, <1>4
<1>6. Len(q) = L
  BY SMT, <1>1
<1>7. ASSUME NEW n \in 1 .. L
      PROVE  SubSeq(t, IF n = 1 THEN 1 ELSE q[n - 1] + w, q[n] - 1) = ts[n]
  <2>1. b[n] \in Nat /\ End(n) \in Nat /\ End(n) <= Len(t) /\ Len(ts[n]) \in Nat /\ q[n] = End(n) + 1
    BY Zenon, <1>1, <1>2
  <2>2. (IF n = 1 THEN 1 ELSE q[n - 1] + w) = b[n] + 1
    <3>1. CASE n = 1
      BY SMT, <3>1, <1>2
    <3>2. CASE n # 1
      <4> DEFINE m == n - 1
      <4>1. m \in 1 .. L - 1 /\ m \in 1 .. L /\ m + 1 = n
        BY SMT, <1>1, <3>2
      <4>2. b[n] = End(m) + w /\ q[m] = End(m) + 1 /\ End(m) \in Nat
        <5> HIDE DEF m
        <5> QED BY Zenon, <1>2, <4>1
      <4> HIDE DEF End, q
      <4>3. q[m] + w = b[n] + 1
        BY SMT, <1>1, <4>2
      <4> QED BY Zenon, <3>2, <4>3
    <3> QED BY Zenon, <3>1, <3>2
  <2>3. q[n] - 1 = End(n)
    <3> HIDE DEF q, End
    <3> QED BY SMT, <2>1
  <2> DEFINE lo == b[n]
             hi == End(n)
  <2>4. lo \in Nat /\ hi \in Nat /\ lo <= hi /\ hi <= Len(t) /\ hi - lo = Len(ts[n])
    <3>1. End(n) = b[n] + Len(ts[n])
      BY Zenon
    <3> HIDE DEF End
    <3> QED BY SMT, <1>1, <2>1, <3>1
  <2>5. \A i \in 1 .. Len(ts[n]) : t[lo + i] = ts[n][i]
    BY Zenon, <1>2
  <2>6. SubSeq(t, lo + 1, hi) = ts[n]
    <3> HIDE DEF lo, hi
    <3>1. /\ SubSeq(t, lo + 1, hi) \in Seq(S) /\ Len(SubSeq(t, lo + 1, hi)) = hi - lo
          /\ \A i \in 1 .. (hi - lo) : SubSeq(t, lo + 1, hi)[i] = t[lo + i]
      BY Zenon, <2>4, CutIs
    <3>2. \A i \in 1 .. Len(SubSeq(t, lo + 1, hi)) : SubSeq(t, lo + 1, hi)[i] = ts[n][i]
      BY Zenon, <3>1, <2>4, <2>5
    <3> QED BY Zenon, <3>1, <3>2, <2>4, <1>1, SeqEqual
  <2> QED BY Zenon, <2>2, <2>3, <2>6
<1>8. Pieces(t, cuts, w) =
        [n \in 1 .. L |-> SubSeq(t, IF n = 1 THEN 1 ELSE q[n - 1] + w, q[n] - 1)]
  <2> HIDE DEF q, L
  <2> QED BY Zenon, <1>5, <1>6 DEF Pieces
<1>9. ts = [n \in 1 .. L |-> ts[n]]
  BY SMT
<1> HIDE DEF q, L, w
<1>10. Pieces(t, cuts, w) = ts
  BY Zenon, <1>7, <1>8, <1>9
<1> QED BY Zenon, <1>10 DEF w

------------------------------------------------------------------------------
(* Percent encoding *)

(* What stands for a byte, and the bytes that may stand there *)
Token(c) == IF rune_url_safe(c) THEN <<c>> ELSE <<Percent, Hex(c \div 16), Hex(c % 16)>>
Tokens(text) == [i \in 1 .. Len(text) |-> Token(text[i])]
Codes == Digits \cup SafeList \cup {Percent}

LEMMA CodesAre ==
  /\ Codes \subseteq Octets
  /\ \A c \in {Amp, Equals, Hash, Question, Slash, Colon, At, Semicolon} : c \notin Codes
<1>1. \A c \in Codes : c \in Octets
  BY SMT DEF Codes, Digits, SafeList, Percent, Octets
<1>2. \A c \in {Amp, Equals, Hash, Question, Slash, Colon, At, Semicolon} : c \notin Codes
  BY SMT DEF Codes, Digits, SafeList, Percent, Amp, Equals, Hash, Question, Slash, Colon, At, Semicolon
<1> QED BY Zenon, <1>1, <1>2

LEMMA HexIs ==
  ASSUME NEW n \in 0 .. 15
  PROVE  Hex(n) \in Digits /\ HexValue(Hex(n)) = n
<1>1. n \in Nat /\ n <= 15
  BY SMT
<1>2. Hex(n) = IF n < 10 THEN 48 + n ELSE 55 + n
  BY DEF Hex
<1>3. Hex(n) \in Digits
  BY SMT, <1>1, <1>2 DEF Digits
<1>4. \A m \in 0 .. 15 : (Hex(n) = Hex(m) \/ (m > 9 /\ Hex(n) = Hex(m) + 32)) <=> m = n
  BY SMT, <1>1 DEF Hex
<1> DEFINE values == {m \in 0 .. 15 : Hex(n) = Hex(m) \/ (m > 9 /\ Hex(n) = Hex(m) + 32)}
<1>5. n \in values /\ \A m \in values : m = n
  BY Zenon, <1>4
<1>6. HexValue(Hex(n)) = IF values = {} THEN 16 ELSE CHOOSE m \in values : TRUE
  BY Zenon DEF HexValue
<1> HIDE DEF values
<1>7. HexValue(Hex(n)) = n
  BY Zenon, <1>5, <1>6
<1> QED BY <1>3, <1>7

LEMMA Halves ==
  ASSUME NEW c \in Octets
  PROVE  c \div 16 \in 0 .. 15 /\ c % 16 \in 0 .. 15 /\ 16 * (c \div 16) + (c % 16) = c
BY SMT DEF Octets

LEMMA TokenIs ==
  ASSUME NEW c \in Octets
  PROVE  /\ Token(c) \in Seq(Codes)
         /\ rune_url_safe(c) => Token(c) = <<c>> /\ Len(Token(c)) = 1 /\ c # Percent
         /\ ~rune_url_safe(c) =>
              /\ Token(c) = <<Percent, Hex(c \div 16), Hex(c % 16)>> /\ Len(Token(c)) = 3
              /\ HexValue(Hex(c \div 16)) = c \div 16 /\ HexValue(Hex(c % 16)) = c % 16
<1>1. CASE rune_url_safe(c)
  <2>1. c \in Codes /\ c # Percent
    BY SMT, <1>1 DEF rune_url_safe, Codes, Digits, SafeList, Percent
  <2>2. Token(c) = <<c>>
    BY <1>1 DEF Token
  <2>3. <<c>> \in Seq(Codes) /\ Len(<<c>>) = 1
    BY SMT, <2>1
  <2> QED BY Zenon, <1>1, <2>1, <2>2, <2>3
<1>2. CASE ~rune_url_safe(c)
  <2>1. Token(c) = <<Percent, Hex(c \div 16), Hex(c % 16)>>
    BY Zenon, <1>2 DEF Token
  <2> DEFINE a == c \div 16
             b == c % 16
  <2>2. a \in 0 .. 15 /\ b \in 0 .. 15
    BY Zenon, Halves
  <2> HIDE DEF a, b
  <2>3. Hex(a) \in Codes /\ HexValue(Hex(a)) = a /\ Hex(b) \in Codes /\ HexValue(Hex(b)) = b /\ Percent \in Codes
    BY Zenon, <2>2, HexIs DEF Codes
  <2>4. <<Percent, Hex(a), Hex(b)>> \in Seq(Codes) /\ Len(<<Percent, Hex(a), Hex(b)>>) = 3
    BY SMT, <2>3
  <2> QED BY Zenon, <1>2, <2>1, <2>3, <2>4 DEF a, b
<1> QED BY Zenon, <1>1, <1>2

LEMMA EncodeIs ==
  ASSUME NEW text \in Seq(Octets)
  PROVE  /\ encode(text) \in Seq(Codes)
         /\ Tokens(text) \in Seq(Seq(Codes)) /\ Len(Tokens(text)) = Len(text)
         /\ \E at : LaidOut(encode(text), Tokens(text), at)
<1>1. Len(text) \in Nat /\ \A i \in 1 .. Len(text) : text[i] \in Octets
  BY SMT
<1>2. \A i \in 1 .. Len(text) : Tokens(text)[i] = Token(text[i])
  BY Zenon DEF Tokens
<1>3. Tokens(text) \in Seq(Seq(Codes)) /\ Len(Tokens(text)) = Len(text)
  <2>1. \A i \in 1 .. Len(text) : Tokens(text)[i] \in Seq(Codes)
    BY Zenon, <1>1, <1>2, TokenIs
  <2>2. Tokens(text) = [i \in 1 .. Len(text) |-> Tokens(text)[i]]
    BY Zenon, <1>2 DEF Tokens
  <2> QED BY Zenon, <1>1, <2>1, <2>2, ListIs
<1>4. encode(text) = FlattenSeq(Tokens(text))
  BY Zenon DEF encode, Tokens, Token
<1> QED BY Zenon, <1>3, <1>4, FlatIs

(* decode() builds its text from the end. *)
DecodedAt(f, text, i) ==
  IF i > Len(text) THEN <<>>
  ELSE IF text[i] = Percent THEN <<stoi16(From(text, i + 1))>> \o f[i + 3]
  ELSE <<text[i]>> \o f[i + 1]

LEMMA DecodedExists ==
  ASSUME NEW S, NEW text \in Seq(S)
  PROVE  \E f : f = [i \in 1 .. Len(text) + 3 |-> DecodedAt(f, text, i)]
<1> DEFINE M == Len(text) + 3
           Ok(f, d) == f = [i \in (M + 1) - d .. M |-> DecodedAt(f, text, i)]
           N == {d \in Nat : \E f : Ok(f, d)}
<1>1. Len(text) \in Nat /\ M \in Nat
  BY SMT
<1>2. 0 \in N
  <2>1. (M + 1) - 0 .. M = {}
    BY SMT, <1>1
  <2> HIDE DEF M
  <2> DEFINE f == [i \in {} |-> <<>>]
  <2>2. f = [i \in (M + 1) - 0 .. M |-> DecodedAt(f, text, i)]
    BY Zenon, <2>1
  <2>3. 0 \in Nat
    BY SMT
  <2> HIDE DEF f
  <2> QED BY Zenon, <2>2, <2>3
<1>3. ASSUME NEW d \in Nat, d \in N PROVE d + 1 \in N
  <2>1. PICK f : Ok(f, d)
    BY Zenon, <1>3
  <2> DEFINE lo == (M + 1) - d
             next == (M + 1) - (d + 1)
             g == [i \in next .. M |-> DecodedAt(f, text, i)]
  <2>2. \A i \in lo .. M : i \in next .. M
    BY SMT, <1>1
  <2>3. \A i \in lo .. M : g[i] = f[i]
    <3> HIDE DEF lo, next, M
    <3>1. \A i \in lo .. M : f[i] = DecodedAt(f, text, i)
      BY Zenon, <2>1 DEF lo
    <3> QED BY Zenon, <2>2, <3>1
  <2>4. \A i \in next .. M : ~(i > Len(text)) => i + 1 \in lo .. M /\ i + 3 \in lo .. M
    BY SMT, <1>1
  <2> HIDE DEF g, lo, next, M
  <2>5. \A i \in next .. M : DecodedAt(g, text, i) = DecodedAt(f, text, i)
    BY Zenon, <2>3, <2>4 DEF DecodedAt
  <2>6. g = [i \in next .. M |-> DecodedAt(g, text, i)]
    BY Zenon, <2>5 DEF g
  <2>7. d + 1 \in Nat
    BY SMT
  <2> QED BY Zenon, <2>6, <2>7 DEF next
<1> HIDE DEF N
<1>4. \A d \in Nat : d \in N
  BY Zenon, <1>2, <1>3, Induct
<1>5. M \in N /\ (M + 1) - M = 1
  BY SMT, <1>1, <1>4
<1>6. PICK f : Ok(f, M)
  BY Zenon, <1>5 DEF N
<1> HIDE DEF M
<1>7. f = [i \in 1 .. M |-> DecodedAt(f, text, i)]
  BY Zenon, <1>5, <1>6
<1> QED BY Zenon, <1>7 DEF M

(* decode() as it is unrolled *)
Unrolled(f, text) ==
  /\ decode(text) = f[1]
  /\ \A i \in 1 .. Len(text) + 3 : f[i] = DecodedAt(f, text, i)

LEMMA DecodeIs ==
  ASSUME NEW S, NEW text \in Seq(S)
  PROVE  \E f : Unrolled(f, text)
<1>1. \E f : f = [i \in 1 .. Len(text) + 3 |-> DecodedAt(f, text, i)]
  BY Zenon, DecodedExists
<1>2. \E f : /\ f = [i \in 1 .. Len(text) + 3 |-> DecodedAt(f, text, i)]
             /\ decode(text) = f[1]
  BY Zenon, <1>1 DEF decode, DecodedAt
<1> QED BY Zenon, <1>2 DEF Unrolled

(* Bytes, and the mark of an escape that throws *)
Decodable == 0 .. 256

LEMMA HexValueIs == \A c : HexValue(c) \in 0 .. 16
<1> SUFFICES ASSUME NEW c PROVE HexValue(c) \in 0 .. 16
  OBVIOUS
<1> DEFINE values == {m \in 0 .. 15 : c = Hex(m) \/ (m > 9 /\ c = Hex(m) + 32)}
<1>1. HexValue(c) = IF values = {} THEN 16 ELSE CHOOSE m \in values : TRUE
  BY Zenon DEF HexValue
<1>2. \A m \in values : m \in 0 .. 16
  BY SMT
<1>3. 16 \in 0 .. 16
  BY SMT
<1> HIDE DEF values
<1> QED BY Zenon, <1>1, <1>2, <1>3

LEMMA StoiIs == \A text : stoi16(text) \in Decodable
<1> SUFFICES ASSUME NEW text PROVE stoi16(text) \in Decodable
  OBVIOUS
<1> DEFINE a == IF Len(text) > 0 THEN HexValue(text[1]) ELSE 16
           b == IF Len(text) > 1 THEN HexValue(text[2]) ELSE 16
<1>1. a \in 0 .. 16 /\ b \in 0 .. 16
  <2>1. 16 \in 0 .. 16
    BY SMT
  <2> QED BY Zenon, <2>1, HexValueIs
<1>2. \/ stoi16(text) = 16 * a + b /\ a < 16 /\ b < 16
      \/ stoi16(text) = a /\ a < 16
      \/ stoi16(text) = Throws
      \/ stoi16(text) = b
      \/ stoi16(text) = (256 - b) % 256
  BY Zenon DEF stoi16
<1> HIDE DEF a, b
<1>3. /\ a < 16 /\ b < 16 => 16 * a + b \in Decodable
      /\ a \in Decodable /\ b \in Decodable /\ (256 - b) % 256 \in Decodable /\ Throws \in Decodable
  BY SMT, <1>1 DEF Decodable, Throws
<1> QED BY ZenonT(60), <1>2, <1>3

LEMMA Preceded ==
  ASSUME NEW S, NEW c \in S, NEW s \in Seq(S)
  PROVE  <<c>> \o s \in Seq(S)
BY SMT

LEMMA DecodeType ==
  ASSUME NEW text \in Seq(Octets)
  PROVE  decode(text) \in Seq(Decodable)
<1>1. PICK f : Unrolled(f, text)
  BY Zenon, DecodeIs
<1> DEFINE M == Len(text) + 3
           N == {d \in Nat : \A i \in 1 .. M : i + d >= M - 2 => f[i] \in Seq(Decodable)}
<1>2. Len(text) \in Nat
  BY SMT
<1>3. <<>> \in Seq(Decodable)
  BY SMT
<1>4. \A i \in 1 .. M : i > Len(text) => f[i] \in Seq(Decodable)
  BY Zenon, <1>1, <1>3 DEF Unrolled, DecodedAt
<1>5. 0 \in N
  <2>1. \A i \in 1 .. M : i + 0 >= M - 2 => i > Len(text)
    BY SMT, <1>2
  <2>2. 0 \in Nat
    BY SMT
  <2> HIDE DEF M
  <2> QED BY Zenon, <1>4, <2>1, <2>2
<1>6. ASSUME NEW d \in Nat, d \in N PROVE d + 1 \in N
  <2>1. d + 1 \in Nat
    BY SMT
  <2> SUFFICES ASSUME NEW i \in 1 .. M, i + (d + 1) >= M - 2 PROVE f[i] \in Seq(Decodable)
    BY Zenon, <2>1
  <2>2. CASE i > Len(text)
    BY Zenon, <2>2, <1>4
  <2>3. CASE ~(i > Len(text))
    <3>1. /\ i + 1 \in 1 .. M /\ (i + 1) + d >= M - 2
          /\ i + 3 \in 1 .. M /\ (i + 3) + d >= M - 2
      BY SMT, <1>2, <2>3
    <3>2. f[i + 1] \in Seq(Decodable) /\ f[i + 3] \in Seq(Decodable)
      <4> HIDE DEF M
      <4> QED BY Zenon, <1>6, <3>1
    <3>3. text[i] \in Decodable
      <4>1. i \in 1 .. Len(text)
        BY SMT, <1>2, <2>3
      <4>2. text[i] \in Octets
        BY SMT, <4>1
      <4> HIDE DEF M
      <4> QED BY SMT, <4>2 DEF Octets, Decodable
    <3>4. f[i] = IF text[i] = Percent THEN <<stoi16(From(text, i + 1))>> \o f[i + 3]
                 ELSE <<text[i]>> \o f[i + 1]
      BY Zenon, <1>1, <2>3 DEF Unrolled, DecodedAt
    <3>5. <<stoi16(From(text, i + 1))>> \o f[i + 3] \in Seq(Decodable)
      BY Zenon, <3>2, StoiIs, Preceded
    <3>6. <<text[i]>> \o f[i + 1] \in Seq(Decodable)
      BY Zenon, <3>2, <3>3, Preceded
    <3> QED BY Zenon, <3>4, <3>5, <3>6
  <2> QED BY Zenon, <2>2, <2>3
<1> HIDE DEF N
<1>7. \A d \in Nat : d \in N
  BY Zenon, <1>5, <1>6, Induct
<1>8. M \in N /\ 1 \in 1 .. M /\ 1 + M >= M - 2
  BY SMT, <1>2, <1>7
<1>9. f[1] \in Seq(Decodable)
  <2> HIDE DEF M
  <2> QED BY Zenon, <1>8 DEF N
<1> QED BY Zenon, <1>1, <1>9 DEF Unrolled

LEMMA EscapeRead ==
  ASSUME NEW S, NEW t \in Seq(S), NEW p \in Nat, NEW c \in Octets, p + 3 <= Len(t),
         t[p + 2] = Hex(c \div 16), t[p + 3] = Hex(c % 16)
  PROVE  stoi16(From(t, (p + 1) + 1)) = c
<1> DEFINE u == From(t, (p + 1) + 1)
<1>1. Len(u) > 1 /\ u[1] = t[p + 2] /\ u[2] = t[p + 3]
  BY SMT DEF From
<1>2. Len(u) > 0
  BY SMT, <1>1
<1> HIDE DEF u
<1> DEFINE a == c \div 16
           b == c % 16
<1>3. a \in 0 .. 15 /\ b \in 0 .. 15 /\ 16 * a + b = c
  BY Zenon, Halves
<1>4. HexValue(u[1]) = a /\ HexValue(u[2]) = b
  <2>1. u[1] = Hex(a) /\ u[2] = Hex(b)
    BY Zenon, <1>1
  <2> HIDE DEF a, b
  <2> QED BY Zenon, <1>3, <2>1, HexIs
<1> HIDE DEF a, b
<1>5. a < 16 /\ b < 16
  BY SMT, <1>3
<1>6. stoi16(u) = 16 * a + b
  BY Zenon, <1>1, <1>2, <1>4, <1>5 DEF stoi16
<1> QED BY Zenon, <1>3, <1>6 DEF u

LEMMA SuffixGrows ==
  ASSUME NEW S, NEW text \in Seq(S), NEW n \in 1 .. Len(text)
  PROVE  <<text[n]>> \o From(text, n + 1) = From(text, n)
<1> DEFINE a == <<text[n]>> \o From(text, n + 1)
           b == From(text, n)
<1>1. a \in Seq(S) /\ b \in Seq(S) /\ Len(a) = Len(b)
  BY SMT DEF From
<1>2. \A i \in 1 .. Len(a) : a[i] = b[i]
  BY SMT DEF From
<1> HIDE DEF a, b
<1>3. a = b
  BY Zenon, <1>1, <1>2, SeqEqual
<1> QED BY Zenon, <1>3 DEF a, b

(* What is encoded is decoded, whatever bytes it holds. *)
THEOREM PercentReadsBack ==
  ASSUME NEW text \in Seq(Octets)
  PROVE  decode(encode(text)) = text
<1> DEFINE t == encode(text)
           L == Len(text)
           ss == Tokens(text)
<1>1. /\ t \in Seq(Codes) /\ ss \in Seq(Seq(Codes)) /\ Len(ss) = L
      /\ \E at : LaidOut(t, ss, at)
  BY Zenon, EncodeIs
<1>2. \A i \in 1 .. L : ss[i] = Token(text[i]) /\ text[i] \in Octets
  BY DEF Tokens
<1>3. L \in Nat
  BY SMT
<1> HIDE DEF t, ss, L
<1>4. PICK at : LaidOut(t, ss, at)
  BY Zenon, <1>1
<1>5. PICK f : Unrolled(f, t)
  BY Zenon, <1>1, DecodeIs
<1>6. /\ Len(t) \in Nat /\ at[1] = 0 /\ at[L + 1] = Len(t)
      /\ \A n \in 1 .. L + 1 : at[n] \in Nat
      /\ \A n \in 1 .. L : /\ at[n + 1] = at[n] + Len(ss[n])
                           /\ \A i \in 1 .. Len(ss[n]) : t[at[n] + i] = ss[n][i]
  <2>1. Len(t) \in Nat
    BY SMT, <1>1
  <2> QED BY Zenon, <2>1, <1>1, <1>4 DEF LaidOut
<1>7. \A n \in 1 .. L + 1 : at[n] <= Len(t)
  <2> SUFFICES ASSUME NEW n \in 1 .. L + 1 PROVE at[n] <= Len(t)
    OBVIOUS
  <2>1. CASE n = L + 1
    BY SMT, <2>1, <1>6
  <2>2. CASE n # L + 1
    <3>1. n \in 1 .. L /\ n < L + 1 /\ L + 1 \in 1 .. L + 1
      BY SMT, <2>2, <1>3
    <3>2. at[n + 1] <= at[L + 1]
      BY Zenon, <3>1, <1>1, <1>4, LaidInOrder
    <3>3. at[n + 1] = at[n] + Len(ss[n]) /\ Len(ss[n]) \in Nat /\ at[n] \in Nat
      <4>1. Len(ss[n]) \in Nat
        BY SMT, <3>1, <1>1
      <4> QED BY Zenon, <4>1, <3>1, <1>6
    <3> QED BY SMT, <3>2, <3>3, <1>6
  <2> QED BY Zenon, <2>1, <2>2
<1> DEFINE Read(n) == f[at[n] + 1] = From(text, n)
           N == {d \in Nat : \A n \in 1 .. L + 1 : n + d = L + 1 => Read(n)}
<1>8. 0 \in N
  <2>1. 0 \in Nat /\ L + 1 \in 1 .. L + 1 /\ \A n \in 1 .. L + 1 : n + 0 = L + 1 => n = L + 1
    BY SMT, <1>3
  <2>2. at[L + 1] + 1 > Len(t) /\ at[L + 1] + 1 \in 1 .. Len(t) + 3
    BY SMT, <1>6
  <2>3. f[at[L + 1] + 1] = <<>>
    BY Zenon, <2>2, <1>5 DEF Unrolled, DecodedAt
  <2>4. From(text, L + 1) = <<>>
    BY SMT, <1>3 DEF From, L
  <2> QED BY Zenon, <2>1, <2>3, <2>4
<1>9. ASSUME NEW d \in Nat, d \in N PROVE d + 1 \in N
  <2>1. d + 1 \in Nat
    BY SMT
  <2> SUFFICES ASSUME NEW n \in 1 .. L + 1, n + (d + 1) = L + 1 PROVE Read(n)
    <3> HIDE DEF Read
    <3> QED BY Zenon, <2>1
  <2>2. n \in 1 .. L /\ n + 1 \in 1 .. L + 1 /\ (n + 1) + d = L + 1
    BY SMT, <1>3
  <2>3. Read(n + 1)
    <3> HIDE DEF Read
    <3> QED BY Zenon, <1>9, <2>2
  <2> DEFINE p == at[n]
             c == text[n]
  <2>4. /\ p \in Nat /\ c \in Octets /\ ss[n] = Token(c) /\ at[n + 1] = p + Len(Token(c))
        /\ at[n + 1] <= Len(t) /\ \A i \in 1 .. Len(Token(c)) : t[p + i] = Token(c)[i]
    BY Zenon, <2>2, <1>2, <1>6, <1>7
  <2>5. <<c>> \o From(text, n + 1) = From(text, n)
    BY Zenon, <2>2, SuffixGrows DEF L
  <2>6. f[at[n + 1] + 1] = From(text, n + 1)
    BY Zenon, <2>3
  <2> SUFFICES f[p + 1] = <<c>> \o f[at[n + 1] + 1]
    BY Zenon, <2>5, <2>6
  <2> HIDE DEF p, c, Read, N
  <2>7. CASE rune_url_safe(c)
    <3>1. Token(c) = <<c>> /\ Len(Token(c)) = 1 /\ c # Percent
      BY Zenon, <2>4, <2>7, TokenIs
    <3>2. 1 \in 1 .. 1 /\ <<c>>[1] = c
      BY SMT
    <3>3. t[p + 1] = c /\ at[n + 1] = p + 1
      BY Zenon, <2>4, <3>1, <3>2
    <3>4. p + 1 \in 1 .. Len(t) + 3 /\ ~(p + 1 > Len(t)) /\ (p + 1) + 1 = at[n + 1] + 1
      BY SMT, <1>6, <2>4, <3>3
    <3>5. f[p + 1] = <<c>> \o f[(p + 1) + 1]
      BY Zenon, <3>1, <3>3, <3>4, <1>5 DEF Unrolled, DecodedAt
    <3> QED BY Zenon, <3>4, <3>5
  <2>8. CASE ~rune_url_safe(c)
    <3>1. Token(c) = <<Percent, Hex(c \div 16), Hex(c % 16)>> /\ Len(Token(c)) = 3
      BY Zenon, <2>4, <2>8, TokenIs
    <3>2. 1 \in 1 .. 3 /\ 2 \in 1 .. 3 /\ 3 \in 1 .. 3
      BY SMT
    <3>3. Token(c)[1] = Percent /\ Token(c)[2] = Hex(c \div 16) /\ Token(c)[3] = Hex(c % 16)
      BY SMT, <3>1
    <3>4. t[p + 1] = Percent /\ t[p + 2] = Hex(c \div 16) /\ t[p + 3] = Hex(c % 16) /\ at[n + 1] = p + 3
      BY Zenon, <2>4, <3>1, <3>2, <3>3
    <3>5. /\ p + 1 \in 1 .. Len(t) + 3 /\ ~(p + 1 > Len(t)) /\ (p + 1) + 3 = at[n + 1] + 1
          /\ p + 3 <= Len(t)
      BY SMT, <1>6, <2>4, <3>4
    <3>6. stoi16(From(t, (p + 1) + 1)) = c
      BY Zenon, <1>1, <2>4, <3>4, <3>5, EscapeRead
    <3>7. f[p + 1] = <<stoi16(From(t, (p + 1) + 1))>> \o f[(p + 1) + 3]
      BY Zenon, <3>4, <3>5, <1>5 DEF Unrolled, DecodedAt
    <3> QED BY Zenon, <3>5, <3>6, <3>7
  <2> QED BY Zenon, <2>7, <2>8
<1> HIDE DEF N, Read
<1>10. \A d \in Nat : d \in N
  BY Zenon, <1>8, <1>9, Induct
<1>11. L \in N /\ 1 \in 1 .. L + 1 /\ 1 + L = L + 1
  BY SMT, <1>3, <1>10
<1>12. Read(1)
  BY Zenon, <1>11 DEF N
<1>13. From(text, 1) = text
  BY SMT DEF From
<1>14. decode(t) = f[0 + 1] /\ at[1] + 1 = 0 + 1 /\ 0 + 1 = 1
  BY SMT, <1>5, <1>6 DEF Unrolled
<1>15. decode(t) = text
  BY Zenon, <1>12, <1>13, <1>14 DEF Read
<1> QED BY Zenon, <1>15 DEF t

------------------------------------------------------------------------------
(* The order of names *)

LEMMA OctetsAre ==
  /\ Octets \subseteq Nat
  /\ \A t \in Seq(Octets) : Len(t) \in Nat /\ \A i \in 1 .. Len(t) : t[i] \in Octets /\ t[i] \in Nat
<1>1. \A c \in Octets : c \in Nat
  BY SMT DEF Octets
<1>2. \A t \in Seq(Octets) : Len(t) \in Nat /\ \A i \in 1 .. Len(t) : t[i] \in Octets
  BY SMT
<1> QED BY Zenon, <1>1, <1>2

(* a comes before b, and where they part *)
Parts(a, b, n) ==
  /\ n \in Nat /\ n <= Len(a) /\ n < Len(b)
  /\ \A i \in 1 .. n : a[i] = b[i]
  /\ n = Len(a) \/ a[n + 1] < b[n + 1]

LEMMA HeadsAgree ==
  ASSUME NEW a \in Seq(Octets), NEW b \in Seq(Octets), NEW n \in Nat, n <= Len(a), n <= Len(b)
  PROVE  SubSeq(a, 1, n) = SubSeq(b, 1, n) <=> \A i \in 1 .. n : a[i] = b[i]
<1> DEFINE s == SubSeq(a, 1, n)
           t == SubSeq(b, 1, n)
<1>1. /\ s \in Seq(Octets) /\ t \in Seq(Octets) /\ Len(s) = n /\ Len(t) = n
      /\ \A i \in 1 .. n : s[i] = a[i] /\ t[i] = b[i]
  BY SMT
<1> HIDE DEF s, t
<1>2. s = t <=> \A i \in 1 .. n : s[i] = t[i]
  BY Zenon, <1>1, SeqEqual
<1>3. s = t <=> \A i \in 1 .. n : a[i] = b[i]
  BY Zenon, <1>1, <1>2
<1> QED BY Zenon, <1>3 DEF s, t

LEMMA BeforeIs ==
  ASSUME NEW a \in Seq(Octets), NEW b \in Seq(Octets)
  PROVE  Before(a, b) <=> \E n : Parts(a, b, n)
<1>1. Len(a) \in Nat /\ Len(b) \in Nat
  BY SMT
<1>2. \A n : n \in 0 .. Len(a) /\ n < Len(b) <=> n \in Nat /\ n <= Len(a) /\ n < Len(b)
  BY SMT, <1>1
<1>3. \A n \in Nat : n < Len(b) => n <= Len(b)
  BY SMT, <1>1
<1>4. \A n \in Nat : n <= Len(a) /\ n < Len(b) =>
        (SubSeq(a, 1, n) = SubSeq(b, 1, n) <=> \A i \in 1 .. n : a[i] = b[i])
  BY Zenon, <1>3, HeadsAgree
<1>5. \A n : (n \in 0 .. Len(a) /\ n < Len(b) /\ SubSeq(a, 1, n) = SubSeq(b, 1, n)
              /\ (n = Len(a) \/ a[n + 1] < b[n + 1])) <=> Parts(a, b, n)
  BY Zenon, <1>2, <1>4 DEF Parts
<1>6. Before(a, b) => \E n : Parts(a, b, n)
  BY Zenon, <1>5 DEF Before
<1>7. (\E n : Parts(a, b, n)) => Before(a, b)
  BY Zenon, <1>5 DEF Before
<1> QED BY Zenon, <1>6, <1>7

LEMMA BeforeIrreflexive == \A a \in Seq(Octets) : ~Before(a, a)
<1> SUFFICES ASSUME NEW a \in Seq(Octets), NEW n, Parts(a, a, n) PROVE FALSE
  BY Zenon, BeforeIs
<1>1. Len(a) \in Nat /\ n \in Nat /\ n < Len(a) /\ (n = Len(a) \/ a[n + 1] < a[n + 1])
  BY DEF Parts
<1>2. n + 1 \in 1 .. Len(a) /\ n # Len(a)
  BY SMT, <1>1
<1>3. a[n + 1] \in Nat
  BY Zenon, <1>2, OctetsAre
<1>4. ~(a[n + 1] < a[n + 1])
  BY SMT, <1>3
<1> QED BY Zenon, <1>1, <1>2, <1>4

LEMMA BeforeTransitive ==
  \A a, b, c \in Seq(Octets) : Before(a, b) /\ Before(b, c) => Before(a, c)
<1> SUFFICES ASSUME NEW a \in Seq(Octets), NEW b \in Seq(Octets), NEW c \in Seq(Octets),
                    NEW n, Parts(a, b, n), NEW m, Parts(b, c, m)
             PROVE  \E k : Parts(a, c, k)
  BY Zenon, BeforeIs
<1>1. /\ n \in Nat /\ n <= Len(a) /\ n < Len(b) /\ m \in Nat /\ m <= Len(b) /\ m < Len(c)
      /\ Len(a) \in Nat /\ Len(b) \in Nat /\ Len(c) \in Nat
      /\ \A i \in 1 .. n : a[i] = b[i]
      /\ \A i \in 1 .. m : b[i] = c[i]
      /\ n = Len(a) \/ a[n + 1] < b[n + 1]
      /\ m = Len(b) \/ b[m + 1] < c[m + 1]
  BY DEF Parts
<1>2. /\ \A i \in 1 .. Len(a) : a[i] \in Nat
      /\ \A i \in 1 .. Len(b) : b[i] \in Nat
      /\ \A i \in 1 .. Len(c) : c[i] \in Nat
  BY Zenon, OctetsAre
<1>3. CASE n < m
  <2>1. \A i \in 1 .. n : i \in 1 .. m
    BY SMT, <1>1, <1>3
  <2>2. n + 1 \in 1 .. m /\ n < Len(c)
    BY SMT, <1>1, <1>3
  <2>3. b[n + 1] = c[n + 1]
    BY Zenon, <2>2, <1>1
  <2>4. Parts(a, c, n)
    BY Zenon, <2>1, <2>2, <2>3, <1>1 DEF Parts
  <2> QED BY Zenon, <2>4
<1>4. CASE n = m
  <2>1. n < Len(c) /\ m # Len(b)
    BY SMT, <1>1, <1>4
  <2>2. b[n + 1] < c[n + 1]
    BY Zenon, <2>1, <1>1, <1>4
  <2>3. n = Len(a) \/ a[n + 1] < c[n + 1]
    <3>1. CASE n # Len(a)
      <4>1. n + 1 \in 1 .. Len(a) /\ n + 1 \in 1 .. Len(b) /\ n + 1 \in 1 .. Len(c)
        BY SMT, <1>1, <2>1, <3>1
      <4>2. a[n + 1] \in Nat /\ b[n + 1] \in Nat /\ c[n + 1] \in Nat /\ a[n + 1] < b[n + 1]
        BY Zenon, <4>1, <1>1, <1>2, <3>1
      <4> QED BY SMT, <4>2, <2>2
    <3> QED BY <3>1
  <2>4. Parts(a, c, n)
    BY Zenon, <2>1, <2>3, <1>1, <1>4 DEF Parts
  <2> QED BY Zenon, <2>4
<1>5. CASE m < n
  <2>1. (\A i \in 1 .. m : i \in 1 .. n) /\ m <= Len(a)
    BY SMT, <1>1, <1>5
  <2>2. m + 1 \in 1 .. n /\ m # Len(b)
    BY SMT, <1>1, <1>5
  <2>3. a[m + 1] = b[m + 1] /\ b[m + 1] < c[m + 1]
    BY Zenon, <2>2, <1>1
  <2>4. a[m + 1] < c[m + 1]
    BY Zenon, <2>3
  <2>5. \A i \in 1 .. m : a[i] = c[i]
    BY Zenon, <2>1, <1>1
  <2>6. Parts(a, c, m)
    BY Zenon, <2>1, <2>4, <2>5, <1>1 DEF Parts
  <2> QED BY Zenon, <2>6
<1>6. n < m \/ n = m \/ m < n
  BY SMT, <1>1
<1> QED BY Zenon, <1>3, <1>4, <1>5, <1>6

LEMMA BeforeTotal ==
  \A a, b \in Seq(Octets) : a # b => Before(a, b) \/ Before(b, a)
<1> SUFFICES ASSUME NEW a \in Seq(Octets), NEW b \in Seq(Octets), a # b
             PROVE  (\E n : Parts(a, b, n)) \/ (\E n : Parts(b, a, n))
  BY Zenon, BeforeIs
<1> DEFINE Ends(n) == n >= Len(a) \/ n >= Len(b) \/ a[n + 1] # b[n + 1]
           ends == {n \in Nat : Ends(n)}
           m == Min(ends)
<1>1. Len(a) \in Nat /\ Len(b) \in Nat
  BY SMT
<1>2. ends \subseteq Nat /\ Len(a) \in ends
  BY SMT, <1>1
<1>3. m \in ends /\ \A x \in ends : m <= x
  <2>1. ends # {}
    BY <1>2
  <2> HIDE DEF ends
  <2> QED BY Zenon, <1>2, <2>1, MinIs
<1>4. m \in Nat /\ Ends(m)
  BY Zenon, <1>3
<1> HIDE DEF m
<1>5. \A i \in 1 .. m : i - 1 \in Nat /\ ~(m <= i - 1) /\ (i - 1) + 1 = i
  BY SMT, <1>4
<1>6. \A i \in 1 .. m : ~Ends(i - 1)
  <2> HIDE DEF Ends
  <2> QED BY Zenon, <1>3, <1>5
<1>7. \A i \in 1 .. m : a[i] = b[i]
  BY Zenon, <1>5, <1>6
<1>8. m <= Len(a) /\ m <= Len(b)
  <2>1. Len(a) \in ends /\ Len(b) \in ends
    BY SMT, <1>1
  <2> HIDE DEF ends
  <2> QED BY Zenon, <1>3, <2>1
<1>9. CASE m = Len(a) /\ m = Len(b)
  <2>1. a = b
    BY Zenon, <1>7, <1>9, SeqEqual
  <2> QED BY Zenon, <2>1
<1>10. CASE m = Len(a) /\ m # Len(b)
  <2>1. m < Len(b)
    BY SMT, <1>1, <1>4, <1>8, <1>10
  <2>2. Parts(a, b, m)
    BY Zenon, <2>1, <1>4, <1>7, <1>8, <1>10 DEF Parts
  <2> QED BY Zenon, <2>2
<1>11. CASE m # Len(a) /\ m = Len(b)
  <2>1. m < Len(a)
    BY SMT, <1>1, <1>4, <1>8, <1>11
  <2>2. Parts(b, a, m)
    BY Zenon, <2>1, <1>4, <1>7, <1>8, <1>11 DEF Parts
  <2> QED BY Zenon, <2>2
<1>12. CASE m # Len(a) /\ m # Len(b)
  <2>1. m < Len(a) /\ m < Len(b) /\ m + 1 \in 1 .. Len(a) /\ m + 1 \in 1 .. Len(b)
    BY SMT, <1>1, <1>4, <1>8, <1>12
  <2>2. a[m + 1] # b[m + 1]
    <3>1. ~(m >= Len(a)) /\ ~(m >= Len(b))
      BY SMT, <1>1, <1>4, <2>1
    <3> QED BY Zenon, <3>1, <1>4
  <2>3. a[m + 1] \in Nat /\ b[m + 1] \in Nat
    BY Zenon, <2>1, OctetsAre
  <2>4. a[m + 1] < b[m + 1] \/ b[m + 1] < a[m + 1]
    <3> DEFINE x == a[m + 1]
               y == b[m + 1]
    <3>1. x \in Nat /\ y \in Nat /\ x # y
      BY <2>2, <2>3
    <3> HIDE DEF x, y
    <3>2. x < y \/ y < x
      BY SMT, <3>1
    <3> QED BY Zenon, <3>2 DEF x, y
  <2>5. Parts(a, b, m) \/ Parts(b, a, m)
    BY Zenon, <2>1, <2>4, <1>4, <1>7, <1>8 DEF Parts
  <2> QED BY Zenon, <2>5
<1> QED BY Zenon, <1>9, <1>10, <1>11, <1>12

(* A list of every element of D, each once *)
Lists(names, D) ==
  /\ names \in Seq(D) /\ Len(names) = Cardinality(D) /\ Cardinality(D) \in Nat
  /\ \A m, n \in 1 .. Len(names) : names[m] = names[n] => m = n
  /\ \A k \in D : \E n \in 1 .. Len(names) : names[n] = k

(* Elements of a finite set, told apart by how many stand below them: there *)
(* is one for each number.                                                 *)
LEMMA RanksAre ==
  ASSUME NEW D, IsFiniteSet(D), NEW below,
         \A k \in D : below[k] \subseteq D /\ k \notin below[k],
         \A k, l \in D : \/ k = l
                         \/ below[k] \subseteq below[l] /\ k \in below[l]
                         \/ below[l] \subseteq below[k] /\ l \in below[k]
  PROVE  /\ Cardinality(D) \in Nat
         /\ \A k \in D : Cardinality(below[k]) + 1 \in 1 .. Cardinality(D)
                         /\ (Cardinality(below[k]) + 1) - 1 = Cardinality(below[k])
         /\ \A k, l \in D : Cardinality(below[k]) = Cardinality(below[l]) => k = l
         /\ \A n \in 1 .. Cardinality(D) : \E k \in D : Cardinality(below[k]) = n - 1
<1> DEFINE C == Cardinality(D)
           Rank(k) == Cardinality(below[k])
           ranks == [k \in D |-> Rank(k)]
<1>1. C \in Nat
  BY Zenon, FS_CardinalityType
<1>2. ASSUME NEW k \in D PROVE IsFiniteSet(below[k]) /\ Rank(k) \in Nat /\ Rank(k) < C
  <2>1. IsFiniteSet(below[k]) /\ Rank(k) <= C /\ C # Rank(k)
    BY Zenon, FS_Subset
  <2>2. Rank(k) \in Nat
    BY Zenon, <2>1, FS_CardinalityType
  <2> HIDE DEF Rank, C
  <2> QED BY SMT, <1>1, <2>1, <2>2
<1>3. ASSUME NEW k \in D, NEW l \in D, below[k] \subseteq below[l], k \in below[l] PROVE Rank(k) < Rank(l)
  <2>1. IsFiniteSet(below[l]) /\ Rank(l) \in Nat /\ Rank(k) \in Nat
    <3> HIDE DEF Rank, C
    <3> QED BY Zenon, <1>2
  <2>2. Rank(k) <= Rank(l) /\ Rank(l) # Rank(k)
    BY Zenon, <1>3, <2>1, FS_Subset
  <2> HIDE DEF Rank
  <2> QED BY SMT, <2>1, <2>2
<1>4. ASSUME NEW k \in D, NEW l \in D, Rank(k) = Rank(l) PROVE k = l
  <2>1. Rank(k) \in Nat
    <3> HIDE DEF Rank, C
    <3> QED BY Zenon, <1>2
  <2> HIDE DEF Rank
  <2>2. ~(Rank(k) < Rank(l)) /\ ~(Rank(l) < Rank(k))
    BY SMT, <1>4, <2>1
  <2> QED BY Zenon, <1>3, <2>2
<1> DEFINE R == 0 .. C - 1
<1>5. IsFiniteSet(R) /\ Cardinality(R) = C
  <2>1. 0 \in Int /\ C - 1 \in Int
    BY SMT, <1>1
  <2>2. IsFiniteSet(R) /\ Cardinality(R) = IF 0 > C - 1 THEN 0 ELSE (C - 1) - 0 + 1
    <3> HIDE DEF C
    <3> QED BY Zenon, <2>1, FS_Interval
  <2> HIDE DEF R, C
  <2> QED BY SMT, <1>1, <2>2
<1>6. ranks \in Injection(D, R)
  <2>1. ASSUME NEW k \in D PROVE Rank(k) \in R
    <3>1. Rank(k) \in Nat /\ Rank(k) < C
      <4> HIDE DEF Rank, C
      <4> QED BY Zenon, <1>2
    <3> HIDE DEF Rank, C
    <3> QED BY SMT, <1>1, <3>1
  <2> HIDE DEF Rank, R
  <2> QED BY Zenon, <2>1, <1>4 DEF Injection, IsInjective
<1>7. ranks \in Surjection(D, R)
  <2> HIDE DEF ranks, R
  <2> QED BY Zenon, <1>5, <1>6, FS_Injection
<1>8. ASSUME NEW n \in 1 .. C PROVE \E k \in D : Rank(k) = n - 1
  <2>1. n - 1 \in R
    BY SMT, <1>1
  <2>2. \E k \in D : ranks[k] = n - 1
    <3> HIDE DEF ranks, R
    <3> QED BY Zenon, <2>1, <1>7 DEF Surjection
  <2> HIDE DEF Rank
  <2> QED BY Zenon, <2>2
<1>9. ASSUME NEW k \in D PROVE Rank(k) + 1 \in 1 .. C /\ (Rank(k) + 1) - 1 = Rank(k)
  <2>1. Rank(k) \in Nat /\ Rank(k) < C
    <3> HIDE DEF Rank, C
    <3> QED BY Zenon, <1>2
  <2> HIDE DEF Rank, C
  <2> QED BY SMT, <1>1, <2>1
<1> QED BY Zenon, <1>1, <1>4, <1>8, <1>9

LEMMA NamesAre ==
  ASSUME NEW m_entries, IsFiniteSet(DOMAIN m_entries), DOMAIN m_entries \subseteq Seq(Octets)
  PROVE  Lists(Names(m_entries), DOMAIN m_entries)
<1> DEFINE D == DOMAIN m_entries
           C == Cardinality(D)
           Below(k) == {l \in D : Before(l, k)}
           below == [k \in D |-> Below(k)]
           Rank(k) == Cardinality(below[k])
           names == Names(m_entries)
<1>1. \A k \in D : below[k] = Below(k)
  BY Zenon
<1>2. /\ C \in Nat
      /\ \A k \in D : Rank(k) + 1 \in 1 .. C /\ (Rank(k) + 1) - 1 = Rank(k)
      /\ \A k, l \in D : Rank(k) = Rank(l) => k = l
      /\ \A n \in 1 .. C : \E k \in D : Rank(k) = n - 1
  <2>1. \A k \in D : Below(k) \subseteq D /\ k \notin Below(k)
    BY Zenon, BeforeIrreflexive
  <2>2. \A k, l \in D : \/ k = l
                        \/ Below(k) \subseteq Below(l) /\ k \in Below(l)
                        \/ Below(l) \subseteq Below(k) /\ l \in Below(k)
    BY Zenon, BeforeTotal, BeforeTransitive
  <2> HIDE DEF below, Below
  <2>3. \A k \in D : below[k] \subseteq D /\ k \notin below[k]
    BY Zenon, <1>1, <2>1
  <2>4. \A k, l \in D : \/ k = l
                        \/ below[k] \subseteq below[l] /\ k \in below[l]
                        \/ below[l] \subseteq below[k] /\ l \in below[k]
    <3> SUFFICES ASSUME NEW k \in D, NEW l \in D
                 PROVE  \/ k = l
                        \/ below[k] \subseteq below[l] /\ k \in below[l]
                        \/ below[l] \subseteq below[k] /\ l \in below[k]
      OBVIOUS
    <3>1. below[k] = Below(k) /\ below[l] = Below(l)
      BY Zenon, <1>1
    <3>2. \/ k = l
          \/ Below(k) \subseteq Below(l) /\ k \in Below(l)
          \/ Below(l) \subseteq Below(k) /\ l \in Below(k)
      BY Zenon, <2>2
    <3> QED BY SMT, <3>1, <3>2
  <2>5. IsFiniteSet(D)
    OBVIOUS
  <2> HIDE DEF D
  <2> QED BY Zenon, <2>3, <2>4, <2>5, RanksAre
<1> HIDE DEF below
<1>3. \A n \in 1 .. C : names[n] = CHOOSE k \in D : Cardinality(Below(k)) = n - 1
  BY Zenon DEF Names
<1>4. ASSUME NEW n \in 1 .. C PROVE names[n] \in D /\ Rank(names[n]) = n - 1
  <2>1. \E k \in D : Cardinality(Below(k)) = n - 1
    <3> HIDE DEF Below
    <3> QED BY Zenon, <1>1, <1>2
  <2>2. names[n] = CHOOSE k \in D : Cardinality(Below(k)) = n - 1
    BY Zenon, <1>3
  <2> HIDE DEF names, Below
  <2> QED BY Zenon, <1>1, <2>1, <2>2
<1>5. names = [n \in 1 .. C |-> names[n]]
  <2> DEFINE Nth(n) == CHOOSE k \in D : Cardinality(Below(k)) = n - 1
  <2>1. names = [n \in 1 .. C |-> Nth(n)]
    BY Zenon DEF Names
  <2> HIDE DEF Nth, names
  <2> QED BY Zenon, <2>1
<1> HIDE DEF names, Rank, Below, D, C
<1>6. names \in Seq(D) /\ Len(names) = C
  BY Zenon, <1>2, <1>4, <1>5, ListIs
<1>7. ASSUME NEW m \in 1 .. C, NEW n \in 1 .. C, names[m] = names[n] PROVE m = n
  <2>1. m - 1 = n - 1
    BY Zenon, <1>4, <1>7
  <2> QED BY SMT, <2>1
<1>8. ASSUME NEW k \in D PROVE \E n \in 1 .. C : names[n] = k
  <2> DEFINE n == Rank(k) + 1
  <2>1. n \in 1 .. C /\ n - 1 = Rank(k)
    BY Zenon, <1>2
  <2> HIDE DEF n
  <2>2. names[n] = k
    BY ZenonT(60), <1>2, <1>4, <2>1
  <2> QED BY Zenon, <2>1, <2>2
<1>9. Lists(names, D)
  BY Zenon, <1>2, <1>6, <1>7, <1>8 DEF Lists, C
<1> QED BY Zenon, <1>9 DEF names, D

(* The places of a text, put in order, are its places. *)
LEMMA OrderedAre ==
  ASSUME NEW P, P \subseteq Nat, IsFiniteSet(P)
  PROVE  /\ Cardinality(P) \in Nat /\ Ordered(P) \in Seq(P)
         /\ Len(Ordered(P)) = Cardinality(P)
<1> DEFINE C == Cardinality(P)
           Below(k) == {l \in P : l < k}
           below == [k \in P |-> Below(k)]
           Nth(n) == CHOOSE k \in P : Cardinality(Below(k)) = n - 1
<1>1. \A k \in P : below[k] = Below(k)
  BY Zenon
<1>2. C \in Nat /\ \A n \in 1 .. C : \E k \in P : Cardinality(below[k]) = n - 1
  <2>1. \A k \in P : Below(k) \subseteq P /\ k \notin Below(k)
    <3>1. \A k \in P : ~(k < k)
      BY SMT
    <3> QED BY Zenon, <3>1
  <2>2. \A k, l \in P : \/ k = l
                        \/ Below(k) \subseteq Below(l) /\ k \in Below(l)
                        \/ Below(l) \subseteq Below(k) /\ l \in Below(k)
    <3>1. \A k, l \in P : k = l \/ k < l \/ l < k
      BY SMT
    <3>2. \A k, l, n \in P : k < l /\ l < n => k < n
      BY SMT
    <3> QED BY Zenon, <3>1, <3>2
  <2> HIDE DEF below, Below
  <2>3. \A k \in P : below[k] \subseteq P /\ k \notin below[k]
    BY Zenon, <1>1, <2>1
  <2>4. \A k, l \in P : \/ k = l
                        \/ below[k] \subseteq below[l] /\ k \in below[l]
                        \/ below[l] \subseteq below[k] /\ l \in below[k]
    <3> SUFFICES ASSUME NEW k \in P, NEW l \in P
                 PROVE  \/ k = l
                        \/ below[k] \subseteq below[l] /\ k \in below[l]
                        \/ below[l] \subseteq below[k] /\ l \in below[k]
      OBVIOUS
    <3>1. below[k] = Below(k) /\ below[l] = Below(l)
      BY Zenon, <1>1
    <3>2. \/ k = l
          \/ Below(k) \subseteq Below(l) /\ k \in Below(l)
          \/ Below(l) \subseteq Below(k) /\ l \in Below(k)
      BY Zenon, <2>2
    <3> QED BY SMT, <3>1, <3>2
  <2> QED BY Zenon, <2>3, <2>4, RanksAre
<1> HIDE DEF below
<1>3. Ordered(P) = [n \in 1 .. C |-> Nth(n)]
  BY Zenon DEF Ordered
<1>4. ASSUME NEW n \in 1 .. C PROVE Nth(n) \in P
  <2> HIDE DEF Below
  <2> QED BY Zenon, <1>1, <1>2
<1> HIDE DEF Nth, C
<1>5. Ordered(P) = [n \in 1 .. C |-> Ordered(P)[n]] /\ \A n \in 1 .. C : Ordered(P)[n] \in P
  BY Zenon, <1>3, <1>4
<1>6. Ordered(P) \in Seq(P) /\ Len(Ordered(P)) = C
  BY Zenon, <1>2, <1>5, ListIs
<1> QED BY Zenon, <1>2, <1>6 DEF C

------------------------------------------------------------------------------
(* Names and containers *)

(* The first and the last visible byte *)
Ends(token, first, last) ==
  /\ first \in 1 .. Len(token) /\ last \in 1 .. Len(token) /\ first <= last
  /\ ~IsSpace(token[first]) /\ ~IsSpace(token[last])
  /\ \A i \in 1 .. Len(token) : ~IsSpace(token[i]) => first <= i /\ i <= last

LEMMA TrimIs ==
  ASSUME NEW token \in Seq(Octets)
  PROVE  \/ trim_space(token) = <<>>
         \/ \E first, last : /\ Ends(token, first, last) /\ first < last
                             /\ trim_space(token) = SubSeq(token, first, last)
<1> DEFINE visible == {i \in 1 .. Len(token) : ~IsSpace(token[i])}
           first == CHOOSE i \in visible : \A j \in visible : i <= j
           last == CHOOSE i \in visible : \A j \in visible : i >= j
           behind == {d \in Nat : \E i \in visible : d = Len(token) - i}
<1>1. Len(token) \in Nat /\ visible \subseteq Nat
  BY SMT
<1>2. CASE visible = {}
  <2>1. trim_space(token) = <<>>
    BY Zenon, <1>2 DEF trim_space
  <2> QED BY Zenon, <2>1
<1>3. CASE visible # {}
  <2>1. first \in visible /\ \A j \in visible : first <= j
    <3>1. Min(visible) \in visible /\ \A j \in visible : Min(visible) <= j
      <4> HIDE DEF visible
      <4> QED BY Zenon, <1>1, <1>3, MinIs
    <3> HIDE DEF visible
    <3> QED BY Zenon, <3>1
  <2>2. last \in visible /\ \A j \in visible : last >= j
    <3>1. behind \subseteq Nat /\ behind # {}
      <4>1. PICK i \in visible : TRUE
        BY Zenon, <1>3
      <4>2. Len(token) - i \in Nat
        BY SMT, <1>1, <4>1
      <4> HIDE DEF visible
      <4> QED BY Zenon, <4>1, <4>2
    <3> DEFINE d == Min(behind)
    <3>2. d \in behind /\ \A x \in behind : d <= x
      <4> HIDE DEF behind
      <4> QED BY Zenon, <3>1, MinIs
    <3> HIDE DEF d
    <3>3. PICK i \in visible : d = Len(token) - i
      BY Zenon, <3>2
    <3>4. \A j \in visible : Len(token) - j \in behind
      <4>1. \A j \in visible : Len(token) - j \in Nat
        BY SMT, <1>1
      <4> HIDE DEF visible
      <4> QED BY Zenon, <4>1
    <3>5. \A j \in visible : i >= j
      <4> SUFFICES ASSUME NEW j \in visible PROVE i >= j
        OBVIOUS
      <4>1. d <= Len(token) - j
        <5> HIDE DEF behind
        <5> QED BY Zenon, <3>2, <3>4
      <4>2. i \in Nat /\ j \in Nat
        BY Zenon, <1>1
      <4> QED BY SMT, <1>1, <3>3, <4>1, <4>2
    <3> HIDE DEF visible
    <3> QED BY Zenon, <3>5
  <2>3. Ends(token, first, last)
    <3>1. \A j \in visible : j \in Nat /\ j \in 1 .. Len(token)
      BY SMT
    <3>2. first <= last /\ \A j \in visible : j <= last
      <4> HIDE DEF visible, first, last
      <4> QED BY SMT, <2>1, <2>2, <3>1
    <3> HIDE DEF first, last
    <3> QED BY Zenon, <2>1, <2>2, <3>1, <3>2 DEF Ends
  <2>4. trim_space(token) = IF visible = {} \/ first = last THEN <<>> ELSE SubSeq(token, first, last)
    BY Zenon DEF trim_space
  <2> HIDE DEF visible, first, last
  <2>5. CASE first = last
    <3>1. trim_space(token) = <<>>
      BY Zenon, <2>4, <2>5
    <3> QED BY Zenon, <3>1
  <2>6. CASE first # last
    <3>1. trim_space(token) = SubSeq(token, first, last)
      BY Zenon, <1>3, <2>4, <2>6
    <3>2. first < last
      <4>1. first \in 1 .. Len(token) /\ last \in 1 .. Len(token) /\ first <= last
        BY Zenon, <2>3 DEF Ends
      <4> QED BY SMT, <1>1, <2>6, <4>1
    <3> QED BY Zenon, <2>3, <3>1, <3>2
  <2> QED BY Zenon, <2>5, <2>6
<1> QED BY Zenon, <1>2, <1>3

LEMMA LowerIs ==
  \A c \in Octets : Lower(c) \in Octets /\ Lower(Lower(c)) = Lower(c) /\ (IsSpace(Lower(c)) => IsSpace(c))
BY SMT DEF Lower, Octets, IsSpace

(* What reset_case() leaves: a name, in its one spelling *)
IsName(k) ==
  /\ k \in Seq(Octets) /\ Len(k) >= 2
  /\ ~IsSpace(k[1]) /\ ~IsSpace(k[Len(k)])
  /\ \A i \in 1 .. Len(k) : Lower(k[i]) = k[i]

LEMMA ResetCaseIs ==
  ASSUME NEW token \in Seq(Octets)
  PROVE  reset_case(token) = <<>> \/ IsName(reset_case(token))
<1> DEFINE t == trim_space(token)
           k == reset_case(token)
<1>1. k = [i \in 1 .. Len(t) |-> Lower(t[i])]
  BY DEF reset_case
<1>2. CASE t = <<>>
  <2>1. 1 .. Len(t) = {}
    BY SMT, <1>2
  <2>2. k = <<>>
    BY SMT, <1>1, <2>1
  <2> QED BY Zenon, <2>2
<1>3. CASE t # <<>>
  <2>1. PICK first, last : Ends(token, first, last) /\ first < last /\ t = SubSeq(token, first, last)
    BY Zenon, <1>3, TrimIs
  <2>2. /\ first \in 1 .. Len(token) /\ last \in 1 .. Len(token)
        /\ ~IsSpace(token[first]) /\ ~IsSpace(token[last])
    BY Zenon, <2>1 DEF Ends
  <2>3. t \in Seq(Octets) /\ Len(t) \in Nat /\ Len(t) >= 2 /\ t[1] = token[first] /\ t[Len(t)] = token[last]
    <3> HIDE DEF t
    <3> QED BY SMT, <2>1, <2>2
  <2> HIDE DEF t
  <2>4. \A i \in 1 .. Len(t) : t[i] \in Octets
    BY Zenon, <2>3, OctetsAre
  <2>5. k = [i \in 1 .. Len(t) |-> k[i]] /\ \A i \in 1 .. Len(t) : k[i] = Lower(t[i])
    <3> HIDE DEF k
    <3> QED BY Zenon, <1>1
  <2> HIDE DEF k
  <2>6. k \in Seq(Octets) /\ Len(k) = Len(t)
    <3>1. \A i \in 1 .. Len(t) : k[i] \in Octets
      BY Zenon, <2>4, <2>5, LowerIs
    <3> QED BY Zenon, <2>3, <2>5, <3>1, ListIs
  <2>7. 1 \in 1 .. Len(t) /\ Len(t) \in 1 .. Len(t)
    BY SMT, <2>3
  <2>8. ~IsSpace(k[1]) /\ ~IsSpace(k[Len(t)])
    <3>1. ~IsSpace(t[1]) /\ ~IsSpace(t[Len(t)])
      BY Zenon, <2>2, <2>3
    <3>2. /\ t[1] \in Octets /\ k[1] = Lower(t[1])
          /\ t[Len(t)] \in Octets /\ k[Len(t)] = Lower(t[Len(t)])
      BY Zenon, <2>4, <2>5, <2>7
    <3> QED BY Zenon, <3>1, <3>2, LowerIs
  <2>9. \A i \in 1 .. Len(t) : Lower(k[i]) = k[i]
    BY Zenon, <2>4, <2>5, LowerIs
  <2>10. IsName(k)
    BY Zenon, <2>3, <2>6, <2>8, <2>9 DEF IsName
  <2> QED BY Zenon, <2>10 DEF k
<1> QED BY Zenon, <1>2, <1>3 DEF t

(* A name's spelling is its own. *)
LEMMA NameIs ==
  ASSUME NEW k, IsName(k)
  PROVE  k \in Seq(Octets) /\ k # <<>> /\ reset_case(k) = k
<1>1. /\ k \in Seq(Octets) /\ Len(k) >= 2 /\ ~IsSpace(k[1]) /\ ~IsSpace(k[Len(k)])
      /\ \A i \in 1 .. Len(k) : Lower(k[i]) = k[i]
  BY DEF IsName
<1>2. Len(k) \in Nat /\ k # <<>> /\ 1 \in 1 .. Len(k) /\ Len(k) \in 1 .. Len(k) /\ 1 # Len(k)
  BY SMT, <1>1
<1> DEFINE visible == {i \in 1 .. Len(k) : ~IsSpace(k[i])}
           first == CHOOSE i \in visible : \A j \in visible : i <= j
           last == CHOOSE i \in visible : \A j \in visible : i >= j
<1>3. 1 \in visible /\ Len(k) \in visible
  BY Zenon, <1>1, <1>2
<1>4. \A i \in visible : 1 <= i /\ i <= Len(k) /\ Len(k) >= i /\ i \in Nat
  BY SMT
<1>5. first = 1 /\ last = Len(k)
  <2>1. first \in visible /\ \A j \in visible : first <= j
    <3> HIDE DEF visible
    <3> QED BY Zenon, <1>3, <1>4
  <2>2. last \in visible /\ \A j \in visible : last >= j
    <3> HIDE DEF visible
    <3> QED BY Zenon, <1>3, <1>4
  <2>3. first <= 1 /\ 1 <= first /\ first \in Nat
    <3> HIDE DEF visible, first
    <3> QED BY Zenon, <1>3, <1>4, <2>1
  <2>4. last >= Len(k) /\ last <= Len(k) /\ last \in Nat
    <3> HIDE DEF visible, last
    <3> QED BY Zenon, <1>3, <1>4, <2>2
  <2> HIDE DEF first, last
  <2> QED BY SMT, <1>2, <2>3, <2>4
<1>6. trim_space(k) = IF visible = {} \/ first = last THEN <<>> ELSE SubSeq(k, first, last)
  BY Zenon DEF trim_space
<1>7. trim_space(k) = k
  <2>1. visible # {} /\ first # last
    <3> HIDE DEF visible, first, last
    <3> QED BY Zenon, <1>2, <1>3, <1>5
  <2> HIDE DEF visible, first, last
  <2>2. trim_space(k) = SubSeq(k, 1, Len(k))
    BY Zenon, <1>5, <1>6, <2>1
  <2>3. SubSeq(k, 1, Len(k)) = k
    BY SMT, <1>1
  <2> QED BY Zenon, <2>2, <2>3
<1>8. reset_case(k) = [i \in 1 .. Len(k) |-> Lower(k[i])]
  BY Zenon, <1>7 DEF reset_case
<1>9. k = [i \in 1 .. Len(k) |-> k[i]]
  BY SMT, <1>1
<1>10. reset_case(k) = k
  BY Zenon, <1>1, <1>8, <1>9
<1> QED BY Zenon, <1>1, <1>2, <1>10

------------------------------------------------------------------------------
(* A container, as the operations leave it *)
IsContainer(m) ==
  /\ IsFiniteSet(DOMAIN m)
  /\ m \in [DOMAIN m -> Seq(Seq(Octets))]
  /\ \A k \in DOMAIN m : IsName(k)

LEMMA NoEntriesIs == IsContainer(NoEntries)
<1>1. DOMAIN NoEntries = {}
  BY SMT DEF NoEntries
<1>2. NoEntries = [k \in {} |-> <<>>]
  BY SMT DEF NoEntries
<1>3. NoEntries \in [DOMAIN NoEntries -> Seq(Seq(Octets))]
  BY SMT DEF NoEntries
<1> QED BY Zenon, <1>1, <1>3, FS_EmptySet DEF IsContainer

LEMMA PutIs ==
  ASSUME NEW m, IsContainer(m), NEW k, IsName(k), NEW values \in Seq(Seq(Octets))
  PROVE  IsContainer(Put(m, k, values))
<1> DEFINE p == Put(m, k, values)
<1>1. DOMAIN p = DOMAIN m \cup {k}
  BY DEF Put
<1>2. IsFiniteSet(DOMAIN p)
  BY Zenon, <1>1, FS_AddElement DEF IsContainer
<1>3. \A l \in DOMAIN p : p[l] \in Seq(Seq(Octets)) /\ IsName(l)
  BY Zenon DEF Put, IsContainer
<1>4. p \in [DOMAIN p -> Seq(Seq(Octets))]
  BY Zenon, <1>1, <1>3 DEF Put
<1> HIDE DEF p
<1>5. IsContainer(p)
  BY Zenon, <1>2, <1>3, <1>4 DEF IsContainer
<1> QED BY Zenon, <1>5 DEF p

LEMMA OperationsKeep ==
  ASSUME NEW m, IsContainer(m), NEW key \in Seq(Octets), NEW value \in Seq(Octets)
  PROVE  /\ IsContainer(set(m, key, value))
         /\ IsContainer(append(m, key, value))
         /\ IsContainer(del(m, key))
<1> DEFINE k == reset_case(key)
<1>1. k = <<>> \/ IsName(k)
  BY ResetCaseIs
<1> HIDE DEF k
<1>2. <<value>> \in Seq(Seq(Octets))
  BY SMT
<1>3. get_all(m, key) \in Seq(Seq(Octets))
  <2>1. <<>> \in Seq(Seq(Octets))
    BY SMT
  <2>2. \A l \in DOMAIN m : m[l] \in Seq(Seq(Octets))
    BY Zenon DEF IsContainer
  <2> QED BY Zenon, <2>1, <2>2 DEF get_all, has
<1>4. Append(get_all(m, key), value) \in Seq(Seq(Octets))
  BY SMT, <1>3
<1>5. IsContainer(set(m, key, value))
  BY Zenon, <1>1, <1>2, PutIs DEF set, k
<1>6. IsContainer(append(m, key, value))
  BY Zenon, <1>1, <1>4, PutIs DEF append, k
<1>7. IsContainer(del(m, key))
  <2> DEFINE d == del(m, key)
  <2>1. DOMAIN d = DOMAIN m \ {k}
    BY DEF del, k
  <2>2. IsFiniteSet(DOMAIN d)
    BY Zenon, <2>1, FS_RemoveElement DEF IsContainer
  <2>3. \A l \in DOMAIN d : d[l] \in Seq(Seq(Octets)) /\ IsName(l)
    BY Zenon DEF del, IsContainer
  <2>4. d \in [DOMAIN d -> Seq(Seq(Octets))]
    BY Zenon, <2>1, <2>3 DEF del
  <2> HIDE DEF d
  <2>5. IsContainer(d)
    BY Zenon, <2>2, <2>3, <2>4 DEF IsContainer
  <2> QED BY Zenon, <2>5 DEF d
<1> QED BY Zenon, <1>5, <1>6, <1>7

LEMMA LongerBy ==
  ASSUME NEW S, NEW s \in Seq(S), NEW x \in S
  PROVE  Append(s, x) # <<>> /\ s \o <<x>> = Append(s, x) /\ s \o <<>> = s
<1>1. Len(Append(s, x)) = Len(s) + 1 /\ Len(s) \in Nat /\ Append(s, x) \in Seq(S)
  BY SMT
<1>2. Append(s, x) # <<>>
  BY SMT, <1>1
<1>3. s \o <<x>> = Append(s, x) /\ s \o <<>> = s
  BY SMT
<1> QED BY <1>2, <1>3

LEMMA EachOf == ASSUME NEW S, NEW s \in Seq(S), NEW n, n = Len(s) PROVE s = [i \in 1 .. n |-> s[i]]
BY SMT

LEMMA FlattenedOn ==
  ASSUME NEW S, NEW ss \in Seq(Seq(S)), NEW x \in Seq(S)
  PROVE  FlattenSeq(Append(ss, x)) = FlattenSeq(ss) \o x
<1> DEFINE L == Len(ss)
           more == Append(ss, x)
<1>1. /\ L \in Nat /\ Len(more) = L + 1 /\ more[L + 1] = x /\ L + 1 \in Nat /\ L + 1 # 0
      /\ \A n \in 1 .. L : more[n] = ss[n] /\ n \in 1 .. L + 1 /\ n # L + 1
  BY SMT
<1> HIDE DEF more, L
<1>2. PICK g : Flattens(g, more, L + 1) /\ FlattenSeq(more) = g[L + 1]
  <2>1. \E g : Flattens(g, more, L + 1)
    BY Zenon, <1>1, FlattensExists
  <2> QED BY ZenonT(60), <2>1, <1>1 DEF FlattenSeq, Flattens
<1>3. \A n \in 1 .. L + 1 : g[n] = IF n = 1 THEN more[n] ELSE g[n - 1] \o more[n]
  BY Zenon, <1>2 DEF Flattens
<1>4. CASE L = 0
  <2>1. ss = <<>> /\ FlattenSeq(ss) = <<>> /\ <<>> \o x = x
    BY SMT, <1>4 DEF FlattenSeq, L
  <2>2. L + 1 = 1 /\ 1 \in 1 .. L + 1
    BY SMT, <1>4
  <2>3. g[L + 1] = x
    BY Zenon, <2>2, <1>1, <1>3
  <2> QED BY Zenon, <2>1, <2>3, <1>2 DEF more
<1>5. CASE L # 0
  <2>1. PICK f : Flattens(f, ss, L) /\ FlattenSeq(ss) = f[L]
    <3>1. \E f : Flattens(f, ss, L)
      BY Zenon, <1>1, FlattensExists
    <3> QED BY Zenon, <3>1, <1>5 DEF FlattenSeq, Flattens, L
  <2>2. \A n \in 1 .. L : f[n] = IF n = 1 THEN ss[n] ELSE f[n - 1] \o ss[n]
    BY Zenon, <2>1 DEF Flattens
  <2> DEFINE N == {n \in Nat : n + 1 \in 1 .. L => f[n + 1] = g[n + 1]}
  <2>3. 0 \in N
    <3>1. 0 \in Nat /\ 0 + 1 = 1
      BY SMT
    <3>2. 1 \in 1 .. L => f[1] = g[1]
      BY Zenon, <1>1, <1>3, <2>2
    <3> QED BY Zenon, <3>1, <3>2
  <2>4. ASSUME NEW n \in Nat, n \in N PROVE n + 1 \in N
    <3>1. n + 1 \in Nat
      BY SMT
    <3> DEFINE k == n + 1
    <3>2. k + 1 \in 1 .. L => k \in 1 .. L /\ k + 1 # 1 /\ (k + 1) - 1 = k
      BY SMT, <1>1
    <3>3. k \in 1 .. L => f[k] = g[k]
      BY Zenon, <2>4
    <3> HIDE DEF k
    <3>4. ASSUME k + 1 \in 1 .. L PROVE f[k + 1] = g[k + 1]
      <4>1. f[k + 1] = f[(k + 1) - 1] \o ss[k + 1]
        BY Zenon, <3>2, <3>4, <2>2
      <4>2. k + 1 \in 1 .. L + 1 /\ more[k + 1] = ss[k + 1]
        BY Zenon, <3>4, <1>1
      <4>3. g[k + 1] = g[(k + 1) - 1] \o ss[k + 1]
        BY Zenon, <4>2, <3>2, <3>4, <1>3
      <4> QED BY Zenon, <4>1, <4>3, <3>2, <3>3, <3>4
    <3> QED BY Zenon, <3>1, <3>4 DEF k
  <2> HIDE DEF N
  <2>5. \A n \in Nat : n \in N
    BY Zenon, <2>3, <2>4, Induct
  <2>6. /\ L - 1 \in Nat /\ (L - 1) + 1 = L /\ L \in 1 .. L
        /\ L + 1 \in 1 .. L + 1 /\ L + 1 # 1 /\ (L + 1) - 1 = L
    BY SMT, <1>1, <1>5
  <2>7. f[L] = g[L]
    BY Zenon, <2>5, <2>6 DEF N
  <2>8. g[L + 1] = g[L] \o x
    BY Zenon, <2>6, <1>1, <1>3
  <2> QED BY Zenon, <2>1, <2>7, <2>8, <1>2 DEF more
<1> QED BY Zenon, <1>4, <1>5

Kept(v) == IF v = <<>> THEN <<>> ELSE <<v>>

LEMMA FullIs ==
  ASSUME NEW values \in Seq(Seq(Octets)), NEW v \in Seq(Octets)
  PROVE  /\ Full(values) \in Seq(Seq(Octets))
         /\ Full(Append(values, v)) = IF v = <<>> THEN Full(values) ELSE Append(Full(values), v)
<1> DEFINE L == Len(values)
           more == Append(values, v)
           kept == [i \in 1 .. L |-> Kept(values[i])]
           keptmore == [i \in 1 .. L + 1 |-> Kept(more[i])]
<1>1. /\ L \in Nat /\ Len(more) = L + 1 /\ more[L + 1] = v
      /\ \A i \in 1 .. L : values[i] \in Seq(Octets) /\ more[i] = values[i]
  BY SMT
<1>2. \A w \in Seq(Octets) : Kept(w) \in Seq(Seq(Octets))
  BY SMT DEF Kept
<1>3. kept \in Seq(Seq(Seq(Octets))) /\ Len(kept) = L
  <2>1. \A i \in 1 .. L : kept[i] \in Seq(Seq(Octets))
    BY Zenon, <1>1, <1>2
  <2>2. kept = [i \in 1 .. L |-> kept[i]]
    BY Zenon
  <2> HIDE DEF kept, L
  <2> QED BY Zenon, <1>1, <2>1, <2>2, ListIs
<1>4. keptmore = Append(kept, Kept(v))
  <2>1. /\ Append(kept, Kept(v)) \in Seq(Seq(Seq(Octets)))
        /\ Len(Append(kept, Kept(v))) = L + 1
        /\ Append(kept, Kept(v))[L + 1] = Kept(v)
        /\ \A i \in 1 .. L : Append(kept, Kept(v))[i] = kept[i]
    <3>1. Kept(v) \in Seq(Seq(Octets))
      BY Zenon, <1>2
    <3> HIDE DEF kept, L
    <3> QED BY SMT, <1>1, <1>3, <3>1
  <2>2. \A i \in 1 .. L + 1 : i \in 1 .. L \/ i = L + 1
    BY SMT, <1>1
  <2>3. \A i \in 1 .. L : kept[i] = Kept(values[i])
    BY Zenon
  <2>4. Append(kept, Kept(v)) = [i \in 1 .. L + 1 |-> Append(kept, Kept(v))[i]]
    <3> HIDE DEF kept, L
    <3> QED BY Zenon, <2>1, EachOf
  <2> HIDE DEF kept, L, more
  <2>5. \A i \in 1 .. L + 1 : Append(kept, Kept(v))[i] = Kept(more[i])
    BY Zenon, <1>1, <2>1, <2>2, <2>3
  <2> QED BY Zenon, <2>4, <2>5
<1>5. Full(values) = FlattenSeq(kept)
  BY Zenon DEF Full, Kept
<1>6. Full(more) = FlattenSeq(keptmore)
  <2> HIDE DEF more, L
  <2> QED BY Zenon, <1>1 DEF Full, Kept
<1> HIDE DEF kept, keptmore
<1>7. FlattenSeq(keptmore) = FlattenSeq(kept) \o Kept(v)
  <2>1. Kept(v) \in Seq(Seq(Octets))
    BY Zenon, <1>2
  <2> QED BY Zenon, <2>1, <1>3, <1>4, FlattenedOn
<1>8. FlattenSeq(kept) \in Seq(Seq(Octets))
  BY Zenon, <1>3, FlatIs
<1>9. \A f \in Seq(Seq(Octets)) : f \o Kept(v) = IF v = <<>> THEN f ELSE Append(f, v)
  BY Zenon, LongerBy DEF Kept
<1> QED BY Zenon, <1>5, <1>6, <1>7, <1>8, <1>9 DEF more

LEMMA FullOfNone == Full(<<>>) = <<>>
<1>1. [i \in 1 .. Len(<<>>) |-> Kept(<<>>[i])] = <<>>
  BY SMT
<1>2. Full(<<>>) = FlattenSeq(<<>>)
  BY Zenon, <1>1 DEF Full, Kept
<1> QED BY SMT, <1>2 DEF FlattenSeq

(* d holds one more value than c, under the name k. *)
Grows(c, d, D, k, v) ==
  /\ c \in [D -> Seq(Seq(Octets))] /\ d \in [D -> Seq(Seq(Octets))]
  /\ k \in D /\ IsName(k) /\ v \in Seq(Octets)
  /\ d[k] = Append(c[k], v) /\ \A l \in D : l # k => d[l] = c[l]

LEMMA FilledGrows ==
  ASSUME NEW c, NEW d, NEW D, NEW k, NEW v, Grows(c, d, D, k, v)
  PROVE  /\ v = <<>> => Filled(d) = Filled(c)
         /\ v # <<>> => Filled(d) = append(Filled(c), k, v)
<1> DEFINE F == Filled(c)
           G == Filled(d)
<1>0. /\ c \in [D -> Seq(Seq(Octets))] /\ d \in [D -> Seq(Seq(Octets))]
      /\ k \in D /\ IsName(k) /\ v \in Seq(Octets)
      /\ d[k] = Append(c[k], v) /\ \A l \in D : l # k => d[l] = c[l]
  BY DEF Grows
<1>1. /\ F = [l \in {l \in D : Full(c[l]) # <<>>} |-> Full(c[l])]
      /\ G = [l \in {l \in D : Full(d[l]) # <<>>} |-> Full(d[l])]
  BY Zenon, <1>0 DEF Filled
<1>2. /\ Full(c[k]) \in Seq(Seq(Octets))
      /\ Full(d[k]) = IF v = <<>> THEN Full(c[k]) ELSE Append(Full(c[k]), v)
  BY Zenon, <1>0, FullIs
<1> HIDE DEF F, G
<1>3. CASE v = <<>>
  <2>1. \A l \in D : Full(d[l]) = Full(c[l])
    BY Zenon, <1>0, <1>2, <1>3
  <2>2. {l \in D : Full(d[l]) # <<>>} = {l \in D : Full(c[l]) # <<>>}
    BY Zenon, <2>1
  <2>3. G = F
    BY Zenon, <1>1, <2>1, <2>2
  <2> QED BY Zenon, <2>3, <1>3 DEF F, G
<1>4. CASE v # <<>>
  <2>1. reset_case(k) = k /\ k # <<>>
    BY Zenon, <1>0, NameIs
  <2>2. get_all(F, k) = Full(c[k])
    BY Zenon, <1>0, <1>1, <2>1 DEF get_all, has
  <2>3. append(F, k, v) = Put(F, k, Append(Full(c[k]), v))
    BY Zenon, <2>1, <2>2 DEF append
  <2>4. Full(d[k]) = Append(Full(c[k]), v)
    BY Zenon, <1>0, <1>2, <1>4
  <2>5. Full(d[k]) # <<>>
    BY Zenon, <1>0, <1>2, <2>4, LongerBy
  <2>6. Put(F, k, Full(d[k])) = [l \in DOMAIN F \cup {k} |-> IF l = k THEN Full(d[k]) ELSE F[l]]
    BY Zenon DEF Put
  <2>7. DOMAIN F \cup {k} = {l \in D : Full(d[l]) # <<>>}
    BY Zenon, <1>0, <1>1, <2>5
  <2>8. \A l \in {l \in D : Full(d[l]) # <<>>} :
          (IF l = k THEN Full(d[k]) ELSE F[l]) = Full(d[l])
    BY Zenon, <1>0, <1>1
  <2>9. Put(F, k, Full(d[k])) = G
    BY Zenon, <1>1, <2>6, <2>7, <2>8
  <2> QED BY Zenon, <2>3, <2>4, <2>9, <1>4 DEF F, G
<1> QED BY Zenon, <1>3, <1>4

------------------------------------------------------------------------------
CollectedAt(f, pairs, n) ==
  IF n = 0 THEN NoEntries
  ELSE IF pairs[n][2] = <<>> THEN f[n - 1]
  ELSE append(f[n - 1], pairs[n][1], pairs[n][2])

LEMMA CollectedExists ==
  ASSUME NEW pairs
  PROVE  \A n \in Nat : \E f : f = [i \in 0 .. n |-> CollectedAt(f, pairs, i)]
<1> DEFINE Ok(f, n) == f = [i \in 0 .. n |-> CollectedAt(f, pairs, i)]
           N == {n \in Nat : \E f : Ok(f, n)}
<1>1. 0 \in N
  <2>1. 0 \in Nat /\ \A i \in 0 .. 0 : i = 0
    BY SMT
  <2> DEFINE f == [i \in 0 .. 0 |-> NoEntries]
  <2>2. \A i \in 0 .. 0 : CollectedAt(f, pairs, i) = NoEntries
    <3> HIDE DEF f
    <3> QED BY Zenon, <2>1 DEF CollectedAt
  <2>3. Ok(f, 0)
    BY Zenon, <2>2
  <2> HIDE DEF Ok
  <2> QED BY Zenon, <2>1, <2>3
<1>2. ASSUME NEW n \in Nat, n \in N PROVE n + 1 \in N
  <2>1. PICK f : Ok(f, n)
    <3> HIDE DEF Ok
    <3> QED BY Zenon, <1>2
  <2> DEFINE g == [i \in 0 .. (n + 1) |-> CollectedAt(f, pairs, i)]
  <2>2. \A i \in 0 .. n : i \in 0 .. (n + 1) /\ g[i] = f[i]
    <3>1. \A i \in 0 .. n : i \in 0 .. (n + 1)
      BY SMT
    <3>2. \A i \in 0 .. n : f[i] = CollectedAt(f, pairs, i)
      BY Zenon, <2>1
    <3> QED BY Zenon, <3>1, <3>2
  <2>3. \A i \in 0 .. (n + 1) : i # 0 => i - 1 \in 0 .. n
    BY SMT
  <2> HIDE DEF g
  <2>4. \A i \in 0 .. (n + 1) : CollectedAt(g, pairs, i) = CollectedAt(f, pairs, i)
    BY Zenon, <2>2, <2>3 DEF CollectedAt
  <2>5. Ok(g, n + 1)
    BY Zenon, <2>4 DEF g
  <2>6. n + 1 \in Nat
    BY SMT
  <2> HIDE DEF Ok
  <2> QED BY Zenon, <2>5, <2>6
<1> HIDE DEF N
<1>3. \A n \in Nat : n \in N
  BY Zenon, <1>1, <1>2, Induct
<1> QED BY Zenon, <1>3 DEF N

(* Collected() as it is unrolled *)
Collects(f, pairs) ==
  /\ Collected(pairs) = f[Len(pairs)]
  /\ \A n \in 0 .. Len(pairs) : f[n] = CollectedAt(f, pairs, n)

LEMMA CollectsExists ==
  ASSUME NEW pairs, Len(pairs) \in Nat
  PROVE  \E f : Collects(f, pairs)
<1>1. \E f : f = [i \in 0 .. Len(pairs) |-> CollectedAt(f, pairs, i)]
  BY Zenon, CollectedExists
<1>2. \E f : /\ f = [i \in 0 .. Len(pairs) |-> CollectedAt(f, pairs, i)]
             /\ Collected(pairs) = f[Len(pairs)]
  BY Zenon, <1>1 DEF Collected, CollectedAt
<1> QED BY Zenon, <1>2 DEF Collects

(* The entries of a container: those of names[n] begin behind at[n]. *)
Entered(m, es, names, at) ==
  LET L == Len(names)
  IN /\ Lists(names, DOMAIN m)
     /\ es \in Seq(Seq(Octets) \X Seq(Octets)) /\ Len(es) \in Nat
     /\ at[1] = 0 /\ at[L + 1] = Len(es)
     /\ \A n \in 1 .. L + 1 : at[n] \in Nat
     /\ \A n \in 1 .. L :
          /\ at[n + 1] = at[n] + Len(m[names[n]])
          /\ \A i \in 1 .. Len(m[names[n]]) : es[at[n] + i] = <<names[n], m[names[n]][i]>>
     /\ \A l, n \in 1 .. L + 1 : l < n => at[l + 1] <= at[n]
     /\ \A p \in 1 .. Len(es) :
          \E n \in 1 .. L : \E i \in 1 .. Len(m[names[n]]) : p = at[n] + i

LEMMA EntriesAre ==
  ASSUME NEW m, IsContainer(m)
  PROVE  \E names, at : Entered(m, entries(m), names, at)
<1> DEFINE names == Names(m)
           L == Len(names)
           OfName(k) == [i \in 1 .. Len(m[k]) |-> <<k, m[k][i]>>]
           ss == [n \in 1 .. L |-> OfName(names[n])]
           Entry == Seq(Octets) \X Seq(Octets)
           es == entries(m)
<1>1. /\ IsFiniteSet(DOMAIN m) /\ DOMAIN m \subseteq Seq(Octets)
      /\ \A k \in DOMAIN m : m[k] \in Seq(Seq(Octets))
  BY Zenon, NameIs DEF IsContainer
<1>2. Lists(names, DOMAIN m)
  BY Zenon, <1>1, NamesAre
<1>3. L \in Nat /\ \A n \in 1 .. L : names[n] \in DOMAIN m
  <2>1. names \in Seq(DOMAIN m) /\ L = Cardinality(DOMAIN m) /\ Cardinality(DOMAIN m) \in Nat
    BY Zenon, <1>2 DEF Lists
  <2> HIDE DEF names
  <2> QED BY SMT, <2>1
<1>4. ASSUME NEW k \in DOMAIN m
      PROVE  /\ OfName(k) \in Seq(Entry) /\ Len(OfName(k)) = Len(m[k])
             /\ \A i \in 1 .. Len(m[k]) : OfName(k)[i] = <<k, m[k][i]>>
  <2>1. Len(m[k]) \in Nat /\ \A i \in 1 .. Len(m[k]) : m[k][i] \in Seq(Octets)
    <3>1. \A s \in Seq(Seq(Octets)) : Len(s) \in Nat /\ \A i \in 1 .. Len(s) : s[i] \in Seq(Octets)
      BY SMT
    <3> QED BY Zenon, <3>1, <1>1
  <2>2. \A i \in 1 .. Len(m[k]) : OfName(k)[i] \in Entry
    <3>1. k \in Seq(Octets)
      BY Zenon, <1>1
    <3> QED BY Zenon, <2>1, <3>1
  <2>3. OfName(k) = [i \in 1 .. Len(m[k]) |-> OfName(k)[i]]
    BY Zenon
  <2>4. \A i \in 1 .. Len(m[k]) : OfName(k)[i] = <<k, m[k][i]>>
    BY Zenon
  <2> HIDE DEF OfName, Entry
  <2> QED BY Zenon, <2>1, <2>2, <2>3, <2>4, ListIs
<1>5. ss \in Seq(Seq(Entry)) /\ Len(ss) = L /\ \A n \in 1 .. L : ss[n] = OfName(names[n])
  <2>1. \A n \in 1 .. L : ss[n] = OfName(names[n])
    <3> HIDE DEF OfName, names, L
    <3> QED BY Zenon
  <2>2. ss = [n \in 1 .. L |-> ss[n]]
    <3> HIDE DEF OfName, names, L
    <3> QED BY Zenon
  <2>3. \A n \in 1 .. L : ss[n] \in Seq(Entry)
    <3> HIDE DEF OfName, names, L, ss, Entry
    <3> QED BY Zenon, <2>1, <1>3, <1>4
  <2> HIDE DEF OfName, names, L, ss, Entry
  <2> QED BY Zenon, <1>3, <2>1, <2>2, <2>3, ListIs
<1>6. es = FlattenSeq(ss)
  BY Zenon DEF entries
<1> HIDE DEF ss, es
<1>7. PICK at : LaidOut(es, ss, at)
  <2> HIDE DEF Entry, L
  <2> QED BY Zenon, <1>5, <1>6, FlatIs
<1>8. es \in Seq(Entry) /\ Len(es) \in Nat
  <2>1. es \in Seq(Entry)
    <3> HIDE DEF Entry, L
    <3> QED BY Zenon, <1>5, <1>6, FlatIs
  <2> HIDE DEF Entry
  <2> QED BY SMT, <2>1
<1>9. \A l, n \in 1 .. L + 1 : l < n => at[l + 1] <= at[n]
  <2> HIDE DEF Entry, L, OfName
  <2>1. \A l, n \in 1 .. Len(ss) + 1 : l < n => at[l + 1] <= at[n]
    BY Zenon, <1>5, <1>7, <1>8, LaidInOrder
  <2> QED BY Zenon, <2>1, <1>5
<1>10. \A p \in 1 .. Len(es) : InText(p, ss, at)
  <2> HIDE DEF Entry, L, OfName
  <2> QED BY Zenon, <1>5, <1>7, <1>8, LaidCovers
<1>11. /\ at[1] = 0 /\ at[L + 1] = Len(es) /\ \A n \in 1 .. L + 1 : at[n] \in Nat
       /\ \A n \in 1 .. L : /\ at[n + 1] = at[n] + Len(ss[n])
                            /\ \A i \in 1 .. Len(ss[n]) : es[at[n] + i] = ss[n][i]
  <2> HIDE DEF Entry, L, OfName
  <2> QED BY Zenon, <1>5, <1>7 DEF LaidOut
<1>12. \A n \in 1 .. L : /\ Len(ss[n]) = Len(m[names[n]])
                         /\ \A i \in 1 .. Len(ss[n]) : ss[n][i] = <<names[n], m[names[n]][i]>>
  <2> HIDE DEF Entry, L, OfName, names
  <2> QED BY ZenonT(60), <1>3, <1>4, <1>5
<1>13. ASSUME NEW n \in 1 .. L
       PROVE  /\ at[n + 1] = at[n] + Len(m[names[n]])
              /\ \A i \in 1 .. Len(m[names[n]]) : es[at[n] + i] = <<names[n], m[names[n]][i]>>
  <2> HIDE DEF Entry, OfName, names, L
  <2>1. Len(ss[n]) = Len(m[names[n]]) /\ \A i \in 1 .. Len(ss[n]) : ss[n][i] = <<names[n], m[names[n]][i]>>
    BY Zenon, <1>12
  <2>2. at[n + 1] = at[n] + Len(ss[n]) /\ \A i \in 1 .. Len(ss[n]) : es[at[n] + i] = ss[n][i]
    BY Zenon, <1>11
  <2> QED BY Zenon, <2>1, <2>2
<1>14. ASSUME NEW p \in 1 .. Len(es)
       PROVE  \E n \in 1 .. L : \E i \in 1 .. Len(m[names[n]]) : p = at[n] + i
  <2>1. \E n \in 1 .. L : \E i \in 1 .. Len(ss[n]) : p = at[n] + i
    <3> HIDE DEF Entry, L, OfName, names
    <3> QED BY Zenon, <1>5, <1>10 DEF InText
  <2> HIDE DEF Entry, L, OfName, names
  <2> QED BY Zenon, <2>1, <1>12
<1>15. Entered(m, es, names, at)
  <2> HIDE DEF names, OfName
  <2> QED BY Zenon, <1>2, <1>8, <1>9, <1>11, <1>13, <1>14 DEF Entered
<1> QED BY Zenon, <1>15 DEF es

------------------------------------------------------------------------------
(* How many of a name's values are among the first n entries *)
Taken(a, len, n) == IF n <= a THEN 0 ELSE IF n >= a + len THEN len ELSE n - a

LEMMA TakenIs ==
  ASSUME NEW a \in Nat, NEW len \in Nat, NEW n \in Nat
  PROVE  /\ Taken(a, len, n) \in 0 .. len /\ Taken(a, len, n) \in Nat /\ Taken(a, len, n) <= len
         /\ Taken(a, len, 0) = 0
         /\ n >= a + len => Taken(a, len, n) = len /\ Taken(a, len, n + 1) = len
         /\ n < a => Taken(a, len, n) = 0 /\ Taken(a, len, n + 1) = 0
         /\ a <= n /\ n < a + len => Taken(a, len, n) = n - a /\ Taken(a, len, n + 1) = (n - a) + 1
BY SMT DEF Taken

LEMMA TakenPast ==
  ASSUME NEW a \in Nat, NEW len \in Nat, NEW n \in Nat, n >= a + len
  PROVE  Taken(a, len, n) = len /\ Taken(a, len, n + 1) = len
BY TakenIs

LEMMA TakenNone ==
  ASSUME NEW a \in Nat, NEW len \in Nat, NEW n \in Nat, n < a
  PROVE  Taken(a, len, n) = 0 /\ Taken(a, len, n + 1) = 0
BY TakenIs

LEMMA Past == ASSUME NEW a \in Nat, NEW n \in Nat, NEW b \in Nat, a <= b, b <= n PROVE n >= a
BY SMT

LEMMA Short == ASSUME NEW a \in Nat, NEW n \in Nat, NEW b \in Nat, b <= a, n < b PROVE n < a
BY SMT

(* The same entries, but for the ones without a value *)
Alike(pairs, es) ==
  /\ Len(pairs) = Len(es)
  /\ \A n \in 1 .. Len(es) :
       IF es[n][2] = <<>> THEN pairs[n][2] = <<>> ELSE pairs[n] = es[n]

LEMMA GrownBy ==
  ASSUME NEW S, NEW s \in Seq(S), NEW i \in Nat, i + 1 <= Len(s)
  PROVE  SubSeq(s, 1, i + 1) = Append(SubSeq(s, 1, i), s[i + 1])
<1> DEFINE a == SubSeq(s, 1, i + 1)
           b == Append(SubSeq(s, 1, i), s[i + 1])
<1>1. a \in Seq(S) /\ b \in Seq(S) /\ Len(a) = Len(b) /\ \A j \in 1 .. Len(a) : a[j] = b[j]
  BY SMT
<1> HIDE DEF a, b
<1>2. a = b
  BY Zenon, <1>1, SeqEqual
<1> QED BY Zenon, <1>2 DEF a, b

LEMMA BegunIs ==
  ASSUME NEW S, NEW s \in Seq(S)
  PROVE  /\ SubSeq(s, 1, 0) = <<>> /\ SubSeq(s, 1, Len(s)) = s
         /\ \A i \in Nat : i <= Len(s) => SubSeq(s, 1, i) \in Seq(S)
BY SMT

(* What is taken from the entries is the container, without its empty values. *)
LEMMA CollectedIs ==
  ASSUME NEW m, IsContainer(m), NEW pairs, Alike(pairs, entries(m))
  PROVE  Collected(pairs) = Filled(m)
<1> DEFINE es == entries(m)
           D == DOMAIN m
<1>1. PICK names, at : Entered(m, es, names, at)
  BY Zenon, EntriesAre
<1> HIDE DEF es
<1> DEFINE L == Len(names)
           Size(n) == Len(m[names[n]])
<1>2. /\ es \in Seq(Seq(Octets) \X Seq(Octets)) /\ Len(es) \in Nat
      /\ at[1] = 0 /\ at[L + 1] = Len(es)
      /\ \A n \in 1 .. L + 1 : at[n] \in Nat
      /\ \A n \in 1 .. L :
           /\ at[n + 1] = at[n] + Size(n)
           /\ \A i \in 1 .. Size(n) : es[at[n] + i] = <<names[n], m[names[n]][i]>>
      /\ \A l, n \in 1 .. L + 1 : l < n => at[l + 1] <= at[n]
      /\ \A p \in 1 .. Len(es) : \E n \in 1 .. L : \E i \in 1 .. Size(n) : p = at[n] + i
  BY Zenon, <1>1 DEF Entered
<1>3. /\ names \in Seq(D) /\ L \in Nat
      /\ \A l, n \in 1 .. L : names[l] = names[n] => l = n
      /\ \A k \in D : \E n \in 1 .. L : names[n] = k
  BY Zenon, <1>1 DEF Entered, Lists
<1>4. \A n \in 1 .. L : names[n] \in D
  BY SMT, <1>3
<1>5. \A k \in D : /\ m[k] \in Seq(Seq(Octets)) /\ Len(m[k]) \in Nat /\ IsName(k)
                   /\ \A i \in 1 .. Len(m[k]) : m[k][i] \in Seq(Octets)
  <2>1. \A k \in D : m[k] \in Seq(Seq(Octets)) /\ IsName(k)
    BY Zenon DEF IsContainer
  <2>2. \A s \in Seq(Seq(Octets)) : Len(s) \in Nat /\ \A i \in 1 .. Len(s) : s[i] \in Seq(Octets)
    BY SMT
  <2> QED BY Zenon, <2>1, <2>2
<1>6. \A n \in 1 .. L : Size(n) \in Nat /\ at[n] \in Nat /\ n \in 1 .. L + 1
  <2>1. \A n \in 1 .. L : n \in 1 .. L + 1
    BY SMT, <1>3
  <2> QED BY Zenon, <2>1, <1>2, <1>4, <1>5
<1> DEFINE Place(k) == CHOOSE n \in 1 .. L : names[n] = k
           Begun(k, n) == SubSeq(m[k], 1, Taken(at[Place(k)], Len(m[k]), n))
           Part(n) == [k \in D |-> Begun(k, n)]
<1>7. \A k \in D : Place(k) \in 1 .. L /\ names[Place(k)] = k
  <2> HIDE DEF D, L
  <2> QED BY Zenon, <1>3
<1>8. \A n \in 1 .. L : Place(names[n]) = n
  <2> HIDE DEF Place, D, L
  <2> QED BY Zenon, <1>3, <1>4, <1>7
<1>9. \A k \in D : at[Place(k)] \in Nat /\ Size(Place(k)) = Len(m[k])
  <2> HIDE DEF Place, D, L
  <2> QED BY Zenon, <1>6, <1>7
<1> HIDE DEF Place
<1>10. \A n \in Nat : Part(n) \in [D -> Seq(Seq(Octets))]
  <2>1. \A n \in Nat : \A k \in D : Begun(k, n) \in Seq(Seq(Octets))
    BY Zenon, <1>5, <1>9, TakenIs, BegunIs
  <2> HIDE DEF Begun, D
  <2> QED BY Zenon, <2>1
<1>11. Filled(Part(0)) = NoEntries
  <2>1. \A k \in D : Begun(k, 0) = <<>>
    <3>1. 0 \in Nat
      BY SMT
    <3> QED BY Zenon, <3>1, <1>5, <1>9, TakenIs, BegunIs
  <2>2. \A k \in D : Full(Part(0)[k]) = <<>>
    <3> HIDE DEF Begun
    <3> QED BY Zenon, <2>1, FullOfNone
  <2>3. DOMAIN Part(0) = D
    BY Zenon
  <2>4. {k \in DOMAIN Part(0) : Full(Part(0)[k]) # <<>>} = {}
    <3> HIDE DEF Part, D
    <3> QED BY Zenon, <2>2, <2>3
  <2>5. Filled(Part(0)) = [k \in {} |-> Full(Part(0)[k])]
    <3> HIDE DEF Part, D
    <3> QED BY Zenon, <2>4 DEF Filled
  <2>6. \A F : [k \in {} |-> F[k]] = NoEntries
    BY SMT DEF NoEntries
  <2> DEFINE F == [k \in {} |-> Full(Part(0)[k])]
  <2>7. F = [k \in {} |-> F[k]]
    BY Zenon
  <2> HIDE DEF F
  <2>8. F = NoEntries
    BY Zenon, <2>6, <2>7
  <2> QED BY Zenon, <2>5, <2>8 DEF F
<1>12. Part(Len(es)) = m
  <2>1. ASSUME NEW k \in D PROVE Begun(k, Len(es)) = m[k]
    <3> DEFINE n == Place(k)
               q == at[n + 1]
    <3>1. /\ n \in 1 .. L /\ n + 1 \in 1 .. L + 1 /\ n < L + 1 /\ L + 1 \in 1 .. L + 1
          /\ n \in 1 .. L + 1
      <4>1. n \in 1 .. L
        BY Zenon, <1>7
      <4> HIDE DEF n
      <4> QED BY SMT, <1>3, <4>1
    <3>2. at[n] \in Nat /\ Len(m[k]) \in Nat /\ q \in Nat /\ q = at[n] + Len(m[k]) /\ q <= Len(es)
      <4>1. at[n] \in Nat /\ q = at[n] + Len(m[k])
        BY Zenon, <3>1, <1>2, <1>6, <1>9
      <4>2. q \in Nat /\ q <= Len(es)
        BY Zenon, <3>1, <1>2
      <4> QED BY Zenon, <4>1, <4>2, <1>5
    <3> HIDE DEF q
    <3>3. Len(es) >= at[n] + Len(m[k])
      BY SMT, <3>2, <1>2
    <3>4. Taken(at[n], Len(m[k]), Len(es)) = Len(m[k])
      BY ZenonT(60), <3>2, <3>3, <1>2, TakenPast
    <3> QED BY Zenon, <3>4, <1>5, BegunIs
  <2>2. m = [k \in D |-> m[k]]
    BY Zenon DEF IsContainer
  <2> HIDE DEF Begun, D
  <2> QED BY Zenon, <2>1, <2>2
<1>13. ASSUME NEW n \in Nat, n + 1 <= Len(es)
       PROVE  \E k \in D : \E v \in Seq(Octets) :
                /\ es[n + 1] = <<k, v>>
                /\ Part(n + 1)[k] = Append(Part(n)[k], v)
                /\ \A l \in D : l # k => Part(n + 1)[l] = Part(n)[l]
  <2>1. n + 1 \in 1 .. Len(es) /\ n + 1 \in Nat
    BY SMT, <1>2, <1>13
  <2>2. PICK j \in 1 .. L : \E i \in 1 .. Size(j) : n + 1 = at[j] + i
    BY Zenon, <2>1, <1>2
  <2>3. PICK i \in 1 .. Size(j) : n + 1 = at[j] + i
    BY Zenon, <2>2
  <2> DEFINE k == names[j]
             v == m[k][i]
             d == n - at[j]
  <2>4. k \in D /\ Place(k) = j /\ v \in Seq(Octets)
    BY Zenon, <2>2, <2>3, <1>4, <1>5, <1>8
  <2>5. es[n + 1] = <<k, v>>
    BY Zenon, <2>2, <2>3, <1>2
  <2>6. /\ at[j] \in Nat /\ Size(j) \in Nat /\ at[j] <= n /\ n < at[j] + Size(j)
        /\ d \in Nat /\ d + 1 = i /\ d + 1 <= Size(j)
    <3>1. at[j] \in Nat /\ Size(j) \in Nat
      BY Zenon, <2>2, <1>6
    <3> HIDE DEF Size
    <3> QED BY SMTT(30), <2>3, <3>1
  <2>7. Begun(k, n + 1) = Append(Begun(k, n), v)
    <3>1. /\ Taken(at[j], Size(j), n) = d
          /\ Taken(at[j], Size(j), n + 1) = d + 1
      <4> HIDE DEF Size
      <4> QED BY Zenon, <2>6, TakenIs
    <3>2. SubSeq(m[k], 1, d + 1) = Append(SubSeq(m[k], 1, d), m[k][d + 1])
      <4>1. m[k] \in Seq(Seq(Octets)) /\ d + 1 <= Len(m[k])
        BY Zenon, <2>4, <2>6, <1>5
      <4> HIDE DEF k, d
      <4> QED BY Zenon, <4>1, <2>6, GrownBy
    <3> HIDE DEF d
    <3> QED BY Zenon, <3>1, <3>2, <2>4, <2>6
  <2>8. ASSUME NEW l \in D, l # k PROVE Begun(l, n + 1) = Begun(l, n)
    <3> DEFINE x == Place(l)
    <3>1. x \in 1 .. L /\ x # j /\ at[x] \in Nat /\ Len(m[l]) \in Nat /\ at[x + 1] = at[x] + Len(m[l])
      <4>1. x \in 1 .. L /\ names[x] = l
        BY Zenon, <1>7
      <4>2. x # j
        BY Zenon, <4>1, <2>8
      <4> QED BY Zenon, <4>1, <4>2, <1>2, <1>5, <1>6, <1>9
    <3> HIDE DEF x, Size
    <3>2. x < j \/ j < x
      BY SMT, <3>1, <1>3
    <3>3. at[j + 1] = at[j] + Size(j) /\ j \in 1 .. L + 1 /\ x \in 1 .. L + 1
      BY Zenon, <2>2, <3>1, <1>2, <1>6
    <3>4. CASE x < j
      <4>1. at[x + 1] <= at[j]
        BY Zenon, <3>3, <3>4, <1>2
      <4>2. n >= at[x] + Len(m[l])
        <5>1. at[x] + Len(m[l]) \in Nat
          BY SMT, <3>1
        <5>2. at[x] + Len(m[l]) <= at[j]
          BY Zenon, <4>1, <3>1
        <5> QED BY Zenon, <5>1, <5>2, <2>6, Past
      <4>3. Taken(at[x], Len(m[l]), n) = Taken(at[x], Len(m[l]), n + 1)
        <5>1. /\ Taken(at[x], Len(m[l]), n) = Len(m[l])
              /\ Taken(at[x], Len(m[l]), n + 1) = Len(m[l])
          BY Zenon, <4>2, <3>1, TakenPast
        <5> QED BY Zenon, <5>1
      <4> QED BY Zenon, <4>3 DEF x
    <3>5. CASE j < x
      <4>1. at[j + 1] <= at[x]
        BY Zenon, <3>3, <3>5, <1>2
      <4>2. n < at[x]
        <5>1. at[j] + Size(j) \in Nat
          BY SMT, <2>6
        <5>2. at[j] + Size(j) <= at[x]
          BY Zenon, <4>1, <3>3
        <5> QED BY Zenon, <5>1, <5>2, <2>6, <3>1, Short
      <4>3. Taken(at[x], Len(m[l]), n) = Taken(at[x], Len(m[l]), n + 1)
        <5>1. Taken(at[x], Len(m[l]), n) = 0 /\ Taken(at[x], Len(m[l]), n + 1) = 0
          BY Zenon, <4>2, <3>1, TakenNone
        <5> QED BY Zenon, <5>1
      <4> QED BY Zenon, <4>3 DEF x
    <3> QED BY Zenon, <3>2, <3>4, <3>5
  <2>9. /\ Part(n + 1)[k] = Append(Part(n)[k], v)
        /\ \A l \in D : l # k => Part(n + 1)[l] = Part(n)[l]
    <3> HIDE DEF Begun, D, v, k
    <3> QED BY Zenon, <2>4, <2>7, <2>8
  <2> HIDE DEF Part, D, v, k
  <2> QED BY Zenon, <2>4, <2>5, <2>9
<1> HIDE DEF Part, Size
<1>14. Len(pairs) = Len(es) /\ \A n \in 1 .. Len(es) :
         IF es[n][2] = <<>> THEN pairs[n][2] = <<>> ELSE pairs[n] = es[n]
  BY Zenon DEF Alike, es
<1>15. PICK f : Collects(f, pairs)
  BY Zenon, <1>2, <1>14, CollectsExists
<1>16. Collected(pairs) = f[Len(es)] /\ \A n \in 0 .. Len(es) : f[n] = CollectedAt(f, pairs, n)
  BY Zenon, <1>14, <1>15 DEF Collects
<1> DEFINE N == {n \in Nat : n <= Len(es) => f[n] = Filled(Part(n))}
<1>17. 0 \in N
  <2>1. 0 \in Nat /\ 0 \in 0 .. Len(es)
    BY SMT, <1>2
  <2>2. f[0] = NoEntries
    BY Zenon, <2>1, <1>16 DEF CollectedAt
  <2> QED BY Zenon, <2>1, <2>2, <1>11
<1>18. ASSUME NEW n \in Nat, n \in N PROVE n + 1 \in N
  <2>1. n + 1 \in Nat
    BY SMT
  <2> SUFFICES ASSUME n + 1 <= Len(es) PROVE f[n + 1] = Filled(Part(n + 1))
    BY Zenon, <2>1
  <2>2. n <= Len(es) /\ n + 1 \in 0 .. Len(es) /\ n + 1 # 0 /\ (n + 1) - 1 = n /\ n + 1 \in 1 .. Len(es)
    BY SMT, <1>2
  <2>3. f[n] = Filled(Part(n))
    BY Zenon, <1>18, <2>2
  <2>4. PICK k \in D : \E v \in Seq(Octets) :
                /\ es[n + 1] = <<k, v>>
                /\ Part(n + 1)[k] = Append(Part(n)[k], v)
                /\ \A l \in D : l # k => Part(n + 1)[l] = Part(n)[l]
    BY Zenon, <1>13
  <2>5. PICK v \in Seq(Octets) :
                /\ es[n + 1] = <<k, v>>
                /\ Part(n + 1)[k] = Append(Part(n)[k], v)
                /\ \A l \in D : l # k => Part(n + 1)[l] = Part(n)[l]
    BY Zenon, <2>4
  <2>6. Part(n) \in [D -> Seq(Seq(Octets))] /\ Part(n + 1) \in [D -> Seq(Seq(Octets))] /\ IsName(k)
    BY Zenon, <1>5, <1>10, <2>1
  <2>7. /\ v = <<>> => Filled(Part(n + 1)) = Filled(Part(n))
        /\ v # <<>> => Filled(Part(n + 1)) = append(Filled(Part(n)), k, v)
    <3> DEFINE less == Part(n)
               more == Part(n + 1)
               names0 == D
    <3>1. Grows(less, more, names0, k, v)
      BY Zenon, <2>5, <2>6 DEF Grows
    <3> HIDE DEF less, more, names0
    <3>2. /\ v = <<>> => Filled(more) = Filled(less)
          /\ v # <<>> => Filled(more) = append(Filled(less), k, v)
      BY SMT, <3>1, FilledGrows
    <3> QED BY Zenon, <3>2 DEF less, more
  <2>8. f[n + 1] = IF pairs[n + 1][2] = <<>> THEN f[n] ELSE append(f[n], pairs[n + 1][1], pairs[n + 1][2])
    <3>1. f[n + 1] = CollectedAt(f, pairs, n + 1)
      BY Zenon, <2>2, <1>16
    <3> QED BY Zenon, <3>1, <2>2 DEF CollectedAt
  <2>9. es[n + 1][1] = k /\ es[n + 1][2] = v
    <3>1. <<k, v>>[1] = k /\ <<k, v>>[2] = v
      OBVIOUS
    <3> QED BY Zenon, <2>5, <3>1
  <2>10. CASE v = <<>>
    <3>1. pairs[n + 1][2] = <<>>
      BY Zenon, <2>2, <2>9, <2>10, <1>14
    <3> QED BY Zenon, <3>1, <2>3, <2>7, <2>8, <2>10
  <2>11. CASE v # <<>>
    <3>1. pairs[n + 1][1] = k /\ pairs[n + 1][2] = v
      BY Zenon, <2>2, <2>9, <2>11, <1>14
    <3> QED BY Zenon, <3>1, <2>3, <2>7, <2>8, <2>11
  <2> QED BY Zenon, <2>10, <2>11
<1> HIDE DEF N
<1>19. \A n \in Nat : n \in N
  BY Zenon, <1>17, <1>18, Induct
<1>20. Len(es) <= Len(es)
  BY SMT, <1>2
<1>21. f[Len(es)] = Filled(Part(Len(es)))
  BY Zenon, <1>2, <1>19, <1>20 DEF N
<1> QED BY Zenon, <1>12, <1>16, <1>21

------------------------------------------------------------------------------
(* Texts cut at a separator *)

(* A byte that a text does not hold *)
Lacks(t, c) == \A i \in 1 .. Len(t) : t[i] # c

FirstPlace(t, x, k) ==
  /\ k \in 1 .. Len(t) /\ t[k] = x
  /\ \A j \in 1 .. Len(t) : j < k => t[j] # x

LEMMA FirstIs ==
  ASSUME NEW S, NEW t \in Seq(S), NEW x, NEW k, FirstPlace(t, x, k)
  PROVE  Find(t, x, 1) = k
<1>1. 1 \in Nat
  BY SMT
<1>2. k \in 1 .. Len(t) /\ t[k] = x /\ \A j \in 1 .. Len(t) : j < k => t[j] # x
  BY DEF FirstPlace
<1> QED BY ZenonT(60), <1>1, <1>2, FoundAt

(* A text cut at the first place of a byte *)
IsSplit(t, a, x, b, S) ==
  /\ a \in Seq(S) /\ x \in S /\ b \in Seq(S)
  /\ t = a \o <<x>> \o b /\ Lacks(a, x)

Splits(t, a, x, b) ==
  /\ Find(t, x, 1) = Len(a) + 1 /\ Len(a) + 1 <= Len(t)
  /\ Upto(t, Find(t, x, 1)) = a
  /\ From(t, Find(t, x, 1)) = <<x>> \o b
  /\ From(t, Find(t, x, 1) + 1) = b

LEMMA SplitAt ==
  ASSUME NEW S, NEW a, NEW x, NEW b, NEW t, IsSplit(t, a, x, b, S)
  PROVE  Splits(t, a, x, b)
<1>0. a \in Seq(S) /\ x \in S /\ b \in Seq(S) /\ t = a \o <<x>> \o b /\ Lacks(a, x)
  BY DEF IsSplit
<1>1. /\ t \in Seq(S) /\ Len(t) = Len(a) + 1 + Len(b)
      /\ \A i \in 1 .. Len(a) : t[i] = a[i]
      /\ t[Len(a) + 1] = x
      /\ SubSeq(t, 1, Len(a)) = a /\ SubSeq(t, Len(a) + 2, Len(t)) = b
  BY <1>0, JoinIs
<1> DEFINE k == Len(a) + 1
<1>2. /\ k \in 1 .. Len(t) /\ k <= Len(t) /\ k - 1 = Len(a) /\ k + 1 = Len(a) + 2 /\ 1 \in Nat
      /\ \A j \in 1 .. Len(t) : j < k => j \in 1 .. Len(a)
  BY SMT, <1>0, <1>1
<1>3. \A j \in 1 .. Len(t) : j < k => t[j] # x
  <2> HIDE DEF k
  <2> QED BY Zenon, <1>0, <1>1, <1>2 DEF Lacks
<1>4. Find(t, x, 1) = k
  <2>1. t[k] = x
    BY <1>1
  <2>2. FirstPlace(t, x, k)
    <3> HIDE DEF k
    <3> QED BY Zenon, <2>1, <1>2, <1>3 DEF FirstPlace
  <2> HIDE DEF k
  <2> QED BY Zenon, <2>2, <1>1, FirstIs
<1>5. Upto(t, k) = a /\ From(t, k + 1) = b
  <2> HIDE DEF k
  <2> QED BY Zenon, <1>1, <1>2 DEF Upto, From
<1>6. From(t, k) = <<x>> \o b
  <2>1. <<t[k]>> \o From(t, k + 1) = From(t, k)
    <3> HIDE DEF k
    <3> QED BY Zenon, <1>1, <1>2, SuffixGrows
  <2> QED BY Zenon, <2>1, <1>1, <1>5
<1> HIDE DEF k
<1>7. Find(t, x, 1) = k /\ k <= Len(t)
  BY Zenon, <1>2, <1>4
<1> QED BY Zenon, <1>4, <1>5, <1>6, <1>7 DEF k, Splits

LEMMA WholeIs ==
  ASSUME NEW S, NEW a \in Seq(S)
  PROVE  /\ SubSeq(a, 1, Len(a)) = a /\ SubSeq(a, Len(a) + 1, Len(a)) = <<>>
         /\ SubSeq(a, Len(a) + 2, Len(a)) = <<>>
BY SMT

LEMMA SplitNone ==
  ASSUME NEW S, NEW a \in Seq(S), NEW x, Lacks(a, x)
  PROVE  /\ Find(a, x, 1) = Len(a) + 1
         /\ Upto(a, Find(a, x, 1)) = a /\ From(a, Find(a, x, 1)) = <<>>
         /\ From(a, Find(a, x, 1) + 1) = <<>>
<1>1. {j \in 1 .. Len(a) : a[j] = x} = {}
  BY Zenon DEF Lacks
<1>2. Find(a, x, 1) = Len(a) + 1
  BY Zenon, <1>1 DEF Find
<1>3. (Len(a) + 1) - 1 = Len(a) /\ (Len(a) + 1) + 1 = Len(a) + 2
  BY SMT
<1> QED BY Zenon, <1>2, <1>3, WholeIs DEF Upto, From

(* A joint begins with a byte that no text and no other place of it holds. *)
Parting(ts, glue) ==
  /\ glue # <<>>
  /\ \A n \in 1 .. Len(ts) : Lacks(ts[n], glue[1])
  /\ \A j \in 1 .. Len(glue) : glue[j] = glue[1] => j = 1

Places(t, c) == {i \in 1 .. Len(t) : t[i] = c}

Jointed(t, ts, glue, b) ==
  \A n \in 1 .. Len(ts) - 1 :
    /\ b[n] + Len(ts[n]) + 1 \in 1 .. Len(t)
    /\ \A j \in 1 .. Len(glue) : t[(b[n] + Len(ts[n])) + j] = glue[j]
    /\ b[n + 1] = (b[n] + Len(ts[n])) + Len(glue)
    /\ b[n + 1] + Len(ts[n + 1]) <= Len(t)

(* This byte's places are where the texts end. *)
LEMMA CutsAre ==
  ASSUME NEW S, NEW ts \in Seq(Seq(S)), NEW glue \in Seq(S), NEW t \in Seq(S),
         NEW b, Spread(t, ts, glue, b), Parting(ts, glue)
  PROVE  /\ Places(t, glue[1]) = Joints(ts, b)
         /\ Jointed(t, ts, glue, b)
<1> DEFINE L == Len(ts)
           w == Len(glue)
           End(n) == b[n] + Len(ts[n])
           c == glue[1]
<1>0. /\ glue # <<>>
      /\ \A n \in 1 .. Len(ts) : Lacks(ts[n], c)
      /\ \A j \in 1 .. w : glue[j] = c => j = 1
  BY Zenon DEF Parting
<1>1. L \in Nat /\ w \in Nat /\ w >= 1 /\ Len(t) \in Nat /\ 1 \in 1 .. w
  BY SMT, <1>0
<1>2. /\ \A n \in 1 .. L :
          /\ b[n] \in Nat /\ End(n) \in Nat /\ End(n) <= Len(t)
          /\ \A i \in 1 .. Len(ts[n]) : t[b[n] + i] = ts[n][i]
      /\ \A n \in 1 .. L - 1 :
          /\ b[n + 1] = End(n) + w
          /\ \A j \in 1 .. w : t[End(n) + j] = glue[j]
      /\ \A p \in 1 .. Len(t) :
          \/ \E n \in 1 .. L : \E i \in 1 .. Len(ts[n]) : p = b[n] + i
          \/ \E n \in 1 .. L - 1 : \E j \in 1 .. w : p = End(n) + j
  BY Zenon DEF Spread
<1>3. \A n \in 1 .. L - 1 : n \in 1 .. L /\ n + 1 \in 1 .. L
  BY SMT, <1>1
<1>4. ASSUME NEW n \in 1 .. L - 1
      PROVE  /\ End(n) + 1 \in 1 .. Len(t) /\ t[End(n) + 1] = c
             /\ End(n + 1) <= Len(t)
  <2>1. /\ End(n) \in Nat /\ b[n + 1] = End(n) + w /\ b[n + 1] \in Nat
        /\ End(n + 1) = b[n + 1] + Len(ts[n + 1]) /\ End(n + 1) <= Len(t)
    BY Zenon, <1>2, <1>3
  <2>2. Len(ts[n + 1]) \in Nat
    <3>1. n + 1 \in 1 .. L
      BY Zenon, <1>3
    <3> QED BY SMT, <3>1
  <2>3. t[End(n) + 1] = c
    <3> HIDE DEF End
    <3> QED BY Zenon, <1>1, <1>2
  <2> HIDE DEF End
  <2>4. End(n) + 1 \in 1 .. Len(t)
    <3> DEFINE x == Len(ts[n + 1])
               y == b[n + 1]
               z == End(n)
    <3>1. z \in Nat /\ x \in Nat /\ y = z + w /\ y + x <= Len(t)
      BY Zenon, <2>1, <2>2
    <3> HIDE DEF x, y, z
    <3>2. z + 1 \in 1 .. Len(t)
      BY SMT, <1>1, <3>1
    <3> QED BY Zenon, <3>2 DEF z
  <2> QED BY Zenon, <2>1, <2>3, <2>4
<1>5. ASSUME NEW p \in 1 .. Len(t), t[p] = c PROVE \E n \in 1 .. L - 1 : p = End(n) + 1
  <2>1. CASE \E n \in 1 .. L : \E i \in 1 .. Len(ts[n]) : p = b[n] + i
    <3>1. PICK n \in 1 .. L : \E i \in 1 .. Len(ts[n]) : p = b[n] + i
      BY Zenon, <2>1
    <3>2. PICK i \in 1 .. Len(ts[n]) : p = b[n] + i
      BY Zenon, <3>1
    <3>3. t[p] = ts[n][i]
      BY Zenon, <3>1, <3>2, <1>2
    <3>4. ts[n][i] # c
      <4>1. Lacks(ts[n], c)
        BY Zenon, <1>0
      <4> QED BY Zenon, <4>1 DEF Lacks
    <3> QED BY Zenon, <3>3, <3>4, <1>5
  <2>2. CASE \E n \in 1 .. L - 1 : \E j \in 1 .. w : p = End(n) + j
    <3> HIDE DEF End
    <3>1. PICK n \in 1 .. L - 1 : \E j \in 1 .. w : p = End(n) + j
      BY Zenon, <2>2
    <3>2. PICK j \in 1 .. w : p = End(n) + j
      BY Zenon, <3>1
    <3>3. glue[j] = c
      BY Zenon, <3>1, <3>2, <1>2, <1>5
    <3>4. j = 1
      BY Zenon, <3>3, <1>0
    <3> QED BY Zenon, <3>2, <3>4
  <2> QED BY Zenon, <2>1, <2>2, <1>2
<1>6. Places(t, c) = Joints(ts, b)
  <2>1. \A p : p \in Places(t, c) <=> p \in 1 .. Len(t) /\ t[p] = c
    BY Zenon DEF Places
  <2>2. \A p : p \in Joints(ts, b) <=> \E n \in 1 .. L - 1 : p = End(n) + 1
    BY Zenon DEF Joints
  <2>3. ASSUME NEW p \in Places(t, c) PROVE p \in Joints(ts, b)
    <3> HIDE DEF End, L, c
    <3> QED BY Zenon, <1>5, <2>1, <2>2
  <2>4. ASSUME NEW p \in Joints(ts, b) PROVE p \in Places(t, c)
    <3> HIDE DEF End, L, c
    <3> QED BY ZenonT(60), <1>4, <2>1, <2>2
  <2> HIDE DEF c
  <2> QED BY Zenon, <2>3, <2>4
<1>7. \A n \in 1 .. L - 1 : /\ End(n) + 1 \in 1 .. Len(t)
                            /\ \A j \in 1 .. w : t[End(n) + j] = glue[j]
                            /\ b[n + 1] = End(n) + w /\ End(n + 1) <= Len(t)
  <2> HIDE DEF End, L, w
  <2> QED BY Zenon, <1>2, <1>4
<1> QED BY Zenon, <1>6, <1>7 DEF Jointed

(* A text between separators of one byte *)
IsApart(t, ts, c, S) ==
  /\ ts \in Seq(Seq(S)) /\ ts # <<>> /\ c \in S
  /\ t = Joined(ts, <<c>>) /\ \A n \in 1 .. Len(ts) : Lacks(ts[n], c)

LEMMA ApartAgain ==
  ASSUME NEW S, NEW ts, NEW c, NEW t, IsApart(t, ts, c, S)
  PROVE  t \in Seq(S) /\ Pieces(t, Places(t, c), 1) = ts
<1>0. /\ ts \in Seq(Seq(S)) /\ ts # <<>> /\ c \in S
      /\ t = Joined(ts, <<c>>) /\ \A n \in 1 .. Len(ts) : Lacks(ts[n], c)
  BY DEF IsApart
<1> DEFINE glue == <<c>>
<1>1. glue \in Seq(S) /\ glue # <<>> /\ Len(glue) = 1 /\ glue[1] = c /\ \A j \in 1 .. Len(glue) : j = 1
  BY SMT, <1>0
<1> HIDE DEF glue
<1>2. t \in Seq(S) /\ \E b : Spread(t, ts, glue, b)
  BY Zenon, <1>0, <1>1, JoinedIs DEF glue
<1>3. PICK b : Spread(t, ts, glue, b)
  BY Zenon, <1>2
<1>4. Places(t, glue[1]) = Joints(ts, b)
  <2>1. Parting(ts, glue)
    BY Zenon, <1>0, <1>1 DEF Parting
  <2> QED BY Zenon, <1>0, <1>1, <1>2, <1>3, <2>1, CutsAre
<1> DEFINE cuts == Places(t, c)
<1>5. cuts = Joints(ts, b)
  BY Zenon, <1>0, <1>1, <1>4
<1> HIDE DEF cuts
<1>6. Pieces(t, cuts, Len(glue)) = ts
  BY ZenonT(60), <1>0, <1>1, <1>2, <1>3, <1>5, PiecesOfJoined
<1> QED BY Zenon, <1>0, <1>1, <1>2, <1>6 DEF cuts

------------------------------------------------------------------------------
(* Search parameters *)

(* An entry: one of the container's names, and one of its values *)
EntryOf(m, e) ==
  /\ e = <<e[1], e[2]>> /\ e[1] \in DOMAIN m /\ IsName(e[1]) /\ e[2] \in Seq(Octets)
  /\ \E i \in 1 .. Len(m[e[1]]) : e[2] = m[e[1]][i]

LEMMA EachEntry ==
  ASSUME NEW m, IsContainer(m)
  PROVE  /\ Len(entries(m)) \in Nat
         /\ \A p \in 1 .. Len(entries(m)) : EntryOf(m, entries(m)[p])
<1> DEFINE es == entries(m)
<1>1. PICK names, at : Entered(m, es, names, at)
  BY Zenon, EntriesAre
<1> HIDE DEF es
<1>2. /\ Len(es) \in Nat /\ Lists(names, DOMAIN m)
      /\ \A n \in 1 .. Len(names) : \A i \in 1 .. Len(m[names[n]]) : es[at[n] + i] = <<names[n], m[names[n]][i]>>
      /\ \A p \in 1 .. Len(es) : \E n \in 1 .. Len(names) : \E i \in 1 .. Len(m[names[n]]) : p = at[n] + i
  BY Zenon, <1>1 DEF Entered
<1>3. \A n \in 1 .. Len(names) : names[n] \in DOMAIN m
  <2>1. names \in Seq(DOMAIN m)
    BY Zenon, <1>2 DEF Lists
  <2> QED BY SMT, <2>1
<1>4. \A k \in DOMAIN m : IsName(k) /\ \A i \in 1 .. Len(m[k]) : m[k][i] \in Seq(Octets)
  <2>1. \A s \in Seq(Seq(Octets)) : \A i \in 1 .. Len(s) : s[i] \in Seq(Octets)
    BY SMT
  <2> QED BY Zenon, <2>1 DEF IsContainer
<1>5. ASSUME NEW p \in 1 .. Len(es) PROVE EntryOf(m, es[p])
  <2>1. PICK n \in 1 .. Len(names) : \E i \in 1 .. Len(m[names[n]]) : p = at[n] + i
    BY Zenon, <1>2
  <2>2. PICK i \in 1 .. Len(m[names[n]]) : p = at[n] + i
    BY Zenon, <2>1
  <2> DEFINE k == names[n]
             v == m[k][i]
  <2>3. es[p] = <<k, v>> /\ k \in DOMAIN m /\ i \in 1 .. Len(m[k])
    BY Zenon, <2>1, <2>2, <1>2, <1>3
  <2>4. v = m[k][i]
    OBVIOUS
  <2> HIDE DEF k, v
  <2>5. <<k, v>>[1] = k /\ <<k, v>>[2] = v
    OBVIOUS
  <2>6. es[p][1] = k /\ es[p][2] = v
    BY Zenon, <2>3, <2>5
  <2>7. IsName(k) /\ v \in Seq(Octets)
    BY Zenon, <2>3, <2>4, <1>4
  <2> QED BY Zenon, <2>3, <2>4, <2>6, <2>7 DEF EntryOf
<1> QED BY Zenon, <1>2, <1>5 DEF es

(* The container of nothing but names without a value *)
LEMMA NothingEntered ==
  ASSUME NEW m, IsContainer(m), Len(entries(m)) = 0
  PROVE  Filled(m) = NoEntries
<1>1. Len(<<>>) = 0 /\ 1 .. 0 = {} /\ 0 \in Nat /\ 0 \in 0 .. 0
  BY SMT
<1>2. Alike(<<>>, entries(m))
  BY Zenon, <1>1 DEF Alike
<1>3. Collected(<<>>) = Filled(m)
  BY Zenon, <1>2, CollectedIs
<1>4. PICK f : Collects(f, <<>>)
  BY Zenon, <1>1, CollectsExists
<1>5. Collected(<<>>) = f[0] /\ f[0] = NoEntries
  BY Zenon, <1>1, <1>4 DEF Collects, CollectedAt
<1> QED BY Zenon, <1>3, <1>5

LEMMA FirstOf == ASSUME NEW a, NEW b PROVE <<a, b>>[1] = a /\ <<a, b>>[2] = b
OBVIOUS

(* A single pair without a value *)
LEMMA OnePassedOver ==
  ASSUME NEW pairs, Len(pairs) = 1, pairs[1][2] = <<>>
  PROVE  Collected(pairs) = NoEntries
<1>1. 1 \in Nat /\ 1 \in 0 .. 1 /\ 0 \in 0 .. 1 /\ 1 # 0 /\ 1 - 1 = 0
  BY SMT
<1>2. PICK f : Collects(f, pairs)
  BY Zenon, <1>1, CollectsExists
<1>3. Collected(pairs) = f[1] /\ f[1] = CollectedAt(f, pairs, 1) /\ f[0] = CollectedAt(f, pairs, 0)
  BY Zenon, <1>1, <1>2 DEF Collects
<1>4. f[0] = NoEntries /\ f[1] = f[0]
  BY Zenon, <1>1, <1>3 DEF CollectedAt
<1> QED BY Zenon, <1>3, <1>4

(* The one piece of nothing *)
LEMMA PieceOfNothing ==
  ASSUME NEW w
  PROVE  Pieces(<<>>, {}, w) = << <<>> >>
<1> DEFINE q == [n \in 1 .. 1 |-> 1]
<1>1. 1 \in Nat /\ Len(<<>>) + 1 = 1 /\ (\A n \in 1 .. 1 : n = 1) /\ 1 \in 1 .. 1 /\ 1 - 1 = 0
  BY SMT
<1>2. {q[n] : n \in 1 .. 1} = {} \cup {Len(<<>>) + 1}
  <2>1. \A n \in 1 .. 1 : q[n] = 1
    BY Zenon
  <2> HIDE DEF q
  <2> QED BY Zenon, <2>1, <1>1
<1>3. Rising(q, 1)
  <2>1. \A n \in 1 .. 1 : q[n] = 1
    BY Zenon
  <2>2. \A m, n \in 1 .. 1 : ~(m < n)
    BY SMT
  <2> HIDE DEF q
  <2> QED BY Zenon, <2>1, <2>2, <1>1 DEF Rising
<1>4. q = [n \in 1 .. 1 |-> q[n]] /\ Len(q) = 1 /\ q[1] = 1
  BY SMT
<1> HIDE DEF q
<1>5. Ordered({} \cup {Len(<<>>) + 1}) = q
  BY Zenon, <1>1, <1>2, <1>3, <1>4, OrderedIs
<1>6. Pieces(<<>>, {}, w) =
        [n \in 1 .. 1 |-> SubSeq(<<>>, IF n = 1 THEN 1 ELSE q[n - 1] + w, q[n] - 1)]
  BY Zenon, <1>4, <1>5 DEF Pieces
<1>7. SubSeq(<<>>, 1, 0) = <<>>
  BY SMT
<1>8. \A n \in 1 .. 1 : SubSeq(<<>>, IF n = 1 THEN 1 ELSE q[n - 1] + w, q[n] - 1) = <<>>
  BY Zenon, <1>1, <1>4, <1>7
<1>9. Pieces(<<>>, {}, w) = [n \in 1 .. 1 |-> <<>>]
  BY Zenon, <1>6, <1>8
<1>10. [n \in 1 .. 1 |-> <<>>] = << <<>> >>
  BY SMT
<1> QED BY Zenon, <1>9, <1>10

(* Of nothing, nothing is encoded. *)
LEMMA EncodedNothing ==
  ASSUME NEW text \in Seq(Octets)
  PROVE  encode(text) = <<>> <=> text = <<>>
<1>1. <<>> \in Seq(Octets)
  BY SMT
<1>2. encode(<<>>) = <<>>
  <2>1. encode(<<>>) \in Seq(Codes) /\ \E at : LaidOut(encode(<<>>), Tokens(<<>>), at)
    BY Zenon, <1>1, EncodeIs
  <2>2. Len(Tokens(<<>>)) = Len(<<>>)
    BY Zenon, <1>1, EncodeIs
  <2>3. PICK at : LaidOut(encode(<<>>), Tokens(<<>>), at)
    BY Zenon, <2>1
  <2>4. Len(<<>>) = 0 /\ 0 + 1 = 1
    BY SMT
  <2>5. at[0 + 1] = Len(encode(<<>>)) /\ at[1] = 0
    BY Zenon, <2>2, <2>3, <2>4 DEF LaidOut
  <2>6. Len(encode(<<>>)) = 0
    BY Zenon, <2>4, <2>5
  <2> QED BY SMT, <2>1, <2>6
<1>3. ASSUME encode(text) = <<>> PROVE text = <<>>
  <2>1. decode(encode(text)) = text
    BY Zenon, PercentReadsBack
  <2>2. decode(encode(<<>>)) = <<>>
    BY Zenon, <1>1, PercentReadsBack
  <2> QED BY Zenon, <2>1, <2>2, <1>2, <1>3
<1> QED BY Zenon, <1>2, <1>3

(* A pair, and its two sides *)
LEMMA PairIs ==
  ASSUME NEW S, Equals \in S, NEW a \in Seq(S), NEW b \in Seq(S), Lacks(a, Equals)
  PROVE  Pair(a \o <<Equals>> \o b) = <<a, b>>
<1> DEFINE t == a \o <<Equals>> \o b
<1>1. Upto(t, Find(t, Equals, 1)) = a /\ From(t, Find(t, Equals, 1) + 1) = b
  <2>1. IsSplit(t, a, Equals, b, S)
    BY Zenon DEF IsSplit
  <2> HIDE DEF t
  <2>2. Splits(t, a, Equals, b)
    BY Zenon, <2>1, SplitAt
  <2> QED BY Zenon, <2>2 DEF Splits
<1> QED BY Zenon, <1>1 DEF Pair

LEMMA PairOfNothing == Pair(<<>>) = NoPair
<1>1. <<>> \in Seq(Nat) /\ Lacks(<<>>, Equals)
  BY SMT DEF Lacks
<1>2. Upto(<<>>, Find(<<>>, Equals, 1)) = <<>> /\ From(<<>>, Find(<<>>, Equals, 1) + 1) = <<>>
  BY Zenon, <1>1, SplitNone
<1> QED BY Zenon, <1>2 DEF Pair, NoPair

(* The bytes of a text of parameters *)
Printed == Codes \cup {Amp, Equals}

PrintedEntry(e) == encode(e[1]) \o <<Equals>> \o encode(e[2])

LEMMA PrintedIs ==
  ASSUME NEW m, NEW e, EntryOf(m, e)
  PROVE  /\ PrintedEntry(e) \in Seq(Printed) /\ Lacks(PrintedEntry(e), Amp)
         /\ Pair(PrintedEntry(e)) = <<encode(e[1]), encode(e[2])>>
<1> DEFINE a == encode(e[1])
           b == encode(e[2])
           W == Codes \cup {Equals}
           t == PrintedEntry(e)
<1>1. e[1] \in Seq(Octets) /\ e[2] \in Seq(Octets)
  BY Zenon, NameIs DEF EntryOf
<1>2. a \in Seq(Codes) /\ b \in Seq(Codes)
  BY Zenon, <1>1, EncodeIs
<1>3. Equals \notin Codes /\ Amp \notin Codes /\ Amp # Equals
  <2>1. Equals \notin Codes /\ Amp \notin Codes
    BY Zenon, CodesAre
  <2> QED BY SMT, <2>1 DEF Amp, Equals
<1> HIDE DEF a, b
<1>4. Lacks(a, Equals)
  <2>1. \A i \in 1 .. Len(a) : a[i] \in Codes
    BY SMT, <1>2
  <2> QED BY Zenon, <2>1, <1>3 DEF Lacks
<1>5. a \in Seq(W) /\ b \in Seq(W) /\ Equals \in W
  BY SMT, <1>2
<1>6. t = a \o <<Equals>> \o b
  BY DEF PrintedEntry, a, b
<1> HIDE DEF t
<1>7. t \in Seq(W)
  <2> HIDE DEF W
  <2> QED BY ZenonT(60), <1>5, <1>6, JoinIs
<1>8. \A i \in 1 .. Len(t) : t[i] \in W
  <2> HIDE DEF W
  <2> QED BY SMT, <1>7
<1>9. Lacks(t, Amp)
  BY Zenon, <1>3, <1>8 DEF Lacks
<1>10. Pair(t) = <<a, b>>
  <2> HIDE DEF W
  <2> QED BY Zenon, <1>4, <1>5, <1>6, PairIs
<1>11. t \in Seq(Printed)
  <2>1. \A c \in W : c \in Printed
    BY Zenon DEF Printed
  <2> HIDE DEF W
  <2> QED BY SMT, <1>7, <2>1
<1> QED BY Zenon, <1>9, <1>10, <1>11 DEF t, a, b

(* A pair as it is taken *)
Decoded(pair) ==
  IF pair[1] = <<>> \/ pair[2] = <<>> THEN NoPair ELSE <<decode(pair[1]), decode(pair[2])>>

LEMMA PairsAre ==
  ASSUME NEW params, NEW pieces, pieces = Pieces(params, Places(params, Amp), 1)
  PROVE  PairsOf(params) = [n \in 1 .. Len(pieces) |-> Decoded(Pair(pieces[n]))]
BY Zenon DEF PairsOf, Decoded, Places

LEMMA DecodedEntry ==
  ASSUME NEW m, NEW e, EntryOf(m, e)
  PROVE  Decoded(Pair(PrintedEntry(e))) = IF e[2] = <<>> THEN NoPair ELSE e
<1> DEFINE a == encode(e[1])
           b == encode(e[2])
<1>1. e = <<e[1], e[2]>> /\ e[1] \in Seq(Octets) /\ e[2] \in Seq(Octets) /\ e[1] # <<>>
  BY Zenon, NameIs DEF EntryOf
<1>2. Pair(PrintedEntry(e)) = <<a, b>>
  BY Zenon, PrintedIs
<1>3. a # <<>> /\ (b = <<>> <=> e[2] = <<>>) /\ decode(a) = e[1] /\ decode(b) = e[2]
  BY Zenon, <1>1, EncodedNothing, PercentReadsBack
<1> HIDE DEF a, b
<1>4. Decoded(<<a, b>>) = IF a = <<>> \/ b = <<>> THEN NoPair ELSE <<decode(a), decode(b)>>
  BY Zenon, FirstOf DEF Decoded
<1> QED BY Zenon, <1>1, <1>2, <1>3, <1>4

(* What is printed and taken apart again *)
LEMMA PrintedApart ==
  ASSUME NEW m, IsContainer(m)
  PROVE  /\ search_to_string(m) \in Seq(Printed)
         /\ IF Len(entries(m)) = 0 THEN PairsOf(search_to_string(m)) = [n \in 1 .. 1 |-> NoPair]
            ELSE /\ Len(PairsOf(search_to_string(m))) = Len(entries(m))
                 /\ \A n \in 1 .. Len(entries(m)) :
                      PairsOf(search_to_string(m))[n] =
                        IF entries(m)[n][2] = <<>> THEN NoPair ELSE entries(m)[n]
<1> DEFINE es == entries(m)
           L == Len(es)
           ts == [i \in 1 .. L |-> PrintedEntry(es[i])]
           t == search_to_string(m)
<1>1. L \in Nat /\ \A n \in 1 .. L : EntryOf(m, es[n])
  BY Zenon, EachEntry
<1>2. t = Joined(ts, <<Amp>>)
  BY Zenon DEF search_to_string, PrintedEntry
<1> HIDE DEF es
<1>3. ts \in Seq(Seq(Printed)) /\ Len(ts) = L /\ \A n \in 1 .. L : ts[n] = PrintedEntry(es[n])
  <2>1. \A n \in 1 .. L : ts[n] = PrintedEntry(es[n])
    BY Zenon
  <2>2. ts = [n \in 1 .. L |-> ts[n]]
    BY Zenon
  <2>3. \A n \in 1 .. L : ts[n] \in Seq(Printed)
    BY Zenon, <1>1, <2>1, PrintedIs
  <2> HIDE DEF ts
  <2> QED BY Zenon, <1>1, <2>1, <2>2, <2>3, ListIs
<1> HIDE DEF ts, t
<1>4. CASE L = 0
  <2>1. ts = <<>>
    BY SMT, <1>3, <1>4
  <2>2. Joined(ts, <<Amp>>) = <<>>
    <3>1. [n \in 1 .. Len(<<>>) |-> IF n = 1 THEN <<>>[n] ELSE <<Amp>> \o <<>>[n]] = <<>>
      BY SMT
    <3>2. Joined(<<>>, <<Amp>>) = FlattenSeq(<<>>)
      BY Zenon, <3>1 DEF Joined
    <3>3. FlattenSeq(<<>>) = <<>>
      BY SMT DEF FlattenSeq
    <3> QED BY Zenon, <2>1, <3>2, <3>3
  <2>3. t = <<>> /\ <<>> \in Seq(Printed)
    <3>1. <<>> \in Seq(Printed)
      BY SMT
    <3> QED BY Zenon, <1>2, <2>2, <3>1
  <2>4. Places(<<>>, Amp) = {}
    BY SMT DEF Places
  <2> DEFINE pieces == << <<>> >>
  <2>5. pieces = Pieces(<<>>, Places(<<>>, Amp), 1) /\ Len(pieces) = 1 /\ 1 \in Nat
    <3>1. Len(pieces) = 1 /\ 1 \in Nat
      BY SMT
    <3> QED BY Zenon, <3>1, <2>4, PieceOfNothing
  <2>6. \A n \in 1 .. 1 : pieces[n] = <<>>
    BY SMT
  <2>7. Decoded(NoPair) = NoPair
    BY Zenon, FirstOf DEF Decoded, NoPair
  <2> HIDE DEF pieces
  <2>8. PairsOf(<<>>) = [n \in 1 .. 1 |-> Decoded(Pair(pieces[n]))]
    <3>1. pieces = Pieces(<<>>, Places(<<>>, Amp), 1)
      BY Zenon, <2>5
    <3>2. PairsOf(<<>>) = [n \in 1 .. Len(pieces) |-> Decoded(Pair(pieces[n]))]
      BY ZenonT(60), <3>1, PairsAre
    <3> QED BY Zenon, <2>5, <3>2
  <2>9. \A n \in 1 .. 1 : Decoded(Pair(pieces[n])) = NoPair
    BY Zenon, <2>6, <2>7, PairOfNothing
  <2>10. PairsOf(t) = [n \in 1 .. 1 |-> NoPair]
    BY Zenon, <2>3, <2>8, <2>9
  <2> QED BY Zenon, <2>3, <2>10, <1>4 DEF t, es
<1>5. CASE L # 0
  <2>1. ts # <<>>
    BY SMT, <1>1, <1>3, <1>5
  <2>2. Amp \in Printed
    BY DEF Printed
  <2>3. \A n \in 1 .. Len(ts) : Lacks(ts[n], Amp)
    BY Zenon, <1>1, <1>3, PrintedIs
  <2>4. t \in Seq(Printed) /\ Pieces(t, Places(t, Amp), 1) = ts
    <3>1. IsApart(t, ts, Amp, Printed)
      BY Zenon, <1>2, <1>3, <2>1, <2>2, <2>3 DEF IsApart
    <3> QED BY Zenon, <3>1, ApartAgain
  <2>5. PairsOf(t) = [n \in 1 .. L |-> Decoded(Pair(ts[n]))]
    <3>1. PairsOf(t) = [n \in 1 .. Len(ts) |-> Decoded(Pair(ts[n]))]
      BY ZenonT(60), <2>4, PairsAre
    <3> QED BY Zenon, <1>3, <3>1
  <2>6. \A n \in 1 .. L : Decoded(Pair(ts[n])) = IF es[n][2] = <<>> THEN NoPair ELSE es[n]
    BY Zenon, <1>1, <1>3, DecodedEntry
  <2>7. \A n \in 1 .. L : PairsOf(t)[n] = IF es[n][2] = <<>> THEN NoPair ELSE es[n]
    <3> HIDE DEF L
    <3> QED BY Zenon, <2>5, <2>6
  <2>8. Len(PairsOf(t)) = L
    <3> HIDE DEF L
    <3> QED BY SMT, <1>1, <2>5
  <2> QED BY Zenon, <2>4, <2>7, <2>8, <1>5 DEF t, es
<1> QED BY Zenon, <1>4, <1>5

(* Pairs of texts, and what is collected from them *)
OctetPairs(pairs) ==
  /\ Len(pairs) \in Nat
  /\ \A n \in 1 .. Len(pairs) : pairs[n][1] \in Seq(Octets) /\ pairs[n][2] \in Seq(Octets)

LEMMA CollectedKeeps ==
  ASSUME NEW pairs, OctetPairs(pairs)
  PROVE  IsContainer(Collected(pairs))
<1>1. /\ Len(pairs) \in Nat
      /\ \A n \in 1 .. Len(pairs) : pairs[n][1] \in Seq(Octets) /\ pairs[n][2] \in Seq(Octets)
  BY Zenon DEF OctetPairs
<1>2. PICK f : Collects(f, pairs)
  BY Zenon, <1>1, CollectsExists
<1>3. Collected(pairs) = f[Len(pairs)] /\ \A n \in 0 .. Len(pairs) : f[n] = CollectedAt(f, pairs, n)
  BY Zenon, <1>2 DEF Collects
<1> DEFINE Good == {n \in Nat : n <= Len(pairs) => IsContainer(f[n])}
<1>4. 0 \in Good
  <2>1. 0 \in 0 .. Len(pairs) /\ 0 \in Nat
    BY SMT, <1>1
  <2>2. f[0] = NoEntries
    BY Zenon, <1>3, <2>1 DEF CollectedAt
  <2> QED BY Zenon, <2>1, <2>2, NoEntriesIs
<1>5. ASSUME NEW n \in Nat, n \in Good PROVE n + 1 \in Good
  <2>1. n + 1 \in Nat
    BY SMT
  <2>2. ASSUME n + 1 <= Len(pairs) PROVE IsContainer(f[n + 1])
    <3>1. /\ n + 1 \in 0 .. Len(pairs) /\ n + 1 \in 1 .. Len(pairs) /\ n + 1 # 0
          /\ (n + 1) - 1 = n /\ n <= Len(pairs)
      BY SMT, <1>1, <2>2
    <3>2. f[n + 1] = CollectedAt(f, pairs, n + 1) /\ IsContainer(f[n])
      BY Zenon, <1>3, <3>1, <1>5
    <3> DEFINE k == pairs[n + 1][1]
               v == pairs[n + 1][2]
    <3>3. k \in Seq(Octets) /\ v \in Seq(Octets)
      BY Zenon, <1>1, <3>1
    <3>4. f[n + 1] = IF v = <<>> THEN f[n] ELSE append(f[n], k, v)
      BY Zenon, <3>1, <3>2 DEF CollectedAt
    <3> HIDE DEF k, v
    <3>5. IsContainer(append(f[n], k, v))
      BY Zenon, <3>2, <3>3, OperationsKeep
    <3>6. CASE v = <<>>
      <4>1. f[n + 1] = f[n]
        BY Zenon, <3>4, <3>6
      <4> QED BY Zenon, <4>1, <3>2
    <3>7. CASE v # <<>>
      <4> DEFINE a == append(f[n], k, v)
      <4>1. f[n + 1] = a
        BY Zenon, <3>4, <3>7
      <4>2. IsContainer(a)
        BY Zenon, <3>5
      <4> HIDE DEF a
      <4> QED BY Zenon, <4>1, <4>2
    <3> QED BY Zenon, <3>6, <3>7
  <2> QED BY Zenon, <2>1, <2>2
<1> HIDE DEF Good
<1>6. \A n \in Nat : n \in Good
  BY Zenon, <1>4, <1>5, Induct
<1>7. Len(pairs) <= Len(pairs)
  BY SMT, <1>1
<1> QED BY Zenon, <1>1, <1>3, <1>6, <1>7 DEF Good

LEMMA PlainDoesNotThrow ==
  ASSUME NEW t \in Seq(Octets)
  PROVE  ~Contains(t, Throws)
<1>1. Throws \notin Octets
  BY SMT DEF Throws, Octets
<1>2. \A i \in 1 .. Len(t) : t[i] \in Octets
  BY Zenon, OctetsAre
<1> QED BY Zenon, <1>1, <1>2 DEF Contains

LEMMA PlainPairs ==
  ASSUME NEW params, OctetPairs(PairsOf(params))
  PROVE  ~SearchThrows(params)
<1> SUFFICES ASSUME SearchThrows(params) PROVE FALSE
  OBVIOUS
<1>1. PICK n \in 1 .. Len(PairsOf(params)) : \E side \in {1, 2} : Contains(PairsOf(params)[n][side], Throws)
  BY Zenon DEF SearchThrows
<1>2. PICK side \in {1, 2} : Contains(PairsOf(params)[n][side], Throws)
  BY Zenon, <1>1
<1>3. PairsOf(params)[n][side] \in Seq(Octets)
  BY Zenon, <1>2 DEF OctetPairs
<1> QED BY Zenon, <1>2, <1>3, PlainDoesNotThrow

LEMMA NoPairIs == NoPair[1] = <<>> /\ NoPair[2] = <<>> /\ <<>> \in Seq(Octets)
<1>1. <<>> \in Seq(Octets)
  BY SMT
<1> QED BY Zenon, <1>1, FirstOf DEF NoPair

(* What is printed of a container is read as that container. *)
LEMMA SearchIsRead ==
  ASSUME NEW m, IsContainer(m)
  PROVE  /\ SearchOf(search_to_string(m)) = Filled(m)
         /\ ~SearchThrows(search_to_string(m))
<1> DEFINE t == search_to_string(m)
           es == entries(m)
           pairs == PairsOf(t)
<1>1. IF Len(es) = 0 THEN pairs = [n \in 1 .. 1 |-> NoPair]
      ELSE /\ Len(pairs) = Len(es)
           /\ \A n \in 1 .. Len(es) : pairs[n] = IF es[n][2] = <<>> THEN NoPair ELSE es[n]
  BY Zenon, PrintedApart
<1>2. Len(es) \in Nat /\ \A n \in 1 .. Len(es) : EntryOf(m, es[n])
  BY Zenon, EachEntry
<1>3. pairs = PairsOf(t)
  BY Zenon
<1>4. SearchOf(t) = Collected(pairs)
  BY Zenon DEF SearchOf
<1>5. es = entries(m)
  BY Zenon
<1> SUFFICES SearchOf(t) = Filled(m) /\ ~SearchThrows(t)
  BY Zenon
<1> HIDE DEF t, es, pairs
<1>6. CASE Len(es) = 0
  <2>1. pairs = [n \in 1 .. 1 |-> NoPair]
    BY Zenon, <1>1, <1>6
  <2>2. Len(pairs) = 1 /\ 1 \in Nat /\ 1 \in 1 .. 1
    BY SMT, <2>1
  <2>3. \A n \in 1 .. 1 : pairs[n] = NoPair
    BY Zenon, <2>1
  <2>4. pairs[1][2] = <<>>
    BY Zenon, <2>2, <2>3, NoPairIs
  <2>5. Collected(pairs) = NoEntries
    BY Zenon, <2>2, <2>4, OnePassedOver
  <2>6. Filled(m) = NoEntries
    BY Zenon, <1>5, <1>6, NothingEntered
  <2>7. OctetPairs(pairs)
    BY Zenon, <2>2, <2>3, NoPairIs DEF OctetPairs
  <2> QED BY Zenon, <1>3, <1>4, <2>5, <2>6, <2>7, PlainPairs
<1>7. CASE Len(es) # 0
  <2>1. /\ Len(pairs) = Len(es)
        /\ \A n \in 1 .. Len(es) : pairs[n] = IF es[n][2] = <<>> THEN NoPair ELSE es[n]
    BY Zenon, <1>1, <1>7
  <2>2. Alike(pairs, es)
    BY Zenon, <2>1, NoPairIs DEF Alike
  <2>3. Collected(pairs) = Filled(m)
    BY Zenon, <1>5, <2>2, CollectedIs
  <2>4. ASSUME NEW n \in 1 .. Len(es)
        PROVE  pairs[n][1] \in Seq(Octets) /\ pairs[n][2] \in Seq(Octets)
    <3>1. es[n][1] \in Seq(Octets) /\ es[n][2] \in Seq(Octets)
      BY Zenon, <1>2, NameIs DEF EntryOf
    <3>2. CASE es[n][2] = <<>>
      <4>1. pairs[n] = NoPair
        BY Zenon, <2>1, <3>2
      <4> QED BY Zenon, <4>1, NoPairIs
    <3>3. CASE es[n][2] # <<>>
      <4>1. pairs[n] = es[n]
        BY Zenon, <2>1, <3>3
      <4> QED BY Zenon, <4>1, <3>1
    <3> QED BY Zenon, <3>2, <3>3
  <2>5. OctetPairs(pairs)
    BY Zenon, <1>2, <2>1, <2>4 DEF OctetPairs
  <2> QED BY Zenon, <1>3, <1>4, <2>3, <2>5, PlainPairs
<1> QED BY Zenon, <1>6, <1>7

LEMMA PieceIs ==
  ASSUME NEW S, NEW t \in Seq(S), NEW lo \in Nat, lo >= 1, NEW hi \in Nat, hi <= Len(t)
  PROVE  SubSeq(t, lo, hi) \in Seq(S)
BY SMT

(* The pieces of a text are texts. *)
LEMMA PiecesAre ==
  ASSUME NEW S, NEW t \in Seq(S), NEW cuts, cuts \subseteq 1 .. Len(t), NEW w \in Nat
  PROVE  Pieces(t, cuts, w) \in Seq(Seq(S)) /\ Len(Pieces(t, cuts, w)) \in Nat
<1> DEFINE P == cuts \cup {Len(t) + 1}
           ends == Ordered(P)
           C == Cardinality(P)
           Piece(n) == SubSeq(t, IF n = 1 THEN 1 ELSE ends[n - 1] + w, ends[n] - 1)
           ps == [n \in 1 .. Len(ends) |-> Piece(n)]
<1>1. /\ Len(t) \in Nat /\ P \subseteq Nat
      /\ \A p \in P : p \in Nat /\ p >= 1 /\ p - 1 \in Nat /\ p - 1 <= Len(t) /\ p + w \in Nat /\ p + w >= 1
  <2>1. Len(t) \in Nat
    BY SMT
  <2>2. \A p \in P : p \in 1 .. Len(t) + 1
    BY SMT, <2>1
  <2> HIDE DEF P
  <2>3. \A p \in 1 .. Len(t) + 1 :
          p \in Nat /\ p >= 1 /\ p - 1 \in Nat /\ p - 1 <= Len(t) /\ p + w \in Nat /\ p + w >= 1
    BY SMT, <2>1
  <2> QED BY Zenon, <2>1, <2>2, <2>3
<1>2. IsFiniteSet(P)
  <2>1. IsFiniteSet(1 .. Len(t))
    <3>1. 1 \in Int /\ Len(t) \in Int
      BY SMT
    <3> QED BY Zenon, <3>1, FS_Interval
  <2>2. IsFiniteSet(cuts)
    BY Zenon, <2>1, FS_Subset
  <2> QED BY Zenon, <2>2, FS_AddElement
<1> HIDE DEF P
<1>3. C \in Nat /\ ends \in Seq(P) /\ Len(ends) = C
  BY Zenon, <1>1, <1>2, OrderedAre
<1> HIDE DEF C, ends
<1>4. \A n \in 1 .. C : ends[n] \in P /\ (n # 1 => n - 1 \in 1 .. C)
  BY SMT, <1>3
<1>5. ASSUME NEW n \in 1 .. C PROVE Piece(n) \in Seq(S)
  <2> DEFINE lo == IF n = 1 THEN 1 ELSE ends[n - 1] + w
             hi == ends[n] - 1
  <2>1. hi \in Nat /\ hi <= Len(t)
    BY Zenon, <1>1, <1>4
  <2>2. lo \in Nat /\ lo >= 1
    <3>1. CASE n = 1
      BY SMT, <3>1
    <3>2. CASE n # 1
      BY Zenon, <3>2, <1>1, <1>4
    <3> QED BY Zenon, <3>1, <3>2
  <2> HIDE DEF lo, hi
  <2>3. SubSeq(t, lo, hi) \in Seq(S)
    BY Zenon, <2>1, <2>2, PieceIs
  <2> QED BY Zenon, <2>3 DEF lo, hi
<1>6. Pieces(t, cuts, w) = ps
  BY Zenon DEF Pieces, ends, P
<1>7. ps = [n \in 1 .. C |-> ps[n]] /\ \A n \in 1 .. C : ps[n] \in Seq(S)
  <2>1. ps = [n \in 1 .. C |-> Piece(n)]
    BY Zenon, <1>3
  <2> HIDE DEF Piece, ps
  <2> QED BY Zenon, <1>5, <2>1
<1> HIDE DEF ps
<1>8. ps \in Seq(Seq(S)) /\ Len(ps) = C
  BY Zenon, <1>3, <1>7, ListIs
<1> QED BY Zenon, <1>3, <1>6, <1>8

LEMMA BehindIs ==
  ASSUME NEW text \in Seq(Octets), NEW c
  PROVE  From(text, Find(text, c, 1) + 1) \in Seq(Octets)
<1>1. 1 \in Nat /\ Len(text) \in Nat
  BY SMT
<1>2. Find(text, c, 1) = Len(text) + 1 \/ Find(text, c, 1) \in 1 .. Len(text)
  BY Zenon, <1>1, FindIs
<1>3. Find(text, c, 1) \in Nat /\ Find(text, c, 1) >= 1
  BY SMT, <1>1, <1>2
<1> DEFINE f == Find(text, c, 1)
<1> HIDE DEF f
<1>4. f \in Nat /\ f >= 1
  BY Zenon, <1>3 DEF f
<1>5. From(text, f + 1) \in Seq(Octets)
  BY SMT, <1>1, <1>4 DEF From
<1> QED BY Zenon, <1>5 DEF f

(* The sides of a pair are texts. *)
LEMMA PairSides ==
  ASSUME NEW p \in Seq(Octets)
  PROVE  Pair(p)[1] \in Seq(Octets) /\ Pair(p)[2] \in Seq(Octets)
<1> DEFINE a == Upto(p, Find(p, Equals, 1))
           b == From(p, Find(p, Equals, 1) + 1)
<1>1. a \in Seq(Octets) /\ b \in Seq(Octets)
  BY Zenon, PartsAre, BehindIs
<1>2. Pair(p) = <<a, b>>
  BY Zenon DEF Pair
<1> HIDE DEF a, b
<1> QED BY Zenon, <1>1, <1>2, FirstOf

LEMMA DecodedPlain ==
  ASSUME NEW text \in Seq(Octets), ~Contains(decode(text), Throws)
  PROVE  decode(text) \in Seq(Octets)
<1> DEFINE d == decode(text)
<1>1. d \in Seq(Decodable)
  BY Zenon, DecodeType
<1>2. \A i \in 1 .. Len(d) : d[i] # Throws
  BY Zenon DEF Contains
<1> HIDE DEF d
<1>3. \A i \in 1 .. Len(d) : d[i] \in Octets
  <2>1. \A x \in Decodable : x # Throws => x \in Octets
    BY SMT DEF Decodable, Throws, Octets
  <2>2. \A i \in 1 .. Len(d) : d[i] \in Decodable
    BY SMT, <1>1
  <2> QED BY Zenon, <1>2, <2>1, <2>2
<1>4. d \in Seq(Octets)
  BY SMT, <1>1, <1>3
<1> QED BY Zenon, <1>4 DEF d

(* What is read of any text is a container. *)
LEMMA SearchKeeps ==
  ASSUME NEW params \in Seq(Octets), ~SearchThrows(params)
  PROVE  IsContainer(SearchOf(params))
<1> DEFINE cuts == Places(params, Amp)
           pieces == Pieces(params, cuts, 1)
           pairs == PairsOf(params)
<1>1. pieces \in Seq(Seq(Octets)) /\ Len(pieces) \in Nat
  <2>1. cuts \subseteq 1 .. Len(params) /\ 1 \in Nat
    <3>1. 1 \in Nat
      BY SMT
    <3> QED BY Zenon, <3>1 DEF Places
  <2> HIDE DEF cuts
  <2> QED BY Zenon, <2>1, PiecesAre
<1>2. pieces = Pieces(params, Places(params, Amp), 1)
  BY Zenon
<1>3. pairs = PairsOf(params)
  BY Zenon
<1> HIDE DEF pieces, pairs
<1>4. \A n \in 1 .. Len(pieces) : pieces[n] \in Seq(Octets)
  BY SMT, <1>1
<1>5. pairs = [n \in 1 .. Len(pieces) |-> Decoded(Pair(pieces[n]))]
  <2>1. PairsOf(params) = [n \in 1 .. Len(pieces) |-> Decoded(Pair(pieces[n]))]
    BY ZenonT(60), <1>2, PairsAre
  <2> QED BY Zenon, <2>1, <1>3
<1>6. Len(pairs) = Len(pieces) /\ \A n \in 1 .. Len(pieces) : pairs[n] = Decoded(Pair(pieces[n]))
  <2>1. \A n \in 1 .. Len(pieces) : pairs[n] = Decoded(Pair(pieces[n]))
    BY Zenon, <1>5
  <2>2. Len(pairs) = Len(pieces)
    BY SMT, <1>1, <1>5
  <2> QED BY Zenon, <2>1, <2>2
<1>7. \A n \in 1 .. Len(pairs) : ~Contains(pairs[n][1], Throws) /\ ~Contains(pairs[n][2], Throws)
  BY Zenon, <1>3 DEF SearchThrows
<1>8. ASSUME NEW n \in 1 .. Len(pairs)
      PROVE  pairs[n][1] \in Seq(Octets) /\ pairs[n][2] \in Seq(Octets)
  <2> DEFINE p == Pair(pieces[n])
             a == p[1]
             b == p[2]
  <2>1. a \in Seq(Octets) /\ b \in Seq(Octets)
    BY Zenon, <1>4, <1>6, PairSides
  <2>2. pairs[n] = IF a = <<>> \/ b = <<>> THEN NoPair ELSE <<decode(a), decode(b)>>
    BY Zenon, <1>6 DEF Decoded
  <2> HIDE DEF p, a, b
  <2>3. CASE a = <<>> \/ b = <<>>
    <3>1. pairs[n] = NoPair
      BY Zenon, <2>2, <2>3
    <3> QED BY Zenon, <3>1, NoPairIs
  <2>4. CASE ~(a = <<>> \/ b = <<>>)
    <3>1. pairs[n] = <<decode(a), decode(b)>>
      BY Zenon, <2>2, <2>4
    <3>2. pairs[n][1] = decode(a) /\ pairs[n][2] = decode(b)
      <4> DEFINE da == decode(a)
                 db == decode(b)
                 pair == pairs[n]
      <4>1. pair = <<da, db>>
        BY Zenon, <3>1
      <4> HIDE DEF da, db, pair
      <4>2. pair[1] = da /\ pair[2] = db
        BY Zenon, <4>1, FirstOf
      <4> QED BY Zenon, <4>2 DEF da, db, pair
    <3>3. ~Contains(decode(a), Throws) /\ ~Contains(decode(b), Throws)
      BY Zenon, <1>7, <3>2
    <3> QED BY Zenon, <2>1, <3>2, <3>3, DecodedPlain
  <2> QED BY Zenon, <2>3, <2>4
<1>9. OctetPairs(pairs)
  BY Zenon, <1>1, <1>6, <1>8 DEF OctetPairs
<1>10. SearchOf(params) = Collected(pairs)
  BY Zenon, <1>3 DEF SearchOf
<1> QED BY Zenon, <1>9, <1>10, CollectedKeeps

------------------------------------------------------------------------------
(* The parts of a url *)

(* Where a scheme's end stands *)
Marked(t, i) ==
  /\ i \in Nat /\ i >= 1 /\ i + 2 <= Len(t)
  /\ t[i] = Colon /\ t[i + 1] = Slash /\ t[i + 2] = Slash

ThreeAt(t, i) == t[i] = Colon /\ t[i + 1] = Slash /\ t[i + 2] = Slash

LEMMA ThreeAre ==
  ASSUME NEW S, NEW t \in Seq(S), NEW i \in Nat, i >= 1, i + 2 <= Len(t)
  PROVE  SubSeq(t, i, i + 2) = SchemeEnd <=> ThreeAt(t, i)
<1> DEFINE s == SubSeq(t, i, i + 2)
<1>1. s \in Seq(S) /\ Len(s) = 3 /\ s[1] = t[i] /\ s[2] = t[i + 1] /\ s[3] = t[i + 2]
  <2>1. s \in Seq(S) /\ Len(s) = 3
    BY SMT
  <2>2. \A n \in 1 .. 3 : s[n] = t[(i + n) - 1]
    BY SMTT(30)
  <2> HIDE DEF s
  <2> QED BY SMTT(30), <2>1, <2>2
<1> HIDE DEF s
<1>2. \A a, b, c : s = <<a, b, c>> <=> s[1] = a /\ s[2] = b /\ s[3] = c
  BY SMT, <1>1
<1>3. s = <<Colon, Slash, Slash>> <=> s[1] = Colon /\ s[2] = Slash /\ s[3] = Slash
  BY SMT, <1>2
<1> QED BY Zenon, <1>1, <1>3 DEF s, ThreeAt, SchemeEnd

LEMMA MarksAre ==
  ASSUME NEW S, NEW t \in Seq(S)
  PROVE  \A i : i \in Marks(t) <=> Marked(t, i)
<1>1. \A i : i \in 1 .. Len(t) - 2 <=> i \in Nat /\ i >= 1 /\ i + 2 <= Len(t)
  <2>1. Len(t) \in Nat
    BY SMT
  <2>2. \A i : i \in 1 .. Len(t) - 2 => i \in Nat /\ i >= 1 /\ i + 2 <= Len(t)
    BY SMT, <2>1
  <2>3. \A i \in Nat : i >= 1 /\ i + 2 <= Len(t) => i \in 1 .. Len(t) - 2
    BY SMT, <2>1
  <2> QED BY Zenon, <2>2, <2>3
<1> SUFFICES ASSUME NEW i, i \in Nat, i >= 1, i + 2 <= Len(t)
             PROVE  SubSeq(t, i, i + 2) = SchemeEnd <=> ThreeAt(t, i)
  BY Zenon, <1>1 DEF Marks, Marked, ThreeAt
<1> QED BY Zenon, ThreeAre

LEMMA UnmarkedIs ==
  ASSUME NEW S, NEW t \in Seq(S)
  PROVE  Marks(t) = {} <=> \A i \in Nat : ~Marked(t, i)
<1>1. \A i : Marked(t, i) => i \in Nat
  BY DEF Marked
<1> QED BY Zenon, <1>1, MarksAre

(* The scheme, as it is kept: in its one spelling, and without an end of a  *)
(* scheme in it                                                            *)
SchemeOk(s) == s \in Seq(Octets) /\ reset_case(s) = s /\ Marks(s) = {}

LEMMA NothingIs ==
  /\ <<>> \in Seq(Octets) /\ reset_case(<<>>) = <<>> /\ Marks(<<>>) = {}
<1>1. <<>> \in Seq(Octets)
  BY SMT
<1>2. trim_space(<<>>) = <<>>
  <2>1. {i \in 1 .. Len(<<>>) : ~IsSpace(<<>>[i])} = {}
    BY SMT
  <2> QED BY Zenon, <2>1 DEF trim_space
<1>3. reset_case(<<>>) = <<>>
  <2>1. [i \in 1 .. Len(<<>>) |-> Lower(<<>>[i])] = <<>>
    BY SMT
  <2> QED BY Zenon, <2>1, <1>2 DEF reset_case
<1>4. Marks(<<>>) = {}
  BY SMT DEF Marks
<1> QED BY Zenon, <1>1, <1>3, <1>4

LEMMA ResetUnmarked ==
  ASSUME NEW token \in Seq(Octets), Marks(token) = {}
  PROVE  SchemeOk(reset_case(token))
<1> DEFINE t == trim_space(token)
           k == reset_case(token)
<1>0. k = <<>> \/ IsName(k)
  BY Zenon, ResetCaseIs
<1>1. k \in Seq(Octets) /\ reset_case(k) = k
  <2> HIDE DEF k
  <2> QED BY Zenon, <1>0, NothingIs, NameIs
<1>2. Marks(k) = {}
  <2>1. k = [i \in 1 .. Len(t) |-> Lower(t[i])]
    BY DEF reset_case
  <2>2. CASE t = <<>>
    <3>1. 1 .. Len(t) = {}
      BY SMT, <2>2
    <3>2. k = <<>>
      BY SMT, <2>1, <3>1
    <3> QED BY Zenon, <3>2, NothingIs
  <2>3. CASE t # <<>>
    <3>1. PICK first, last : Ends(token, first, last) /\ first < last /\ t = SubSeq(token, first, last)
      BY Zenon, <2>3, TrimIs
    <3>2. first \in 1 .. Len(token) /\ last \in 1 .. Len(token)
      BY Zenon, <3>1 DEF Ends
    <3>3. /\ Len(t) = last - first + 1 /\ Len(token) \in Nat /\ first \in Nat /\ last \in Nat
          /\ \A i \in 1 .. Len(t) : t[i] = token[first - 1 + i]
      <4> HIDE DEF t
      <4> QED BY SMT, <3>1, <3>2
    <3> HIDE DEF t, k
    <3>4. Len(k) = Len(t) /\ \A i \in 1 .. Len(t) : k[i] = Lower(t[i])
      <4>1. \A i \in 1 .. Len(t) : k[i] = Lower(t[i])
        BY Zenon, <2>1
      <4>2. Len(t) \in Nat
        BY SMT, <3>1, <3>2, <3>3
      <4>3. Len(k) = Len(t)
        BY SMT, <2>1, <4>2
      <4> QED BY Zenon, <4>1, <4>3
    <3>5. ASSUME NEW i \in Nat, Marked(k, i) PROVE FALSE
      <4> DEFINE p == first - 1 + i
      <4>1. i >= 1 /\ i + 2 <= Len(t) /\ k[i] = Colon /\ k[i + 1] = Slash /\ k[i + 2] = Slash
        BY Zenon, <3>4, <3>5 DEF Marked
      <4>2. /\ i \in 1 .. Len(t) /\ i + 1 \in 1 .. Len(t) /\ i + 2 \in 1 .. Len(t)
            /\ p \in Nat /\ p >= 1 /\ p + 2 <= Len(token)
            /\ first - 1 + (i + 1) = p + 1 /\ first - 1 + (i + 2) = p + 2
            /\ p \in 1 .. Len(token) /\ p + 1 \in 1 .. Len(token) /\ p + 2 \in 1 .. Len(token)
        <5> DEFINE l == Len(t)
                   h == Len(token)
        <5>1. l = last - first + 1 /\ first \in 1 .. h /\ last \in 1 .. h /\ h \in Nat /\ i >= 1 /\ i + 2 <= l
          BY Zenon, <3>2, <3>3, <4>1
        <5> HIDE DEF l, h
        <5>2. /\ i \in 1 .. l /\ i + 1 \in 1 .. l /\ i + 2 \in 1 .. l
              /\ p \in Nat /\ p >= 1 /\ p + 2 <= h
              /\ first - 1 + (i + 1) = p + 1 /\ first - 1 + (i + 2) = p + 2
              /\ p \in 1 .. h /\ p + 1 \in 1 .. h /\ p + 2 \in 1 .. h
          BY SMT, <5>1
        <5> QED BY Zenon, <5>2 DEF l, h
      <4>3. t[i] = token[p] /\ t[i + 1] = token[p + 1] /\ t[i + 2] = token[p + 2]
        <5>1. /\ t[i] = token[first - 1 + i] /\ t[i + 1] = token[first - 1 + (i + 1)]
              /\ t[i + 2] = token[first - 1 + (i + 2)]
          BY Zenon, <3>3, <4>2
        <5> QED BY Zenon, <4>2, <5>1
      <4>4. token[p] \in Octets /\ token[p + 1] \in Octets /\ token[p + 2] \in Octets
        BY Zenon, <4>2, OctetsAre
      <4> HIDE DEF p
      <4>5. Lower(token[p]) = Colon /\ Lower(token[p + 1]) = Slash /\ Lower(token[p + 2]) = Slash
        BY Zenon, <3>4, <4>1, <4>2, <4>3
      <4>6. \A c \in Octets : (Lower(c) = Colon => c = Colon) /\ (Lower(c) = Slash => c = Slash)
        BY SMT DEF Lower, Octets, Colon, Slash
      <4>7. token[p] = Colon /\ token[p + 1] = Slash /\ token[p + 2] = Slash
        BY Zenon, <4>4, <4>5, <4>6
      <4>8. Marked(token, p)
        BY Zenon, <4>2, <4>7 DEF Marked
      <4> QED BY Zenon, <4>2, <4>8, UnmarkedIs
    <3>6. k \in Seq(Octets)
      BY Zenon, <1>1
    <3> QED BY Zenon, <3>5, <3>6, UnmarkedIs
  <2> QED BY Zenon, <2>2, <2>3
<1> QED BY Zenon, <1>1, <1>2 DEF SchemeOk

(* The mark of a text is its first one. *)
LEMMA MarkIs ==
  ASSUME NEW text \in Seq(Octets), Marks(text) # {}
  PROVE  /\ Marked(text, SchemeMark(text)) /\ SchemeMark(text) # 0
         /\ \A j \in Nat : Marked(text, j) => SchemeMark(text) <= j
<1>1. \A i : i \in Marks(text) <=> Marked(text, i)
  BY Zenon, MarksAre
<1>2. Marks(text) \subseteq Nat
  BY Zenon, <1>1 DEF Marked
<1>3. Min(Marks(text)) \in Marks(text) /\ \A j \in Marks(text) : Min(Marks(text)) <= j
  BY Zenon, <1>2, MinIs
<1>4. SchemeMark(text) \in Marks(text) /\ \A j \in Marks(text) : SchemeMark(text) <= j
  BY Zenon, <1>3 DEF SchemeMark
<1>5. Marked(text, SchemeMark(text))
  BY Zenon, <1>1, <1>4
<1>6. \A n : n >= 1 => n # 0
  BY SMT
<1>7. SchemeMark(text) # 0
  BY Zenon, <1>5, <1>6 DEF Marked
<1> QED BY Zenon, <1>1, <1>4, <1>5, <1>7

LEMMA SchemeIs ==
  ASSUME NEW text \in Seq(Octets)
  PROVE  SchemeOk(Scheme(text)) /\ Located(text) \in Seq(Octets)
<1>1. CASE Marks(text) = {}
  <2>1. SchemeMark(text) = 0
    BY Zenon, <1>1 DEF SchemeMark
  <2>2. Scheme(text) = <<>> /\ Located(text) = text
    BY Zenon, <2>1 DEF Scheme, Located
  <2> QED BY Zenon, <2>2, NothingIs DEF SchemeOk
<1>2. CASE Marks(text) # {}
  <2> DEFINE m == SchemeMark(text)
             u == Upto(text, m)
  <2>1. Marked(text, m) /\ m # 0 /\ \A j \in Nat : Marked(text, j) => m <= j
    BY Zenon, <1>2, MarkIs
  <2>2. Scheme(text) = reset_case(u) /\ Located(text) = From(text, m + 3)
    BY Zenon, <2>1 DEF Scheme, Located
  <2>3. m \in Nat /\ m >= 1 /\ m + 2 <= Len(text) /\ Len(text) \in Nat
    <3>1. m \in Nat /\ m >= 1 /\ m + 2 <= Len(text)
      BY Zenon, <2>1 DEF Marked
    <3>2. Len(text) \in Nat
      BY SMT
    <3> QED BY Zenon, <3>1, <3>2
  <2> HIDE DEF m
  <2>4. u \in Seq(Octets) /\ Len(u) = m - 1 /\ \A i \in 1 .. m - 1 : u[i] = text[i]
    BY SMT, <2>3 DEF Upto
  <2>5. From(text, m + 3) \in Seq(Octets)
    BY SMT, <2>3 DEF From
  <2> HIDE DEF u
  <2>6. ASSUME NEW j \in Nat, Marked(u, j) PROVE FALSE
    <3>1. j >= 1 /\ j + 2 <= Len(u) /\ u[j] = Colon /\ u[j + 1] = Slash /\ u[j + 2] = Slash
      BY Zenon, <2>6 DEF Marked
    <3>2. /\ j \in 1 .. m - 1 /\ j + 1 \in 1 .. m - 1 /\ j + 2 \in 1 .. m - 1
          /\ j + 2 <= Len(text) /\ ~(m <= j)
      BY SMT, <2>3, <2>4, <3>1
    <3>3. Marked(text, j)
      BY Zenon, <2>4, <3>1, <3>2 DEF Marked
    <3> QED BY Zenon, <2>1, <3>2, <3>3
  <2>7. Marks(u) = {}
    BY Zenon, <2>4, <2>6, UnmarkedIs
  <2> QED BY Zenon, <2>2, <2>4, <2>5, <2>7, ResetUnmarked
<1> QED BY Zenon, <1>1, <1>2

(* What stands before a byte's first place *)
LEMMA UptoLacks ==
  ASSUME NEW t \in Seq(Octets), NEW c
  PROVE  /\ Lacks(Upto(t, Find(t, c, 1)), c)
         /\ \A d : Lacks(t, d) => Lacks(Upto(t, Find(t, c, 1)), d)
<1> DEFINE f == Find(t, c, 1)
           u == Upto(t, f)
<1>1. 1 \in Nat /\ Len(t) \in Nat
  BY SMT
<1>2. /\ f = Len(t) + 1 \/ f \in 1 .. Len(t)
      /\ \A j \in 1 .. Len(t) : j < f => t[j] # c
  BY Zenon, <1>1, FindIs
<1> HIDE DEF f
<1>3. f \in Nat /\ f >= 1 /\ f <= Len(t) + 1
  BY SMT, <1>1, <1>2
<1>4. Len(u) = f - 1 /\ \A i \in 1 .. f - 1 : u[i] = t[i]
  BY SMT, <1>1, <1>3 DEF Upto
<1> HIDE DEF u
<1>5. \A i \in 1 .. Len(u) : i \in 1 .. Len(t) /\ i < f /\ i \in 1 .. f - 1
  BY SMT, <1>1, <1>3, <1>4
<1>6. Lacks(u, c)
  BY Zenon, <1>2, <1>4, <1>5 DEF Lacks
<1>7. \A d : Lacks(t, d) => Lacks(u, d)
  BY Zenon, <1>4, <1>5 DEF Lacks
<1> QED BY Zenon, <1>6, <1>7 DEF u, f

(* A path stops at a '?' or a '#', and a fragment begins with a '#'. *)
PathOk(path) == path \in Seq(Octets) /\ Lacks(path, Hash) /\ Lacks(path, Question)

FragmentOk(fragment) ==
  /\ fragment \in Seq(Octets)
  /\ fragment = <<>> \/ \E rest \in Seq(Octets) : fragment = <<Hash>> \o rest

LEMMA FragmentIs ==
  ASSUME NEW t \in Seq(Octets)
  PROVE  FragmentOk(Fragment(t))
<1> DEFINE f == Find(t, Hash, 1)
           u == From(t, f)
<1>1. 1 \in Nat /\ Len(t) \in Nat
  BY SMT
<1>2. f = Len(t) + 1 \/ (f \in 1 .. Len(t) /\ t[f] = Hash)
  BY Zenon, <1>1, FindIs
<1>3. u \in Seq(Octets)
  BY Zenon, PartsAre
<1> HIDE DEF f
<1>4. CASE f = Len(t) + 1
  <2>1. u = <<>>
    BY Zenon, <1>4, WholeIs DEF From
  <2> QED BY Zenon, <1>3, <2>1 DEF FragmentOk, Fragment, f
<1>5. CASE f \in 1 .. Len(t) /\ t[f] = Hash
  <2> DEFINE rest == From(t, f + 1)
  <2>1. f \in Nat /\ f >= 1 /\ f <= Len(t)
    BY SMT, <1>1, <1>5
  <2>2. <<t[f]>> \o rest = u
    BY Zenon, <2>1, <1>5, SuffixGrows
  <2>3. rest \in Seq(Octets)
    BY SMT, <1>1, <2>1 DEF From
  <2> HIDE DEF rest
  <2>4. u = <<Hash>> \o rest
    BY Zenon, <2>2, <1>5
  <2> HIDE DEF u
  <2>5. FragmentOk(u)
    BY Zenon, <1>3, <2>3, <2>4 DEF FragmentOk
  <2> QED BY Zenon, <2>5 DEF Fragment, u, f
<1> QED BY Zenon, <1>2, <1>4, <1>5

LEMMA PlainIs ==
  ASSUME NEW t \in Seq(Octets)
  PROVE  Plain(t) \in Seq(Octets) /\ Lacks(Plain(t), Hash) /\ Query(t) \in Seq(Octets)
<1>1. Plain(t) \in Seq(Octets)
  BY Zenon, PartsAre DEF Plain
<1>2. Lacks(Plain(t), Hash)
  BY Zenon, UptoLacks DEF Plain
<1>3. Query(t) \in Seq(Octets)
  BY Zenon, <1>1, BehindIs DEF Query
<1> QED BY Zenon, <1>1, <1>2, <1>3

LEMMA PathIs ==
  ASSUME NEW t \in Seq(Octets)
  PROVE  PathOk(Path(t))
<1> DEFINE p == Plain(t)
<1>1. p \in Seq(Octets) /\ Lacks(p, Hash)
  BY Zenon, PlainIs
<1>2. Path(t) = Upto(p, Find(p, Question, 1))
  BY Zenon DEF Path
<1> HIDE DEF p
<1>3. Path(t) \in Seq(Octets)
  BY Zenon, <1>1, <1>2, PartsAre
<1>4. Lacks(Path(t), Question) /\ Lacks(Path(t), Hash)
  BY ZenonT(60), <1>1, <1>2, UptoLacks
<1> QED BY Zenon, <1>3, <1>4 DEF PathOk

LEMMA TargetPathIs ==
  ASSUME NEW t \in Seq(Octets)
  PROVE  PathOk(OrElse(TargetPath(t), <<Slash>>))
<1> DEFINE p == Plain(t)
<1>1. p \in Seq(Octets) /\ Lacks(p, Hash)
  BY Zenon, PlainIs
<1>2. PathOk(<<Slash>>)
  <2>1. <<Slash>> \in Seq(Octets) /\ \A i \in 1 .. Len(<<Slash>>) : <<Slash>>[i] # Hash /\ <<Slash>>[i] # Question
    BY SMT DEF Slash, Octets, Hash, Question
  <2> QED BY Zenon, <2>1 DEF PathOk, Lacks
<1>3. CASE Find(p, Question, 1) <= Len(p)
  <2>1. TargetPath(t) = <<>>
    BY Zenon, <1>3 DEF TargetPath
  <2> QED BY Zenon, <1>2, <2>1 DEF OrElse
<1>4. CASE ~(Find(p, Question, 1) <= Len(p))
  <2>1. TargetPath(t) = p
    BY Zenon, <1>4 DEF TargetPath
  <2> HIDE DEF p
  <2>2. 1 \in Nat /\ Len(p) \in Nat
    BY SMT, <1>1
  <2>3. Find(p, Question, 1) = Len(p) + 1 \/ Find(p, Question, 1) \in 1 .. Len(p)
    BY Zenon, <1>1, <2>2, FindIs
  <2>4. \A f \in 1 .. Len(p) : f <= Len(p)
    BY SMT, <2>2
  <2>5. Find(p, Question, 1) = Len(p) + 1
    BY Zenon, <1>4, <2>3, <2>4
  <2>6. Upto(p, Len(p) + 1) = p
    BY SMT, <1>1 DEF Upto
  <2>7. Upto(p, Find(p, Question, 1)) = p
    BY Zenon, <2>5, <2>6
  <2>8. Lacks(Upto(p, Find(p, Question, 1)), Question)
    BY Zenon, <1>1, UptoLacks
  <2>9. Lacks(p, Question)
    BY Zenon, <2>7, <2>8
  <2>10. PathOk(p)
    BY Zenon, <1>1, <2>9 DEF PathOk
  <2> QED BY Zenon, <1>2, <2>1, <2>10 DEF OrElse
<1> QED BY Zenon, <1>3, <1>4

LEMMA HttpIs == SchemeOk(Http) /\ Localhost \in Seq(Octets)
<1>1. IsName(Http)
  BY SMT DEF IsName, Http, IsSpace, Lower, Octets
<1>2. Http \in Seq(Octets) /\ reset_case(Http) = Http
  BY Zenon, <1>1, NameIs
<1>3. \A i \in 1 .. 4 : Http[i] # Colon
  BY SMT DEF Http, Colon
<1>4. Len(Http) = 4
  BY SMT DEF Http
<1>5. \A i \in Nat : i >= 1 /\ i + 2 <= 4 => i \in 1 .. 4
  BY SMT
<1>6. \A i \in Nat : ~Marked(Http, i)
  BY Zenon, <1>3, <1>4, <1>5 DEF Marked
<1>7. Marks(Http) = {}
  BY Zenon, <1>2, <1>6, UnmarkedIs
<1>8. Localhost \in Seq(Octets)
  BY SMT DEF Localhost, Octets
<1> QED BY Zenon, <1>2, <1>7, <1>8 DEF SchemeOk

(* The parts of a url, however it came about *)
UrlOk(scheme, user, host, path, search, fragment) ==
  /\ SchemeOk(scheme) /\ UserOk(user) /\ host \in Seq(Octets)
  /\ PathOk(path) /\ IsContainer(search) /\ FragmentOk(fragment)

UrlInv ==
  \E scheme, user, host, path, search, fragment :
    /\ url = [scheme |-> scheme, user |-> user, host |-> host, path |-> path,
              search |-> search, fragment |-> fragment]
    /\ UrlOk(scheme, user, host, path, search, fragment)

LEMMA UrlInit == Init => UrlInv
<1>1. SchemeOk(<<>>)
  BY Zenon, NothingIs DEF SchemeOk
<1>2. Lacks(<<>>, Hash) /\ Lacks(<<>>, Question)
  BY SMT DEF Lacks
<1>3. PathOk(<<>>) /\ FragmentOk(<<>>)
  BY Zenon, <1>2, NothingIs DEF PathOk, FragmentOk
<1>4. UrlOk(<<>>, NoUser, <<>>, <<>>, NoEntries, <<>>)
  BY Zenon, <1>1, <1>3, NothingIs, NoUserIsOk, NoEntriesIs DEF UrlOk
<1> QED BY Zenon, <1>4 DEF Init, DefaultUrl, UrlInv

LEMMA ParsedIsOk ==
  ASSUME NEW t \in Seq(Octets), Parses(t)
  PROVE  UrlOk(Scheme(t), User(Authority(t)), Host(Authority(t)), Path(Rest(t)),
               SearchOf(Query(Rest(t))), Fragment(Rest(t)))
<1>1. SchemeOk(Scheme(t)) /\ Located(t) \in Seq(Octets)
  BY Zenon, SchemeIs
<1>2. Rest(t) \in Seq(Octets) /\ Authority(t) \in Seq(Octets)
  BY Zenon, <1>1, PartsAre DEF Rest, Authority
<1>3. UserOk(User(Authority(t)))
  BY Zenon, UserIsOk
<1>4. Host(Authority(t)) \in Seq(Octets)
  <2>1. reset_case(Authority(t)) \in Seq(Octets)
    BY Zenon, <1>2, ResetCaseIs, NothingIs, NameIs
  <2> QED BY Zenon, <2>1, NothingIs DEF Host
<1>5. PathOk(Path(Rest(t))) /\ FragmentOk(Fragment(Rest(t)))
  BY Zenon, <1>2, PathIs, FragmentIs
<1>6. IsContainer(SearchOf(Query(Rest(t))))
  <2>1. Query(Rest(t)) \in Seq(Octets)
    BY Zenon, <1>2, PlainIs
  <2>2. ~SearchThrows(Query(Rest(t)))
    BY Zenon DEF Parses
  <2> QED BY Zenon, <2>1, <2>2, SearchKeeps
<1> QED BY Zenon, <1>1, <1>3, <1>4, <1>5, <1>6 DEF UrlOk

LEMMA ReceivedIsOk ==
  ASSUME NEW target \in Seq(Octets), NEW host \in Seq(Octets), NEW authorization \in Seq(Octets),
         ~SearchThrows(Query(target))
  PROVE  UrlOk(Http, parse_basic_auth(authorization), OrElse(host, Localhost),
               OrElse(TargetPath(target), <<Slash>>), SearchOf(Query(target)), Fragment(target))
<1>1. SchemeOk(Http) /\ OrElse(host, Localhost) \in Seq(Octets)
  BY Zenon, HttpIs DEF OrElse
<1>2. UserOk(parse_basic_auth(authorization))
  BY Zenon, AuthIsOk
<1>3. PathOk(OrElse(TargetPath(target), <<Slash>>)) /\ FragmentOk(Fragment(target))
  BY Zenon, TargetPathIs, FragmentIs
<1>4. IsContainer(SearchOf(Query(target)))
  <2>1. Query(target) \in Seq(Octets)
    BY Zenon, PlainIs
  <2> QED BY Zenon, <2>1, SearchKeeps
<1> QED BY Zenon, <1>1, <1>2, <1>3, <1>4 DEF UrlOk

LEMMA UrlStep == UrlInv /\ [Next]_url => UrlInv'
<1> SUFFICES ASSUME UrlInv, [Next]_url PROVE UrlInv'
  OBVIOUS
<1>0. \A t \in Texts \cup Keys \cup Params : t \in Seq(Octets)
  BY Zenon, UrlAssumption DEF Octets
<1>1. CASE Parse
  <2>1. PICK t \in Texts : Parses(t) /\ url' = UrlOf(t)
    BY Zenon, <1>1 DEF Parse
  <2>2. UrlOk(Scheme(t), User(Authority(t)), Host(Authority(t)), Path(Rest(t)),
              SearchOf(Query(Rest(t))), Fragment(Rest(t)))
    BY Zenon, <2>1, <1>0, ParsedIsOk
  <2> QED BY Zenon, <2>1, <2>2 DEF UrlInv, UrlOf
<1>2. CASE \E r \in Requests : Receive(r[1], r[2], r[3])
  <2>1. PICK r \in Requests : ~SearchThrows(Query(r[1])) /\ url' = RequestUrl(r[1], r[2], r[3])
    BY Zenon, <1>2 DEF Receive
  <2>2. r[1] \in Seq(Octets) /\ r[2] \in Seq(Octets) /\ r[3] \in Seq(Octets)
    BY UrlAssumption DEF Octets
  <2>3. UrlOk(Http, parse_basic_auth(r[3]), OrElse(r[2], Localhost),
              OrElse(TargetPath(r[1]), <<Slash>>), SearchOf(Query(r[1])), Fragment(r[1]))
    BY Zenon, <2>1, <2>2, ReceivedIsOk
  <2>4. url' = [scheme |-> Http, user |-> parse_basic_auth(r[3]), host |-> OrElse(r[2], Localhost),
                path |-> OrElse(TargetPath(r[1]), <<Slash>>), search |-> SearchOf(Query(r[1])),
                fragment |-> Fragment(r[1])]
    BY Zenon, <2>1 DEF RequestUrl
  <2> QED BY Zenon, <2>3, <2>4 DEF UrlInv
<1>3. PICK scheme, user, host, path, search, fragment :
        /\ url = [scheme |-> scheme, user |-> user, host |-> host, path |-> path,
                  search |-> search, fragment |-> fragment]
        /\ UrlOk(scheme, user, host, path, search, fragment)
  BY Zenon DEF UrlInv
<1>4. url.search = search
  BY SMT, <1>3
<1>5. ASSUME NEW edited, url' = [url EXCEPT !.search = edited], IsContainer(edited)
      PROVE  UrlInv'
  <2>1. url' = [scheme |-> scheme, user |-> user, host |-> host, path |-> path,
                search |-> edited, fragment |-> fragment]
    BY SMT, <1>3, <1>5
  <2>2. UrlOk(scheme, user, host, path, edited, fragment)
    BY Zenon, <1>3, <1>5 DEF UrlOk
  <2> QED BY Zenon, <2>1, <2>2 DEF UrlInv
<1>6. ASSUME NEW k \in Keys, NEW v \in Params
      PROVE  IsContainer(set(search, k, v)) /\ IsContainer(append(search, k, v))
  <2>1. IsContainer(search)
    BY Zenon, <1>3 DEF UrlOk
  <2> QED BY Zenon, <1>0, <2>1, OperationsKeep
<1>7. CASE \E k \in Keys, v \in Params : Set(k, v) \/ Add(k, v)
  <2>1. PICK k \in Keys, v \in Params : Set(k, v) \/ Add(k, v)
    BY Zenon, <1>7
  <2>2. \/ url' = [url EXCEPT !.search = set(search, k, v)]
        \/ url' = [url EXCEPT !.search = append(search, k, v)]
    BY SMT, <2>1, <1>4 DEF Set, Add
  <2> DEFINE s == set(search, k, v)
             a == append(search, k, v)
  <2>3. IsContainer(s) /\ IsContainer(a)
    BY Zenon, <1>6
  <2> HIDE DEF s, a
  <2> QED BY Zenon, <1>5, <2>2, <2>3 DEF s, a
<1>8. CASE \E k \in Keys : Del(k)
  <2>1. PICK k \in Keys : url' = [url EXCEPT !.search = del(search, k)]
    BY SMT, <1>4, <1>8 DEF Del
  <2>2. IsContainer(search) /\ <<>> \in Seq(Octets)
    BY Zenon, <1>3, NothingIs DEF UrlOk
  <2>3. IsContainer(del(search, k))
    BY Zenon, <1>0, <2>2, OperationsKeep
  <2> QED BY Zenon, <1>5, <2>1, <2>3
<1>9. CASE UNCHANGED url
  BY Zenon, <1>9 DEF UrlInv
<1> QED BY Zenon, <1>1, <1>2, <1>7, <1>8, <1>9 DEF Next

(* Whatever bytes the names and the values of the parameters hold, what     *)
(* to_string() writes of them is read back: the same names with the same   *)
(* nonempty values in the same order.                                      *)
THEOREM SearchParamsRead == Spec => []SearchReadsBack
<1>1. UrlInv => SearchReadsBack
  <2> SUFFICES ASSUME UrlInv PROVE SearchReadsBack
    OBVIOUS
  <2>1. IsContainer(url.search)
    BY SMT DEF UrlInv, UrlOk
  <2> QED BY Zenon, <2>1, SearchIsRead DEF SearchReadsBack
<1> QED BY <1>1, UrlInit, UrlStep, PTL DEF Spec

(* The credentials of a url can be sent in an Authorization header and are  *)
(* the same on the other side, whatever bytes they hold: a user's name that *)
(* came out of a url or a header holds no colon.                            *)
THEOREM CredentialsRead == Spec => []CredentialsReadBack
<1>1. UrlInv => CredentialsReadBack
  <2> SUFFICES ASSUME UrlInv, url.user # NoUser
               PROVE  parse_basic_auth(BasicHeader(url.user)) = url.user
    BY DEF CredentialsReadBack
  <2>1. UserOk(url.user)
    BY SMT DEF UrlInv, UrlOk
  <2>2. PICK name, password \in Seq(Octets) :
          /\ url.user = <<name, password>> /\ name # <<>>
          /\ \A i \in 1 .. Len(name) : name[i] # Colon
    BY Zenon, <2>1 DEF UserOk
  <2>3. parse_basic_auth(BasicHeader(<<name, password>>)) = <<name, password>>
    BY Zenon, <2>2, CredentialsAreRead
  <2> QED BY Zenon, <2>2, <2>3
<1> QED BY <1>1, UrlInit, UrlStep, PTL DEF Spec

------------------------------------------------------------------------------
(* Cookies *)

LEMMA OneFlat ==
  ASSUME NEW S, NEW x \in Seq(S)
  PROVE  FlattenSeq([i \in 1 .. 1 |-> x]) = x
<1> DEFINE ss == [i \in 1 .. 1 |-> x]
           u == FlattenSeq(ss)
<1>1. ss \in Seq(Seq(S)) /\ Len(ss) = 1 /\ ss[1] = x /\ 1 \in 1 .. 1 /\ 1 \in Nat
  BY SMT
<1> HIDE DEF ss
<1>2. u \in Seq(S) /\ \E at : LaidOut(u, ss, at)
  BY Zenon, <1>1, FlatIs
<1>3. PICK at : LaidOut(u, ss, at)
  BY Zenon, <1>2
<1> HIDE DEF u
<1>4. /\ at[1] = 0 /\ at[1 + 1] = Len(u)
      /\ at[1 + 1] = at[1] + Len(x) /\ \A i \in 1 .. Len(x) : u[at[1] + i] = x[i]
  BY Zenon, <1>1, <1>3 DEF LaidOut
<1>5. u = x
  <2>1. \A n \in Nat : 0 + n = n
    BY SMT
  <2>2. Len(x) \in Nat /\ \A i \in 1 .. Len(x) : i \in Nat
    BY SMT
  <2>3. Len(u) = Len(x) /\ \A i \in 1 .. Len(x) : u[i] = x[i]
    BY Zenon, <1>4, <2>1, <2>2
  <2> QED BY SMT, <1>2, <2>3
<1> QED BY Zenon, <1>5 DEF u, ss

LEMMA JoinedNothing ==
  ASSUME NEW glue
  PROVE  Joined(<<>>, glue) = <<>>
<1>1. [n \in 1 .. Len(<<>>) |-> IF n = 1 THEN <<>>[n] ELSE glue \o <<>>[n]] = <<>>
  BY SMT
<1>2. Joined(<<>>, glue) = FlattenSeq(<<>>)
  BY Zenon, <1>1 DEF Joined
<1>3. FlattenSeq(<<>>) = <<>>
  BY SMT DEF FlattenSeq
<1> QED BY Zenon, <1>2, <1>3

(* A cookie's pair, and that it lacks a semicolon *)
CookieEntry(e) == e[1] \o <<Equals>> \o e[2]

Unsplit(t) == t \in Seq(Octets) /\ Lacks(t, Semicolon)

LEMMA PairUnsplit ==
  ASSUME NEW name, Unsplit(name), NEW value, Unsplit(value)
  PROVE  Unsplit(name \o <<Equals>> \o value)
<1> DEFINE W == {c \in Octets : c # Semicolon}
           t == name \o <<Equals>> \o value
<1>1. /\ name \in Seq(Octets) /\ \A i \in 1 .. Len(name) : name[i] # Semicolon
      /\ value \in Seq(Octets) /\ \A i \in 1 .. Len(value) : value[i] # Semicolon
  BY Zenon DEF Unsplit, Lacks
<1>2. Equals \in W
  BY SMT DEF Equals, Semicolon, Octets
<1>3. \A c \in W : c \in Octets /\ c # Semicolon
  OBVIOUS
<1>4. \A i \in 1 .. Len(name) : name[i] \in W
  BY Zenon, <1>1, OctetsAre
<1>5. \A i \in 1 .. Len(value) : value[i] \in W
  BY Zenon, <1>1, OctetsAre
<1> HIDE DEF W
<1>6. name \in Seq(W) /\ value \in Seq(W)
  BY SMT, <1>1, <1>4, <1>5
<1>7. t = name \o <<Equals>> \o value
  BY Zenon
<1> HIDE DEF t
<1>8. t \in Seq(W)
  BY ZenonT(60), <1>2, <1>6, <1>7, JoinIs
<1>9. t \in Seq(Octets)
  BY SMT, <1>3, <1>8
<1>10. \A i \in 1 .. Len(t) : t[i] \in W
  BY SMT, <1>8
<1>11. Unsplit(t)
  BY Zenon, <1>3, <1>9, <1>10 DEF Unsplit, Lacks
<1> QED BY Zenon, <1>11 DEF t

(* A client sends the pair back as it was set. *)
LEMMA ReturnedIs ==
  ASSUME NEW name, Unsplit(name), NEW value, Unsplit(value), NEW attribute \in Seq(Octets)
  PROVE  Returned(name, value, attribute) = name \o <<Equals>> \o value
<1> DEFINE pair == name \o <<Equals>> \o value
           rest == <<Blank>> \o attribute
           text == set_cookie(name, value, <<attribute>>)
           glued == <<Semicolon, Blank>> \o attribute
<1>1. pair \in Seq(Octets) /\ Lacks(pair, Semicolon)
  BY Zenon, PairUnsplit DEF Unsplit
<1>2. rest \in Seq(Octets) /\ Semicolon \in Octets /\ glued \in Seq(Octets) /\ glued = <<Semicolon>> \o rest
  <2>1. Blank \in Octets /\ Semicolon \in Octets
    BY SMT DEF Blank, Semicolon, Octets
  <2> QED BY SMT, <2>1
<1>3. [i \in 1 .. Len(<<attribute>>) |-> <<Semicolon, Blank>> \o <<attribute>>[i]] = [i \in 1 .. 1 |-> glued]
  <2>1. Len(<<attribute>>) = 1 /\ \A i \in 1 .. 1 : <<attribute>>[i] = attribute
    BY SMT
  <2>2. \A i \in 1 .. 1 : <<Semicolon, Blank>> \o <<attribute>>[i] = glued
    BY Zenon, <2>1
  <2> HIDE DEF glued
  <2> QED BY Zenon, <2>1, <2>2
<1>4. FlattenSeq([i \in 1 .. 1 |-> glued]) = glued
  <2> HIDE DEF glued
  <2> QED BY Zenon, <1>2, OneFlat
<1>5. text = pair \o glued
  BY Zenon, <1>3, <1>4 DEF set_cookie
<1> HIDE DEF pair, rest, glued
<1>6. text = pair \o <<Semicolon>> \o rest
  <2> HIDE DEF text
  <2> QED BY SMT, <1>1, <1>2, <1>5
<1>7. Returned(name, value, attribute) = Upto(text, Find(text, Semicolon, 1))
  BY Zenon DEF Returned
<1> HIDE DEF text
<1>8. IsSplit(text, pair, Semicolon, rest, Octets)
  BY Zenon, <1>1, <1>2, <1>6 DEF IsSplit
<1>9. Splits(text, pair, Semicolon, rest)
  BY Zenon, <1>8, SplitAt
<1> QED BY Zenon, <1>7, <1>9 DEF Splits, pair

(* What a container of safe cookies enters *)
LEMMA SafeEntry ==
  ASSUME NEW m, CookieSafe(m), NEW e, EntryOf(m, e)
  PROVE  Unsplit(e[1]) /\ Unsplit(e[2]) /\ Lacks(e[1], Equals) /\ Len(e[1]) >= 2 /\ e = <<e[1], e[2]>>
<1>1. /\ e = <<e[1], e[2]>> /\ e[1] \in DOMAIN m /\ IsName(e[1]) /\ e[2] \in Seq(Octets)
      /\ \E i \in 1 .. Len(m[e[1]]) : e[2] = m[e[1]][i]
  BY Zenon DEF EntryOf
<1>2. ~Contains(e[1], Equals) /\ ~SetCookieThrows(e[1], e[2])
  BY Zenon, <1>1 DEF CookieSafe
<1>3. Lacks(e[1], Equals) /\ Lacks(e[1], Semicolon) /\ Lacks(e[2], Semicolon)
  BY Zenon, <1>2 DEF SetCookieThrows, Contains, Lacks
<1>4. e[1] \in Seq(Octets) /\ Len(e[1]) >= 2
  BY Zenon, <1>1 DEF IsName
<1> QED BY Zenon, <1>1, <1>3, <1>4 DEF Unsplit

(* Where the cookies of a header are cut: at its semicolons, as none stands *)
(* at its very end                                                         *)
CookieGlue == <<Semicolon, Blank>>

LEMMA CookieCutsAre ==
  ASSUME NEW ts \in Seq(Seq(Octets)), NEW t \in Seq(Octets), NEW b, Spread(t, ts, CookieGlue, b),
         \A n \in 1 .. Len(ts) : Lacks(ts[n], Semicolon) /\ Len(ts[n]) >= 1
  PROVE  CookieCuts(t) = Joints(ts, b)
<1> DEFINE L == Len(ts)
           w == Len(CookieGlue)
           End(n) == b[n] + Len(ts[n])
<1>1. /\ CookieGlue \in Seq(Octets) /\ CookieGlue # <<>> /\ w = 2
      /\ CookieGlue[1] = Semicolon /\ CookieGlue[2] = Blank /\ Semicolon # Blank
      /\ \A j \in 1 .. w : j = 1 \/ j = 2
  BY SMT DEF CookieGlue, Semicolon, Blank, Octets
<1>2. Parting(ts, CookieGlue)
  BY Zenon, <1>1 DEF Parting
<1>3. Places(t, Semicolon) = Joints(ts, b) /\ Jointed(t, ts, CookieGlue, b)
  BY Zenon, <1>1, <1>2, CutsAre
<1>4. L \in Nat /\ Len(t) \in Nat
  BY SMT
<1>5. ASSUME NEW p \in CookieCuts(t) PROVE p \in Joints(ts, b)
  <2>1. p \in 1 .. Len(t) - 2 /\ t[p] = Semicolon
    BY Zenon, <1>5 DEF CookieCuts
  <2>2. p \in 1 .. Len(t)
    BY SMT, <1>4, <2>1
  <2> QED BY Zenon, <1>3, <2>1, <2>2 DEF Places
<1>6. ASSUME NEW p \in Joints(ts, b) PROVE p \in CookieCuts(t)
  <2>1. PICK n \in 1 .. L - 1 : p = End(n) + 1
    BY Zenon, <1>6 DEF Joints
  <2>2. n \in 1 .. L /\ n + 1 \in 1 .. L /\ 1 \in 1 .. 2 /\ 2 \in 1 .. 2
    BY SMT, <1>4, <2>1
  <2>3. /\ End(n) + 1 \in 1 .. Len(t)
        /\ t[End(n) + 1] = Semicolon /\ t[End(n) + 2] = Blank
        /\ b[n + 1] = End(n) + 2 /\ b[n + 1] + Len(ts[n + 1]) <= Len(t)
    BY Zenon, <1>1, <1>3, <2>1, <2>2 DEF Jointed
  <2>4. End(n) \in Nat /\ b[n + 1] \in Nat
    BY Zenon, <2>2 DEF Spread
  <2>5. Len(ts[n + 1]) \in Nat /\ Len(ts[n + 1]) >= 1
    <3>1. Len(ts[n + 1]) \in Nat
      BY SMT, <2>2
    <3>2. Len(ts[n + 1]) >= 1
      BY Zenon, <2>2
    <3> QED BY Zenon, <3>1, <3>2
  <2> DEFINE x == Len(ts[n + 1])
             y == b[n + 1]
             z == End(n)
  <2>6. /\ z \in Nat /\ x \in Nat /\ x >= 1 /\ y = z + 2 /\ y + x <= Len(t)
        /\ p = z + 1 /\ t[z + 1] = Semicolon /\ t[z + 2] = Blank
    BY Zenon, <2>1, <2>3, <2>4, <2>5
  <2> HIDE DEF x, y, z
  <2>7. p \in 1 .. Len(t) - 2 /\ z + 2 = p + 1
    BY SMT, <1>4, <2>6
  <2> QED BY Zenon, <2>6, <2>7 DEF CookieCuts
<1> QED BY Zenon, <1>5, <1>6

LEMMA CookiesApart ==
  ASSUME NEW ts \in Seq(Seq(Octets)), ts # <<>>,
         \A n \in 1 .. Len(ts) : Lacks(ts[n], Semicolon) /\ Len(ts[n]) >= 2
  PROVE  /\ CookiePieces(Joined(ts, CookieGlue)) = ts
         /\ ~(Len(Joined(ts, CookieGlue)) < 2)
<1> DEFINE t == Joined(ts, CookieGlue)
<1>1. CookieGlue \in Seq(Octets) /\ CookieGlue # <<>> /\ Len(CookieGlue) = 2
  BY SMT DEF CookieGlue, Semicolon, Blank, Octets
<1>2. t \in Seq(Octets) /\ \E b : Spread(t, ts, CookieGlue, b)
  BY Zenon, <1>1, JoinedIs
<1> HIDE DEF t
<1>3. PICK b : Spread(t, ts, CookieGlue, b)
  BY Zenon, <1>2
<1>4. \A n \in 1 .. Len(ts) : Lacks(ts[n], Semicolon) /\ Len(ts[n]) >= 1
  <2>1. \A n \in 1 .. Len(ts) : Len(ts[n]) \in Nat
    BY SMT
  <2>2. \A l \in Nat : l >= 2 => l >= 1
    BY SMT
  <2> QED BY Zenon, <2>1, <2>2
<1> DEFINE cuts == CookieCuts(t)
<1>5. cuts = Joints(ts, b)
  BY Zenon, <1>2, <1>3, <1>4, CookieCutsAre
<1> HIDE DEF cuts
<1>6. Pieces(t, cuts, Len(CookieGlue)) = ts
  BY Zenon, <1>1, <1>2, <1>3, <1>5, PiecesOfJoined
<1>7. CookiePieces(t) = ts
  BY Zenon, <1>1, <1>6 DEF CookiePieces, cuts
<1>8. ~(Len(t) < 2)
  <2>1. 1 \in 1 .. Len(ts) /\ Len(ts[1]) \in Nat /\ Len(t) \in Nat
    BY SMT, <1>2
  <2>2. /\ b[1] = 0 /\ b[1] + Len(ts[1]) <= Len(t) /\ Len(ts[1]) >= 2
    BY Zenon, <1>3, <2>1 DEF Spread
  <2> DEFINE x == Len(ts[1])
             l == Len(t)
             z == b[1]
  <2>3. x \in Nat /\ l \in Nat /\ z = 0 /\ z + x <= l /\ x >= 2
    BY Zenon, <2>1, <2>2
  <2> HIDE DEF x, l, z
  <2>4. ~(l < 2)
    BY SMT, <2>3
  <2> QED BY Zenon, <2>4 DEF l
<1> QED BY Zenon, <1>7, <1>8 DEF t

(* The pairs of a container of safe cookies come back as they are entered. *)
LEMMA CookiesAreRead ==
  ASSUME NEW m, IsContainer(m), CookieSafe(m), NEW attribute \in Seq(Octets)
  PROVE  parse_cookie(CookieHeader(m, attribute)) = Filled(m)
<1> DEFINE es == entries(m)
           L == Len(es)
           ts == [i \in 1 .. L |-> Returned(es[i][1], es[i][2], attribute)]
           t == CookieHeader(m, attribute)
<1>1. L \in Nat /\ \A n \in 1 .. L : EntryOf(m, es[n])
  BY Zenon, EachEntry
<1>2. t = Joined(ts, CookieGlue)
  BY Zenon DEF CookieHeader, CookieGlue
<1>3. es = entries(m)
  BY Zenon
<1> SUFFICES parse_cookie(t) = Filled(m)
  BY Zenon
<1> HIDE DEF es
<1>4. \A n \in 1 .. L : /\ Unsplit(es[n][1]) /\ Unsplit(es[n][2]) /\ Lacks(es[n][1], Equals)
                        /\ Len(es[n][1]) >= 2 /\ es[n] = <<es[n][1], es[n][2]>>
  BY Zenon, <1>1, SafeEntry
<1>5. \A n \in 1 .. L : ts[n] = CookieEntry(es[n])
  <2>1. \A n \in 1 .. L : ts[n] = Returned(es[n][1], es[n][2], attribute)
    BY Zenon
  <2> HIDE DEF ts
  <2> QED BY ZenonT(60), <1>4, <2>1, ReturnedIs DEF CookieEntry
<1>6. ASSUME NEW n \in 1 .. L
      PROVE  /\ CookieEntry(es[n]) \in Seq(Octets) /\ Lacks(CookieEntry(es[n]), Semicolon)
             /\ Len(CookieEntry(es[n])) >= 2 /\ Pair(CookieEntry(es[n])) = es[n]
  <2> DEFINE a == es[n][1]
             c == es[n][2]
             e == CookieEntry(es[n])
  <2>1. Unsplit(a) /\ Unsplit(c) /\ Lacks(a, Equals) /\ Len(a) >= 2 /\ es[n] = <<a, c>>
    BY Zenon, <1>4
  <2>2. e = a \o <<Equals>> \o c
    BY Zenon DEF CookieEntry
  <2>3. Equals \in Octets
    BY SMT DEF Equals, Octets
  <2> HIDE DEF a, c, e
  <2>4. a \in Seq(Octets) /\ c \in Seq(Octets)
    BY Zenon, <2>1 DEF Unsplit
  <2>5. Unsplit(e)
    BY Zenon, <2>1, <2>2, PairUnsplit
  <2>6. Pair(e) = <<a, c>>
    BY Zenon, <2>1, <2>2, <2>3, <2>4, PairIs
  <2>7. Len(e) >= 2
    BY SMT, <2>1, <2>2, <2>3, <2>4
  <2>8. e \in Seq(Octets) /\ Lacks(e, Semicolon)
    BY Zenon, <2>5 DEF Unsplit
  <2> QED BY Zenon, <2>1, <2>6, <2>7, <2>8 DEF e
<1>7. ts \in Seq(Seq(Octets)) /\ Len(ts) = L
  <2>1. ts = [n \in 1 .. L |-> ts[n]]
    BY Zenon
  <2>2. \A n \in 1 .. L : ts[n] \in Seq(Octets)
    BY Zenon, <1>5, <1>6
  <2> HIDE DEF ts
  <2> QED BY Zenon, <1>1, <2>1, <2>2, ListIs
<1> HIDE DEF ts, t
<1>8. CASE L = 0
  <2>1. ts = <<>>
    BY SMT, <1>7, <1>8
  <2>2. t = <<>>
    BY Zenon, <1>2, <2>1, JoinedNothing
  <2>3. Len(<<>>) < 2
    BY SMT
  <2>4. parse_cookie(<<>>) = NoEntries
    BY Zenon, <2>3 DEF parse_cookie
  <2>5. Filled(m) = NoEntries
    BY Zenon, <1>3, <1>8, NothingEntered
  <2> QED BY Zenon, <2>2, <2>4, <2>5
<1>9. CASE L # 0
  <2>1. ts # <<>>
    BY SMT, <1>1, <1>7, <1>9
  <2>2. \A n \in 1 .. Len(ts) : Lacks(ts[n], Semicolon) /\ Len(ts[n]) >= 2
    BY Zenon, <1>5, <1>6, <1>7
  <2>3. CookiePieces(t) = ts /\ ~(Len(t) < 2)
    BY Zenon, <1>2, <1>7, <2>1, <2>2, CookiesApart
  <2> DEFINE pairs == [n \in 1 .. Len(ts) |-> Pair(ts[n])]
  <2>4. parse_cookie(t) = Collected(pairs)
    BY Zenon, <2>3 DEF parse_cookie
  <2>5. \A n \in 1 .. L : pairs[n] = es[n]
    BY Zenon, <1>5, <1>6, <1>7
  <2>6. Len(pairs) = L
    <3> HIDE DEF L
    <3> QED BY SMT, <1>1, <1>7
  <2> HIDE DEF pairs
  <2>7. Alike(pairs, es)
    BY Zenon, <2>5, <2>6 DEF Alike
  <2>8. Collected(pairs) = Filled(m)
    BY Zenon, <1>3, <2>7, CollectedIs
  <2> QED BY Zenon, <2>4, <2>8
<1> QED BY Zenon, <1>8, <1>9

(* A client that is set the pairs as cookies, with any attribute, and sends *)
(* back what stands before the attributes is understood: the same names    *)
(* with the same nonempty values, unless a pair holds a semicolon or a     *)
(* name a '='.                                                             *)
THEOREM CookiesRead == Spec => []CookiesReadBack
<1>1. UrlInv => CookiesReadBack
  <2> SUFFICES ASSUME UrlInv PROVE CookiesReadBack
    OBVIOUS
  <2>1. IsContainer(url.search)
    BY SMT DEF UrlInv, UrlOk
  <2>2. \A t \in Params : t \in Seq(Octets)
    BY Zenon, UrlAssumption DEF Octets
  <2> QED BY Zenon, <2>1, <2>2, CookiesAreRead DEF CookiesReadBack
<1> QED BY <1>1, UrlInit, UrlStep, PTL DEF Spec

------------------------------------------------------------------------------
(* What follows the host, put together and taken apart *)

Asked(search) == IF search = NoEntries THEN <<>> ELSE <<Question>> \o search_to_string(search)

PrintedBytes == Printed \cup {Question}

LEMMA AskedIs ==
  ASSUME NEW search, IsContainer(search)
  PROVE  /\ search_to_string(search) \in Seq(Octets) /\ Asked(search) \in Seq(Octets)
         /\ Lacks(search_to_string(search), Hash)
         /\ Lacks(Asked(search), Hash) /\ Lacks(Asked(search), Colon) /\ Lacks(Asked(search), Slash)
<1> DEFINE s == search_to_string(search)
           q == Asked(search)
<1>1. s \in Seq(Printed)
  BY Zenon, PrintedApart
<1>2. PrintedBytes \subseteq Octets /\ Question \in PrintedBytes /\ \A c \in Printed : c \in PrintedBytes
  <2>1. Amp \in Octets /\ Equals \in Octets /\ Question \in Octets
    BY SMT DEF Amp, Equals, Question, Octets
  <2> QED BY Zenon, <2>1, CodesAre DEF PrintedBytes, Printed
<1>3. Hash \notin PrintedBytes /\ Colon \notin PrintedBytes /\ Slash \notin PrintedBytes
  <2>1. Hash \notin Codes /\ Colon \notin Codes /\ Slash \notin Codes
    BY Zenon, CodesAre
  <2>2. \A c \in {Amp, Equals, Question} : c # Hash /\ c # Colon /\ c # Slash
    BY SMT DEF Amp, Equals, Question, Hash, Colon, Slash
  <2> QED BY Zenon, <2>1, <2>2 DEF PrintedBytes, Printed
<1>4. q = IF search = NoEntries THEN <<>> ELSE <<Question>> \o s
  BY Zenon DEF Asked
<1> HIDE DEF s, q
<1>5. s \in Seq(PrintedBytes) /\ q \in Seq(PrintedBytes)
  <2>1. s \in Seq(PrintedBytes)
    BY SMT, <1>1, <1>2
  <2>2. <<>> \in Seq(PrintedBytes) /\ <<Question>> \o s \in Seq(PrintedBytes)
    BY SMT, <1>2, <2>1
  <2> QED BY Zenon, <1>4, <2>1, <2>2
<1>6. ASSUME NEW t \in Seq(PrintedBytes)
      PROVE  t \in Seq(Octets) /\ Lacks(t, Hash) /\ Lacks(t, Colon) /\ Lacks(t, Slash)
  <2>1. t \in Seq(Octets)
    BY SMT, <1>2
  <2>2. \A i \in 1 .. Len(t) : t[i] \in PrintedBytes
    BY SMT
  <2> QED BY Zenon, <1>3, <2>1, <2>2 DEF Lacks
<1>7. /\ s \in Seq(Octets) /\ q \in Seq(Octets) /\ Lacks(s, Hash)
      /\ Lacks(q, Hash) /\ Lacks(q, Colon) /\ Lacks(q, Slash)
  BY Zenon, <1>5, <1>6
<1> QED BY Zenon, <1>7 DEF s, q

(* Two texts without a byte, behind one another *)
LEMMA BothLack ==
  ASSUME NEW S, NEW a \in Seq(S), NEW b \in Seq(S), NEW c, Lacks(a, c), Lacks(b, c)
  PROVE  a \o b \in Seq(S) /\ Lacks(a \o b, c)
<1> DEFINE t == a \o b
<1>1. /\ t \in Seq(S) /\ Len(a) \in Nat /\ Len(b) \in Nat /\ Len(t) = Len(a) + Len(b)
      /\ \A i \in 1 .. Len(a) : t[i] = a[i]
      /\ \A i \in 1 .. Len(b) : t[Len(a) + i] = b[i]
  <2>1. Behind(t, a, b, S)
    BY Zenon, ConcatIs
  <2> HIDE DEF t
  <2> QED BY Zenon, <2>1 DEF Behind
<1> HIDE DEF t
<1>2. ASSUME NEW i \in 1 .. Len(t) PROVE t[i] # c
  <2>1. CASE i <= Len(a)
    <3>1. i \in 1 .. Len(a)
      BY SMT, <1>1, <2>1
    <3> QED BY Zenon, <1>1, <3>1 DEF Lacks
  <2>2. CASE ~(i <= Len(a))
    <3> DEFINE j == i - Len(a)
    <3>1. j \in 1 .. Len(b) /\ i = Len(a) + j
      BY SMT, <1>1, <2>2
    <3> HIDE DEF j
    <3> QED BY Zenon, <1>1, <3>1 DEF Lacks
  <2> QED BY Zenon, <2>1, <2>2
<1>3. Lacks(t, c)
  BY Zenon, <1>2 DEF Lacks
<1> QED BY Zenon, <1>1, <1>3 DEF t

LEMMA ThreeTexts ==
  ASSUME NEW S, NEW a \in Seq(S), NEW b \in Seq(S), NEW c \in Seq(S)
  PROVE  (a \o b) \o c = a \o (b \o c) /\ a \o b \in Seq(S)
BY SMT

LEMMA NothingBehind ==
  ASSUME NEW S, NEW a \in Seq(S)
  PROVE  a \o <<>> = a /\ <<>> \o a = a
BY SMT

(* A path and its query *)
LEMMA PlainApart ==
  ASSUME NEW path, PathOk(path), NEW search, IsContainer(search),
         NEW p, p = path \o Asked(search)
  PROVE  /\ p \in Seq(Octets) /\ Lacks(p, Hash)
         /\ Upto(p, Find(p, Question, 1)) = path
         /\ SearchOf(From(p, Find(p, Question, 1) + 1)) = Filled(search)
         /\ ~SearchThrows(From(p, Find(p, Question, 1) + 1))
<1> DEFINE s == search_to_string(search)
           q == Asked(search)
<1>1. path \in Seq(Octets) /\ Lacks(path, Hash) /\ Lacks(path, Question)
  BY Zenon DEF PathOk
<1>2. s \in Seq(Octets) /\ q \in Seq(Octets) /\ Lacks(q, Hash)
  BY Zenon, AskedIs
<1>3. SearchOf(s) = Filled(search) /\ ~SearchThrows(s)
  BY Zenon, SearchIsRead
<1>4. q = IF search = NoEntries THEN <<>> ELSE <<Question>> \o s
  BY Zenon DEF Asked
<1>5. p = path \o q /\ s = search_to_string(search)
  BY Zenon
<1> HIDE DEF s, q
<1>6. p \in Seq(Octets) /\ Lacks(p, Hash)
  BY Zenon, <1>1, <1>2, <1>5, BothLack
<1>7. CASE search = NoEntries
  <2>1. q = <<>>
    BY Zenon, <1>4, <1>7
  <2>2. p = path
    BY Zenon, <1>1, <1>5, <2>1, NothingBehind
  <2>3. Upto(path, Find(path, Question, 1)) = path /\ From(path, Find(path, Question, 1) + 1) = <<>>
    BY Zenon, <1>1, SplitNone
  <2>4. s = <<>>
    <3>1. Len(entries(NoEntries)) = 0
      <4>1. Cardinality(DOMAIN NoEntries) = 0
        <5>1. DOMAIN NoEntries = {}
          BY SMT DEF NoEntries
        <5> QED BY Zenon, <5>1, FS_EmptySet
      <4>2. Names(NoEntries) = <<>>
        <5>1. 1 .. 0 = {}
          BY SMT
        <5> DEFINE N == Names(NoEntries)
        <5>2. N = [n \in 1 .. 0 |-> CHOOSE k \in DOMAIN NoEntries :
                     Cardinality({l \in DOMAIN NoEntries : Before(l, k)}) = n - 1]
          BY Zenon, <4>1 DEF Names
        <5>3. DOMAIN N = {}
          BY Zenon, <5>1, <5>2
        <5>4. N = [n \in {} |-> N[n]]
          BY Zenon, <5>1, <5>2
        <5> HIDE DEF N
        <5>5. N = <<>>
          BY SMT, <5>4
        <5> QED BY Zenon, <5>5 DEF N
      <4> DEFINE ss == [i \in 1 .. Len(<<>>) |-> [j \in 1 .. Len(NoEntries[<<>>[i]]) |-> <<<<>>[i], NoEntries[<<>>[i]][j]>>]]
      <4>3. entries(NoEntries) = FlattenSeq(ss)
        BY Zenon, <4>2 DEF entries
      <4>4. ss = <<>>
        BY SMT
      <4>5. FlattenSeq(<<>>) = <<>> /\ Len(<<>>) = 0
        BY SMT DEF FlattenSeq
      <4> QED BY Zenon, <4>3, <4>4, <4>5
    <3> DEFINE ts == [i \in 1 .. Len(entries(NoEntries)) |->
                        encode(entries(NoEntries)[i][1]) \o <<Equals>> \o encode(entries(NoEntries)[i][2])]
    <3>2. s = Joined(ts, <<Amp>>)
      BY Zenon, <1>5, <1>7 DEF search_to_string
    <3>3. ts = <<>>
      BY SMT, <3>1
    <3> QED BY Zenon, <3>2, <3>3, JoinedNothing
  <2> QED BY Zenon, <1>3, <1>6, <2>2, <2>3, <2>4
<1>8. CASE search # NoEntries
  <2>1. q = <<Question>> \o s /\ Question \in Octets /\ <<Question>> \in Seq(Octets)
    <3>1. Question \in Octets /\ <<Question>> \in Seq(Octets)
      BY SMT DEF Question, Octets
    <3> QED BY Zenon, <1>4, <1>8, <3>1
  <2>2. p = path \o <<Question>> \o s
    <3>1. (path \o <<Question>>) \o s = path \o (<<Question>> \o s)
      BY SMT, <1>1, <1>2, <2>1
    <3> QED BY Zenon, <1>5, <2>1, <3>1
  <2>3. IsSplit(p, path, Question, s, Octets)
    BY Zenon, <1>1, <1>2, <2>1, <2>2 DEF IsSplit
  <2>4. Splits(p, path, Question, s)
    BY Zenon, <2>3, SplitAt
  <2>5. Upto(p, Find(p, Question, 1)) = path /\ From(p, Find(p, Question, 1) + 1) = s
    BY Zenon, <2>4 DEF Splits
  <2> QED BY Zenon, <1>3, <1>6, <2>5
<1> QED BY Zenon, <1>7, <1>8

(* What follows the host, read again *)
Reads(tail, path, search, fragment) ==
  /\ tail \in Seq(Octets) /\ Path(tail) = path
  /\ SearchOf(Query(tail)) = Filled(search) /\ ~SearchThrows(Query(tail))
  /\ Fragment(tail) = fragment

LEMMA TailIs ==
  ASSUME NEW path, PathOk(path), NEW search, IsContainer(search), NEW fragment, FragmentOk(fragment),
         NEW tail, tail = path \o Asked(search) \o fragment
  PROVE  Reads(tail, path, search, fragment)
<1> DEFINE p == path \o Asked(search)
<1>1. /\ p \in Seq(Octets) /\ Lacks(p, Hash)
      /\ Upto(p, Find(p, Question, 1)) = path
      /\ SearchOf(From(p, Find(p, Question, 1) + 1)) = Filled(search)
      /\ ~SearchThrows(From(p, Find(p, Question, 1) + 1))
  BY Zenon, PlainApart
<1>2. tail = p \o fragment
  BY Zenon
<1>3. fragment \in Seq(Octets) /\ (fragment = <<>> \/ \E rest \in Seq(Octets) : fragment = <<Hash>> \o rest)
  BY Zenon DEF FragmentOk
<1> HIDE DEF p
<1>4. tail \in Seq(Octets)
  BY ZenonT(60), <1>1, <1>2, <1>3, ThreeTexts
<1>5. Plain(tail) = p /\ Fragment(tail) = fragment
  <2>1. CASE fragment = <<>>
    <3>1. tail = p
      BY Zenon, <1>1, <1>2, <2>1, NothingBehind
    <3>2. Upto(p, Find(p, Hash, 1)) = p /\ From(p, Find(p, Hash, 1)) = <<>>
      BY Zenon, <1>1, SplitNone
    <3> QED BY Zenon, <2>1, <3>1, <3>2 DEF Plain, Fragment
  <2>2. CASE \E rest \in Seq(Octets) : fragment = <<Hash>> \o rest
    <3>1. PICK rest \in Seq(Octets) : fragment = <<Hash>> \o rest
      BY Zenon, <2>2
    <3>2. Hash \in Octets /\ <<Hash>> \in Seq(Octets)
      BY SMT DEF Hash, Octets
    <3>3. tail = p \o <<Hash>> \o rest
      <4>1. (p \o <<Hash>>) \o rest = p \o (<<Hash>> \o rest)
        BY SMT, <1>1, <3>1, <3>2
      <4> QED BY Zenon, <1>2, <3>1, <4>1
    <3>4. IsSplit(tail, p, Hash, rest, Octets)
      BY Zenon, <1>1, <3>1, <3>2, <3>3 DEF IsSplit
    <3>5. Splits(tail, p, Hash, rest)
      BY Zenon, <3>4, SplitAt
    <3>6. Upto(tail, Find(tail, Hash, 1)) = p /\ From(tail, Find(tail, Hash, 1)) = <<Hash>> \o rest
      BY Zenon, <3>5 DEF Splits
    <3> QED BY Zenon, <3>1, <3>6 DEF Plain, Fragment
  <2> QED BY Zenon, <1>3, <2>1, <2>2
<1>6. Path(tail) = path
  BY Zenon, <1>1, <1>5 DEF Path
<1>7. SearchOf(Query(tail)) = Filled(search) /\ ~SearchThrows(Query(tail))
  BY Zenon, <1>1, <1>5 DEF Query
<1> QED BY Zenon, <1>4, <1>5, <1>6, <1>7 DEF Reads

------------------------------------------------------------------------------
(* What stands before it: a scheme and a host, or nothing *)

LEMMA SchemeReads ==
  ASSUME NEW scheme, SchemeOk(scheme), NEW rest \in Seq(Octets),
         NEW text, text = scheme \o SchemeEnd \o rest
  PROVE  text \in Seq(Octets) /\ Scheme(text) = scheme /\ Located(text) = rest
<1> DEFINE L == Len(scheme)
           m == SchemeMark(text)
<1>1. scheme \in Seq(Octets) /\ reset_case(scheme) = scheme /\ Marks(scheme) = {}
  BY Zenon DEF SchemeOk
<1>2. SchemeEnd \in Seq(Octets) /\ Len(SchemeEnd) = 3 /\ SchemeEnd[1] = Colon /\ SchemeEnd[2] = Slash /\ SchemeEnd[3] = Slash
  BY SMT DEF SchemeEnd, Colon, Slash, Octets
<1>3. L \in Nat /\ Len(rest) \in Nat
  BY SMT, <1>1
<1>4. /\ text \in Seq(Octets) /\ Len(text) = L + 3 + Len(rest)
      /\ \A i \in 1 .. L : text[i] = scheme[i]
      /\ text[L + 1] = Colon /\ text[L + 2] = Slash /\ text[L + 3] = Slash
      /\ SubSeq(text, 1, L) = scheme /\ SubSeq(text, L + 4, Len(text)) = rest
  <2> DEFINE u == scheme \o SchemeEnd
  <2>a. Behind(u, scheme, SchemeEnd, Octets)
    BY Zenon, <1>1, <1>2, ConcatIs
  <2>b. u \in Seq(Octets) /\ text = u \o rest
    BY Zenon, <2>a DEF Behind
  <2> HIDE DEF u
  <2>c. Behind(text, u, rest, Octets)
    BY Zenon, <2>b, ConcatIs
  <2>d. /\ Len(u) = L + 3 /\ \A i \in 1 .. L : u[i] = scheme[i]
        /\ \A i \in 1 .. 3 : u[L + i] = SchemeEnd[i]
    BY Zenon, <1>2, <2>a DEF Behind
  <2>e. /\ text \in Seq(Octets) /\ Len(text) = (L + 3) + Len(rest)
        /\ \A i \in 1 .. L + 3 : text[i] = u[i]
        /\ \A i \in 1 .. Len(rest) : text[(L + 3) + i] = rest[i]
    BY Zenon, <2>c, <2>d DEF Behind
  <2>1. text \in Seq(Octets) /\ Len(text) = L + 3 + Len(rest)
    BY Zenon, <2>e
  <2>f. /\ \A i \in 1 .. L : i \in 1 .. L + 3
        /\ \A i \in 1 .. 3 : L + i \in 1 .. L + 3
        /\ 1 \in 1 .. 3 /\ 2 \in 1 .. 3 /\ 3 \in 1 .. 3
    <3> HIDE DEF L
    <3> QED BY SMT, <1>3
  <2>2. \A i \in 1 .. L : text[i] = scheme[i]
    BY Zenon, <2>d, <2>e, <2>f
  <2>3. text[L + 1] = SchemeEnd[1] /\ text[L + 2] = SchemeEnd[2] /\ text[L + 3] = SchemeEnd[3]
    <3>1. \A i \in 1 .. 3 : text[L + i] = SchemeEnd[i]
      BY Zenon, <2>d, <2>e, <2>f
    <3> QED BY Zenon, <2>f, <3>1
  <2>4. \A i \in 1 .. Len(rest) : text[L + 3 + i] = rest[i]
    BY Zenon, <2>e
  <2> HIDE DEF L
  <2>5. SubSeq(text, 1, L) = scheme
    <3>1. Len(scheme) = L
      BY DEF L
    <3> QED BY SMT, <1>1, <1>3, <2>1, <2>2, <3>1
  <2>6. SubSeq(text, L + 4, Len(text)) = rest
    BY SMT, <1>3, <2>1, <2>4
  <2> QED BY Zenon, <1>2, <2>1, <2>2, <2>3, <2>5, <2>6
<1> HIDE DEF L
<1>5. /\ L + 1 \in Nat /\ L + 1 >= 1 /\ (L + 1) + 2 <= Len(text)
      /\ (L + 1) + 1 = L + 2 /\ (L + 1) + 2 = L + 3 /\ (L + 1) - 1 = L /\ (L + 1) + 3 = L + 4
  BY SMT, <1>3, <1>4
<1>6. Marked(text, L + 1)
  BY Zenon, <1>4, <1>5 DEF Marked
<1>7. ASSUME NEW j \in Nat, Marked(text, j), j < L + 1 PROVE FALSE
  <2>1. j >= 1 /\ text[j] = Colon /\ text[j + 1] = Slash /\ text[j + 2] = Slash
    BY Zenon, <1>7 DEF Marked
  <2>2. Colon # Slash
    BY SMT DEF Colon, Slash
  <2>3. j + 1 # L + 1 /\ j + 2 # L + 1
    BY Zenon, <2>1, <2>2, <1>4
  <2>4. j + 2 <= L /\ j \in 1 .. L /\ j + 1 \in 1 .. L /\ j + 2 \in 1 .. L
    BY SMT, <1>3, <1>7, <2>1, <2>3
  <2>5. Marked(scheme, j)
    BY Zenon, <1>4, <2>1, <2>4 DEF Marked, L
  <2> QED BY Zenon, <1>1, <2>5, UnmarkedIs
<1>8. m = L + 1 /\ m # 0
  <2>1. Marks(text) # {}
    BY Zenon, <1>4, <1>5, <1>6, UnmarkedIs
  <2>2. Marked(text, m) /\ m # 0 /\ m <= L + 1
    BY Zenon, <1>4, <1>5, <1>6, <2>1, MarkIs
  <2>3. m \in Nat
    BY Zenon, <2>2 DEF Marked
  <2>4. ~(m < L + 1)
    BY Zenon, <1>7, <2>2, <2>3
  <2> HIDE DEF m
  <2> QED BY SMT, <1>3, <2>2, <2>3, <2>4
<1>9. Scheme(text) = scheme
  BY Zenon, <1>1, <1>4, <1>5, <1>8 DEF Scheme, Upto
<1>10. Located(text) = rest
  BY Zenon, <1>4, <1>5, <1>8 DEF Located, From
<1> QED BY Zenon, <1>4, <1>9, <1>10

(* A text that begins with a slash *)
LEMMA SlashFirst ==
  ASSUME NEW tail \in Seq(Octets), tail # <<>>, tail[1] = Slash
  PROVE  From(tail, 2) \in Seq(Octets) /\ tail = <<Slash>> \o From(tail, 2) /\ Slash \in Octets
<1>1. 1 \in 1 .. Len(tail) /\ 1 + 1 = 2
  BY SMT
<1>2. <<tail[1]>> \o From(tail, 1 + 1) = From(tail, 1)
  BY Zenon, <1>1, SuffixGrows
<1>3. From(tail, 1) = tail /\ From(tail, 2) \in Seq(Octets)
  BY SMT DEF From
<1>4. Slash \in Octets
  BY SMT DEF Slash, Octets
<1> QED BY Zenon, <1>1, <1>2, <1>3, <1>4

Addresses(text, scheme, host, tail) ==
  /\ Scheme(text) = scheme /\ Host(Authority(text)) = host
  /\ User(Authority(text)) = NoUser /\ Rest(text) = tail

HostOk(host) ==
  host \in Seq(Octets) /\ reset_case(host) = host /\ Lacks(host, At) /\ Lacks(host, Slash)

LEMMA LocatedReads ==
  ASSUME NEW host, HostOk(host), NEW tail \in Seq(Octets), tail # <<>>, tail[1] = Slash,
         NEW text, Located(text) = host \o tail
  PROVE  Addresses(text, Scheme(text), host, tail)
<1> DEFINE rest == host \o tail
           r == From(tail, 2)
<1>1. host \in Seq(Octets) /\ reset_case(host) = host /\ Lacks(host, At) /\ Lacks(host, Slash)
  BY Zenon DEF HostOk
<1>2. r \in Seq(Octets) /\ tail = <<Slash>> \o r /\ Slash \in Octets
  BY Zenon, SlashFirst
<1>3. rest = host \o tail
  BY Zenon
<1>3a. Located(text) = rest
  BY Zenon
<1> HIDE DEF r, rest
<1>4. rest = host \o <<Slash>> \o r
  BY SMT, <1>1, <1>2, <1>3
<1>5. IsSplit(rest, host, Slash, r, Octets)
  BY Zenon, <1>1, <1>2, <1>4 DEF IsSplit
<1>6. Splits(rest, host, Slash, r)
  BY Zenon, <1>5, SplitAt
<1>7. Authority(text) = host /\ Rest(text) = tail
  BY Zenon, <1>2, <1>3a, <1>6 DEF Authority, Rest, Splits
<1>8. ~(Find(host, At, 1) <= Len(host))
  <2>1. Find(host, At, 1) = Len(host) + 1
    BY Zenon, <1>1, SplitNone
  <2>2. Len(host) \in Nat
    BY SMT, <1>1
  <2> QED BY SMT, <2>1, <2>2
<1>9. Host(host) = host /\ User(host) = NoUser
  BY Zenon, <1>1, <1>8 DEF Host, User
<1> QED BY Zenon, <1>7, <1>9 DEF Addresses

LEMMA AddressReads ==
  ASSUME NEW scheme, SchemeOk(scheme), NEW host, HostOk(host),
         NEW tail \in Seq(Octets), tail # <<>>, tail[1] = Slash,
         NEW text, text = scheme \o SchemeEnd \o (host \o tail)
  PROVE  Addresses(text, scheme, host, tail)
<1> DEFINE rest == host \o tail
<1>1. rest \in Seq(Octets)
  BY Zenon, ThreeTexts DEF HostOk
<1> HIDE DEF rest
<1>2. text = scheme \o SchemeEnd \o rest
  BY Zenon DEF rest
<1>3. Scheme(text) = scheme /\ Located(text) = rest
  BY Zenon, <1>1, <1>2, SchemeReads
<1>4. Located(text) = host \o tail
  BY Zenon, <1>3 DEF rest
<1>5. Addresses(text, Scheme(text), host, tail)
  BY Zenon, <1>4, LocatedReads
<1> QED BY Zenon, <1>3, <1>5

LEMMA PathReads ==
  ASSUME NEW tail \in Seq(Octets), tail # <<>>, tail[1] = Slash, Marks(tail) = {}
  PROVE  Addresses(tail, <<>>, <<>>, tail)
<1>1. SchemeMark(tail) = 0
  BY Zenon DEF SchemeMark
<1>2. Scheme(tail) = <<>> /\ Located(tail) = tail
  BY Zenon, <1>1 DEF Scheme, Located
<1>3. HostOk(<<>>)
  <2>1. \A c : Lacks(<<>>, c)
    BY SMT DEF Lacks
  <2> QED BY Zenon, <2>1, NothingIs DEF HostOk
<1>4. Located(tail) = <<>> \o tail
  BY Zenon, <1>2, NothingBehind
<1>5. Addresses(tail, Scheme(tail), <<>>, tail)
  BY Zenon, <1>3, <1>4, LocatedReads
<1> QED BY Zenon, <1>2, <1>5

(* Three texts behind one another *)
InARow(t, a, b, c) ==
  /\ Len(a) \in Nat /\ Len(b) \in Nat /\ Len(c) \in Nat /\ Len(t) = (Len(a) + Len(b)) + Len(c)
  /\ \A i \in 1 .. Len(a) : t[i] = a[i]
  /\ \A i \in 1 .. Len(b) : t[Len(a) + i] = b[i]
  /\ \A i \in 1 .. Len(c) : t[(Len(a) + Len(b)) + i] = c[i]

LEMMA RowIs ==
  ASSUME NEW S, NEW a \in Seq(S), NEW b \in Seq(S), NEW c \in Seq(S)
  PROVE  a \o b \o c \in Seq(S) /\ InARow(a \o b \o c, a, b, c)
<1> DEFINE u == a \o b
           t == u \o c
<1>1. Behind(u, a, b, S)
  BY Zenon, ConcatIs
<1>2. u \in Seq(S)
  BY Zenon, <1>1 DEF Behind
<1> HIDE DEF u
<1>3. Behind(t, u, c, S)
  BY Zenon, <1>2, ConcatIs
<1> HIDE DEF t
<1>4. /\ Len(a) \in Nat /\ Len(b) \in Nat /\ Len(u) = Len(a) + Len(b)
      /\ \A i \in 1 .. Len(a) : u[i] = a[i]
      /\ \A i \in 1 .. Len(b) : u[Len(a) + i] = b[i]
  BY Zenon, <1>1 DEF Behind
<1>5. /\ Len(c) \in Nat /\ Len(t) = Len(u) + Len(c) /\ t \in Seq(S)
      /\ \A i \in 1 .. Len(u) : t[i] = u[i]
      /\ \A i \in 1 .. Len(c) : t[Len(u) + i] = c[i]
  BY Zenon, <1>3 DEF Behind
<1>6. /\ \A i \in 1 .. Len(a) : i \in 1 .. Len(u)
      /\ \A i \in 1 .. Len(b) : Len(a) + i \in 1 .. Len(u)
  BY SMT, <1>4
<1>7. InARow(t, a, b, c)
  BY Zenon, <1>4, <1>5, <1>6 DEF InARow
<1> QED BY Zenon, <1>5, <1>7 DEF t, u

(* Parameters between a path and a fragment make no end of a scheme. *)
LEMMA StillUnmarked ==
  ASSUME NEW a \in Seq(Octets), NEW c \in Seq(Octets), Marks(a \o c) = {},
         NEW b \in Seq(Octets), Lacks(b, Colon), Lacks(b, Slash), b # <<>>
  PROVE  Marks(a \o b \o c) = {}
<1> DEFINE t == a \o b \o c
           s == a \o c
           A == Len(a)
           B == Len(b)
           C == Len(c)
<1>1. t \in Seq(Octets) /\ InARow(t, a, b, c)
  BY Zenon, RowIs
<1>2. Behind(s, a, c, Octets)
  BY Zenon, ConcatIs
<1>3. Marks(s) = {}
  BY Zenon
<1> HIDE DEF t, s
<1>4. /\ A \in Nat /\ B \in Nat /\ C \in Nat /\ Len(t) = (A + B) + C
      /\ \A i \in 1 .. A : t[i] = a[i]
      /\ \A i \in 1 .. B : t[A + i] = b[i]
      /\ \A i \in 1 .. C : t[(A + B) + i] = c[i]
  BY Zenon, <1>1 DEF InARow
<1>5. /\ s \in Seq(Octets) /\ Len(s) = A + C
      /\ \A i \in 1 .. A : s[i] = a[i]
      /\ \A i \in 1 .. C : s[A + i] = c[i]
  BY Zenon, <1>2 DEF Behind
<1>6. B >= 1
  BY SMT
<1> HIDE DEF A, B, C
<1>7. \A i \in 1 .. B : t[A + i] # Colon /\ t[A + i] # Slash
  BY Zenon, <1>4 DEF Lacks, B
<1>8. ASSUME NEW i \in Nat, Marked(t, i) PROVE FALSE
  <2>1. i >= 1 /\ i + 2 <= Len(t) /\ t[i] = Colon /\ t[i + 1] = Slash /\ t[i + 2] = Slash
    BY Zenon, <1>8 DEF Marked
  <2>2. ASSUME NEW j \in Nat, j >= 1, j <= A + B, t[j] = Colon \/ t[j] = Slash PROVE j <= A
    <3>1. CASE j <= A
      BY Zenon, <3>1
    <3>2. CASE ~(j <= A)
      <4> DEFINE d == j - A
      <4>1. d \in 1 .. B /\ j = A + d
        BY SMT, <1>4, <2>2, <3>2
      <4> HIDE DEF d
      <4> QED BY Zenon, <1>7, <2>2, <4>1
    <3> QED BY Zenon, <3>1, <3>2
  <2>3. i <= A \/ i > A + B
    <3>1. i <= A + B => i <= A
      BY Zenon, <2>1, <2>2
    <3> QED BY SMT, <1>4, <3>1
  <2>4. CASE i <= A
    <3>1. i + 1 \in Nat /\ i + 1 >= 1 /\ i + 1 <= A + B /\ i + 2 \in Nat /\ i + 2 >= 1
      BY SMT, <1>4, <1>6, <2>4
    <3>2. i + 1 <= A
      BY Zenon, <2>1, <2>2, <3>1
    <3>3. i + 2 <= A + B
      BY SMT, <1>4, <1>6, <3>2
    <3>4. i + 2 <= A
      BY Zenon, <2>1, <2>2, <3>1, <3>3
    <3>5. i \in 1 .. A /\ i + 1 \in 1 .. A /\ i + 2 \in 1 .. A /\ i + 2 <= Len(s)
      BY SMT, <1>4, <1>5, <2>1, <3>4
    <3>6. Marked(s, i)
      BY Zenon, <1>4, <1>5, <2>1, <3>5 DEF Marked
    <3> QED BY Zenon, <1>3, <1>5, <3>6, UnmarkedIs
  <2>5. CASE i > A + B
    <3> DEFINE d == i - (A + B)
               p == A + d
    <3>1. /\ d \in 1 .. C /\ d + 1 \in 1 .. C /\ d + 2 \in 1 .. C
          /\ i = (A + B) + d /\ i + 1 = (A + B) + (d + 1) /\ i + 2 = (A + B) + (d + 2)
          /\ p \in Nat /\ p >= 1 /\ p + 2 <= Len(s) /\ p + 1 = A + (d + 1) /\ p + 2 = A + (d + 2)
      BY SMT, <1>4, <1>5, <2>1, <2>5
    <3>2. p = A + d
      BY Zenon
    <3> HIDE DEF d, p
    <3>4. s[p] = t[i]
      BY Zenon, <1>4, <1>5, <3>1, <3>2
    <3>5. s[p + 1] = t[i + 1]
      <4>1. s[A + (d + 1)] = c[d + 1] /\ t[(A + B) + (d + 1)] = c[d + 1]
        BY Zenon, <1>4, <1>5, <3>1
      <4>2. p + 1 = A + (d + 1) /\ i + 1 = (A + B) + (d + 1)
        BY Zenon, <3>1
      <4> QED BY Zenon, <4>1, <4>2
    <3>6. s[p + 2] = t[i + 2]
      <4>1. s[A + (d + 2)] = c[d + 2] /\ t[(A + B) + (d + 2)] = c[d + 2]
        BY Zenon, <1>4, <1>5, <3>1
      <4>2. p + 2 = A + (d + 2) /\ i + 2 = (A + B) + (d + 2)
        BY Zenon, <3>1
      <4> QED BY Zenon, <4>1, <4>2
    <3>3. Marked(s, p)
      BY Zenon, <2>1, <3>1, <3>4, <3>5, <3>6 DEF Marked
    <3> QED BY Zenon, <1>3, <1>5, <3>1, <3>3, UnmarkedIs
  <2> QED BY Zenon, <2>3, <2>4, <2>5
<1>9. Marks(t) = {}
  BY Zenon, <1>1, <1>8, UnmarkedIs
<1> QED BY Zenon, <1>9 DEF t

------------------------------------------------------------------------------
(* The whole url *)

(* A text is read as these parts. *)
ReadAs(text, scheme, host, path, search, fragment) ==
  /\ Parses(text)
  /\ UrlOf(text) = [scheme |-> scheme, user |-> NoUser, host |-> host, path |-> path,
                    search |-> Filled(search), fragment |-> fragment]

LEMMA PartsRead ==
  ASSUME NEW text, NEW scheme, NEW host, NEW tail, NEW path, NEW search, NEW fragment,
         tail # <<>>, Addresses(text, scheme, host, tail), Reads(tail, path, search, fragment)
  PROVE  ReadAs(text, scheme, host, path, search, fragment)
<1>1. /\ Scheme(text) = scheme /\ Host(Authority(text)) = host
      /\ User(Authority(text)) = NoUser /\ Rest(text) = tail
  BY Zenon DEF Addresses
<1>2. /\ Path(tail) = path /\ SearchOf(Query(tail)) = Filled(search) /\ ~SearchThrows(Query(tail))
      /\ Fragment(tail) = fragment
  BY Zenon DEF Reads
<1>3. Parses(text)
  BY Zenon, <1>1, <1>2 DEF Parses
<1>4. UrlOf(text) = [scheme |-> scheme, user |-> NoUser, host |-> host, path |-> path,
                     search |-> Filled(search), fragment |-> fragment]
  BY Zenon, <1>1, <1>2 DEF UrlOf
<1> QED BY Zenon, <1>3, <1>4 DEF ReadAs

(* What follows the host begins with the path's slash. *)
LEMMA TailBegins ==
  ASSUME NEW path, PathOk(path), path # <<>>, path[1] = Slash,
         NEW search, IsContainer(search), NEW fragment, FragmentOk(fragment),
         NEW tail, tail = path \o Asked(search) \o fragment
  PROVE  tail \in Seq(Octets) /\ tail # <<>> /\ tail[1] = Slash
<1> DEFINE q == Asked(search)
<1>1. path \in Seq(Octets) /\ q \in Seq(Octets) /\ fragment \in Seq(Octets)
  BY Zenon, AskedIs DEF PathOk, FragmentOk
<1> HIDE DEF q
<1>2. tail = path \o q \o fragment
  BY Zenon DEF q
<1>3. 1 \in 1 .. Len(path)
  BY SMT, <1>1
<1>4. tail \in Seq(Octets) /\ InARow(tail, path, q, fragment)
  BY Zenon, <1>1, <1>2, RowIs
<1>5. tail[1] = Slash /\ Len(tail) = (Len(path) + Len(q)) + Len(fragment)
      /\ Len(path) \in Nat /\ Len(q) \in Nat /\ Len(fragment) \in Nat
  BY Zenon, <1>3, <1>4 DEF InARow
<1>6. tail # <<>>
  BY SMT, <1>3, <1>5
<1> QED BY Zenon, <1>4, <1>5, <1>6

(* The text of a url, as it is written and as it is read *)
WrittenText(t, a, e, h, p, q, f) == t = a \o e \o h \o p \o q \o f
ReadText(t, a, e, h, p, q, f) == t = a \o e \o (h \o (p \o q \o f))

LEMMA WrittenIsRead ==
  ASSUME NEW S, NEW a \in Seq(S), NEW e \in Seq(S), NEW h \in Seq(S),
         NEW p \in Seq(S), NEW q \in Seq(S), NEW f \in Seq(S),
         NEW t, WrittenText(t, a, e, h, p, q, f)
  PROVE  ReadText(t, a, e, h, p, q, f)
<1> DEFINE b == a \o e
           g == b \o h
           r == p \o q
           w == r \o f
<1>0. t = g \o p \o q \o f
  BY Zenon DEF WrittenText
<1>1. b \in Seq(S) /\ r \in Seq(S) /\ w \in Seq(S)
  BY SMT
<1>2. g \in Seq(S)
  <2>1. b \in Seq(S)
    BY Zenon, <1>1
  <2> HIDE DEF b
  <2> QED BY SMT, <2>1
<1>3. g \o w = b \o (h \o w)
  <2>1. b \in Seq(S) /\ w \in Seq(S) /\ h \in Seq(S)
    BY Zenon, <1>1
  <2> HIDE DEF b, w
  <2>2. (b \o h) \o w = b \o (h \o w)
    BY SMTT(60), <2>1, ThreeTexts
  <2> QED BY Zenon, <2>2
<1>4. g \o p \o q = g \o r
  <2>1. g \in Seq(S)
    BY Zenon, <1>2
  <2> HIDE DEF g
  <2> QED BY SMTT(30), <2>1
<1>5. (g \o r) \o f = g \o w
  <2>1. g \in Seq(S) /\ r \in Seq(S)
    BY Zenon, <1>1, <1>2
  <2> HIDE DEF g, r
  <2> QED BY SMT, <2>1
<1>6. t = b \o (h \o w)
  <2> HIDE DEF b, g, r, w
  <2> QED BY Zenon, <1>0, <1>3, <1>4, <1>5
<1> QED BY Zenon, <1>6 DEF ReadText

LEMMA WithHost ==
  ASSUME NEW scheme, SchemeOk(scheme), NEW host, HostOk(host),
         NEW path, PathOk(path), path # <<>>, path[1] = Slash,
         NEW search, IsContainer(search), NEW fragment, FragmentOk(fragment),
         NEW text, ReadText(text, scheme, SchemeEnd, host, path, Asked(search), fragment)
  PROVE  ReadAs(text, scheme, host, path, search, fragment)
<1> DEFINE tail == path \o Asked(search) \o fragment
<1>0. tail = path \o Asked(search) \o fragment
  BY Zenon
<1>3. text = scheme \o SchemeEnd \o (host \o tail)
  BY Zenon DEF ReadText
<1> HIDE DEF tail
<1>1. tail \in Seq(Octets) /\ tail # <<>> /\ tail[1] = Slash
  BY Zenon, <1>0, TailBegins
<1>2. Reads(tail, path, search, fragment)
  BY Zenon, <1>0, <1>1, TailIs
<1>4. Addresses(text, scheme, host, tail)
  BY Zenon, <1>1, <1>3, AddressReads
<1> QED BY Zenon, <1>1, <1>2, <1>4, PartsRead

LEMMA WithoutHost ==
  ASSUME NEW path, PathOk(path), path # <<>>, path[1] = Slash,
         NEW search, IsContainer(search), NEW fragment, FragmentOk(fragment),
         Marks(path \o fragment) = {},
         NEW text, text = path \o Asked(search) \o fragment
  PROVE  ReadAs(text, <<>>, <<>>, path, search, fragment)
<1> DEFINE q == Asked(search)
<1>1. text \in Seq(Octets) /\ text # <<>> /\ text[1] = Slash
  BY Zenon, TailBegins
<1>2. Reads(text, path, search, fragment)
  BY Zenon, TailIs
<1>3. path \in Seq(Octets) /\ fragment \in Seq(Octets) /\ q \in Seq(Octets) /\ Lacks(q, Colon) /\ Lacks(q, Slash)
  BY Zenon, AskedIs DEF PathOk, FragmentOk
<1>4. text = path \o q \o fragment
  BY Zenon
<1> HIDE DEF q
<1>5. Marks(text) = {}
  <2>1. CASE q = <<>>
    <3>1. text = path \o fragment
      BY Zenon, <1>3, <1>4, <2>1, NothingBehind
    <3> QED BY Zenon, <3>1
  <2>2. CASE q # <<>>
    BY Zenon, <1>3, <1>4, <2>2, StillUnmarked
  <2> QED BY Zenon, <2>1, <2>2
<1>6. Addresses(text, <<>>, <<>>, text)
  BY Zenon, <1>1, <1>5, PathReads
<1> QED BY Zenon, <1>1, <1>2, <1>6, PartsRead

LEMMA WrittenAs ==
  ASSUME NEW scheme, SchemeOk(scheme), NEW host, HostOk(host), NEW path, PathOk(path),
         NEW search, IsContainer(search), NEW fragment, FragmentOk(fragment),
         NEW text, WrittenText(text, scheme, SchemeEnd, host, path, Asked(search), fragment)
  PROVE  ReadText(text, scheme, SchemeEnd, host, path, Asked(search), fragment)
<1>1. scheme \in Seq(Octets) /\ host \in Seq(Octets) /\ path \in Seq(Octets) /\ fragment \in Seq(Octets)
  BY Zenon DEF SchemeOk, HostOk, PathOk, FragmentOk
<1>2. Asked(search) \in Seq(Octets)
  BY Zenon, AskedIs
<1>3. SchemeEnd \in Seq(Octets)
  BY SMT DEF SchemeEnd, Colon, Slash, Octets
<1> QED BY Zenon, <1>1, <1>2, <1>3, WrittenIsRead

(* The parts of the object *)
UrlIs(scheme, user, host, path, search, fragment) ==
  /\ url = [scheme |-> scheme, user |-> user, host |-> host, path |-> path,
            search |-> search, fragment |-> fragment]
  /\ url.scheme = scheme /\ url.user = user /\ url.host = host /\ url.path = path
  /\ url.search = search /\ url.fragment = fragment

LEMMA UrlParts ==
  UrlInv => \E scheme, user, host, path, search, fragment :
              /\ UrlIs(scheme, user, host, path, search, fragment)
              /\ UrlOk(scheme, user, host, path, search, fragment)
<1> SUFFICES ASSUME UrlInv
             PROVE  \E scheme, user, host, path, search, fragment :
                      /\ UrlIs(scheme, user, host, path, search, fragment)
                      /\ UrlOk(scheme, user, host, path, search, fragment)
  OBVIOUS
<1>1. PICK scheme, user, host, path, search, fragment :
        /\ url = [scheme |-> scheme, user |-> user, host |-> host, path |-> path,
                  search |-> search, fragment |-> fragment]
        /\ UrlOk(scheme, user, host, path, search, fragment)
  BY Zenon DEF UrlInv
<1>2. /\ url.scheme = scheme /\ url.user = user /\ url.host = host /\ url.path = path
      /\ url.search = search /\ url.fragment = fragment
  BY SMT, <1>1
<1> QED BY Zenon, <1>1, <1>2 DEF UrlIs

LEMMA HostIsOk ==
  ASSUME NEW host \in Seq(Octets), reset_case(host) = host, ~Contains(host, At), ~Contains(host, Slash)
  PROVE  HostOk(host)
BY Zenon DEF HostOk, Contains, Lacks

(* A url that is written and parsed again is the same url, unless it has    *)
(* credentials, no host to stand behind its scheme, or a part that another  *)
(* part's separator would end: to_string() and the constructor fit.        *)
THEOREM UrlRead == Spec => []UrlReadsBack
<1>1. UrlInv => UrlReadsBack
  <2> SUFFICES ASSUME UrlInv, Writable(url)
               PROVE  Parses(to_string(url)) /\ UrlOf(to_string(url)) = Written(url)
    BY Zenon DEF UrlReadsBack
  <2>1. PICK scheme, user, host, path, search, fragment :
          /\ UrlIs(scheme, user, host, path, search, fragment)
          /\ UrlOk(scheme, user, host, path, search, fragment)
    BY Zenon, UrlParts
  <2>2. /\ user = NoUser /\ path # <<>> /\ path[1] = Slash
        /\ reset_case(host) = host /\ ~Contains(host, At) /\ ~Contains(host, Slash)
        /\ host = <<>> => scheme = <<>> /\ Marks(path \o fragment) = {}
    BY Zenon, <2>1 DEF Writable, UrlIs
  <2>3. /\ SchemeOk(scheme) /\ host \in Seq(Octets) /\ PathOk(path)
        /\ IsContainer(search) /\ FragmentOk(fragment)
    BY Zenon, <2>1 DEF UrlOk
  <2>4. HostOk(host)
    BY Zenon, <2>2, <2>3, HostIsOk
  <2> DEFINE text == to_string(url)
  <2>5. text = (IF host = <<>> THEN <<>> ELSE scheme \o SchemeEnd \o <<>> \o host)
                 \o path \o Asked(search) \o fragment
    BY Zenon, <2>1, <2>2 DEF to_string, UrlIs, UserToString, Asked
  <2>6. ReadAs(text, scheme, host, path, search, fragment)
    <3> HIDE DEF text
    <3>1. CASE host = <<>>
      <4>1. text = <<>> \o path \o Asked(search) \o fragment
        BY Zenon, <2>5, <3>1
      <4>2. text = path \o Asked(search) \o fragment
        <5>1. <<>> \o path = path
          BY SMT, <2>3 DEF PathOk
        <5> QED BY Zenon, <4>1, <5>1
      <4>3. ReadAs(text, <<>>, <<>>, path, search, fragment)
        BY Zenon, <2>2, <2>3, <3>1, <4>2, WithoutHost
      <4> QED BY Zenon, <2>2, <3>1, <4>3
    <3>2. CASE host # <<>>
      <4>1. text = scheme \o SchemeEnd \o <<>> \o host \o path \o Asked(search) \o fragment
        BY Zenon, <2>5, <3>2
      <4>2. scheme \o SchemeEnd \o <<>> = scheme \o SchemeEnd
        BY SMT, <2>3 DEF SchemeOk, SchemeEnd, Colon, Slash, Octets
      <4>3. WrittenText(text, scheme, SchemeEnd, host, path, Asked(search), fragment)
        BY Zenon, <4>1, <4>2 DEF WrittenText
      <4>4. ReadText(text, scheme, SchemeEnd, host, path, Asked(search), fragment)
        BY Zenon, <2>3, <2>4, <4>3, WrittenAs
      <4> QED BY Zenon, <2>2, <2>3, <2>4, <4>4, WithHost
    <3> QED BY Zenon, <3>1, <3>2
  <2>7. Written(url) = [scheme |-> scheme, user |-> NoUser, host |-> host, path |-> path,
                        search |-> Filled(search), fragment |-> fragment]
    BY SMT, <2>1, <2>2 DEF Written, UrlIs
  <2> QED BY Zenon, <2>6, <2>7 DEF ReadAs
<1> QED BY <1>1, UrlInit, UrlStep, PTL DEF Spec

(* The address of a url, as a redirect has it, leads to the same place with *)
(* the same parameters, without credentials and fragment.                  *)
THEOREM HrefRead == Spec => []HrefReadsBack
<1>1. UrlInv => HrefReadsBack
  <2> SUFFICES ASSUME UrlInv, Writable([url EXCEPT !.user = NoUser]), ~HrefThrows(url)
               PROVE  UrlOf(href(url)) = [Written(url) EXCEPT !.user = NoUser, !.fragment = <<>>]
    BY Zenon DEF HrefReadsBack
  <2>1. PICK scheme, user, host, path, search, fragment :
          /\ UrlIs(scheme, user, host, path, search, fragment)
          /\ UrlOk(scheme, user, host, path, search, fragment)
    BY Zenon, UrlParts
  <2> DEFINE u == [url EXCEPT !.user = NoUser]
  <2>2. u.path = path /\ u.host = host
    BY SMT, <2>1 DEF UrlIs
  <2>3. /\ path # <<>> /\ path[1] = Slash
        /\ reset_case(host) = host /\ ~Contains(host, At) /\ ~Contains(host, Slash)
    <3>1. Writable(u)
      BY Zenon
    <3> HIDE DEF u
    <3> QED BY Zenon, <2>2, <3>1 DEF Writable
  <2>4. SchemeOk(scheme) /\ host \in Seq(Octets) /\ PathOk(path) /\ IsContainer(search) /\ FragmentOk(<<>>)
    BY Zenon, <2>1, NothingIs DEF UrlOk, FragmentOk
  <2>5. HostOk(host)
    BY Zenon, <2>3, <2>4, HostIsOk
  <2> DEFINE text == href(url)
  <2>6. text = scheme \o SchemeEnd \o host \o path \o Asked(search)
    BY Zenon, <2>1 DEF href, UrlIs, Asked
  <2>7. ReadAs(text, scheme, host, path, search, <<>>)
    <3> HIDE DEF text
    <3> DEFINE front == scheme \o SchemeEnd \o host \o path \o Asked(search)
    <3>1. front \in Seq(Octets)
      <4>1. /\ scheme \in Seq(Octets) /\ host \in Seq(Octets) /\ path \in Seq(Octets)
            /\ Asked(search) \in Seq(Octets)
        BY Zenon, <2>4, AskedIs DEF SchemeOk, PathOk
      <4>2. SchemeEnd \in Seq(Octets)
        BY SMT DEF SchemeEnd, Colon, Slash, Octets
      <4> QED BY SMT, <4>1, <4>2
    <3>2. front \o <<>> = front
      <4> HIDE DEF front
      <4> QED BY SMT, <3>1
    <3>3. WrittenText(text, scheme, SchemeEnd, host, path, Asked(search), <<>>)
      BY Zenon, <2>6, <3>2 DEF WrittenText
    <3> HIDE DEF front
    <3>4. ReadText(text, scheme, SchemeEnd, host, path, Asked(search), <<>>)
      BY Zenon, <2>4, <2>5, <3>3, WrittenAs
    <3> QED BY Zenon, <2>3, <2>4, <2>5, <3>4, WithHost
  <2>8. [Written(url) EXCEPT !.user = NoUser, !.fragment = <<>>] =
          [scheme |-> scheme, user |-> NoUser, host |-> host, path |-> path,
           search |-> Filled(search), fragment |-> <<>>]
    <3>1. Written(url) = [url EXCEPT !.search = Filled(search)]
      BY Zenon, <2>1 DEF Written, UrlIs
    <3>2. url = [scheme |-> scheme, user |-> user, host |-> host, path |-> path,
                 search |-> search, fragment |-> fragment]
      BY Zenon, <2>1 DEF UrlIs
    <3> DEFINE filled == Filled(search)
               w == Written(url)
    <3>3. w = [url EXCEPT !.search = filled]
      BY Zenon, <3>1
    <3> HIDE DEF filled, w
    <3>4. w = [scheme |-> scheme, user |-> user, host |-> host, path |-> path,
               search |-> filled, fragment |-> fragment]
      BY SMT, <3>2, <3>3
    <3>5. [w EXCEPT !.user = NoUser, !.fragment = <<>>] =
            [scheme |-> scheme, user |-> NoUser, host |-> host, path |-> path,
             search |-> filled, fragment |-> <<>>]
      <4> DEFINE v == [w EXCEPT !.user = NoUser]
                 nothing == <<>>
      <4>1. v = [scheme |-> scheme, user |-> NoUser, host |-> host, path |-> path,
                 search |-> filled, fragment |-> fragment]
        BY SMT, <3>4
      <4>2. [w EXCEPT !.user = NoUser, !.fragment = nothing] = [v EXCEPT !.fragment = nothing]
        BY Zenon
      <4> HIDE DEF v, nothing
      <4>3. [v EXCEPT !.fragment = nothing] =
              [scheme |-> scheme, user |-> NoUser, host |-> host, path |-> path,
               search |-> filled, fragment |-> nothing]
        BY SMT, <4>1
      <4> QED BY Zenon, <4>2, <4>3 DEF nothing
    <3> QED BY Zenon, <3>5 DEF filled, w
  <2> QED BY Zenon, <2>7, <2>8 DEF ReadAs
<1> QED BY <1>1, UrlInit, UrlStep, PTL DEF Spec
==============================================================================
