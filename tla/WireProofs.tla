----------------------------- MODULE WireProofs -----------------------------
(***************************************************************************)
(* First Codec: what the field codings preserve, for every value, what the *)
(* bitmap does, and that the parser makes of every message what the        *)
(* builder was given.  Then Wire: where every byte of every frame is, in   *)
(* the writer's hands, in flight or with the reader, whatever the          *)
(* interleaving, and from that what is handed to the parser.               *)
(***************************************************************************)
EXTENDS Wire, SequenceTheorems, WellFoundedInduction, TLAPS

-----------------------------------------------------------------------------
(* Induction.  The library's induction theorem is about an operator, which *)
(* the provers cannot instantiate; that every set of numbers has a least   *)
(* element follows from a theorem without one, and induction over the      *)
(* members of a set from that.                                             *)

Below == {p \in Nat \X Nat : p[1] < p[2]}

LEMMA LeastExists ==
    ASSUME NEW T \in SUBSET Nat, T # {}
    PROVE  \E x \in T : \A y \in T : x <= y
<1>1. IsWellFoundedOn(Below, Nat)
  BY NatLessThanWellFounded, Zenon DEF Below, OpToRel
<1>2. \E x \in T : \A y \in T : ~(<<y, x>> \in Below)
  BY <1>1, WFMin
<1>3. PICK x \in T : \A y \in T : ~(<<y, x>> \in Below)
  BY <1>2
<1>4. ASSUME NEW y \in T PROVE x <= y
  <2>1. <<y, x>> \notin Below
    BY <1>3
  <2>2. ~(y < x)
    BY <2>1 DEF Below
  <2> QED BY <2>2
<1> QED BY <1>4

LEMMA SetInduction ==
    ASSUME NEW lo \in Nat, NEW hi \in Nat, NEW S, lo \in S,
           \A n \in lo..(hi - 1) : n \in S => n + 1 \in S
    PROVE  \A n \in lo..hi : n \in S
<1> DEFINE T == {n \in lo..hi : n \notin S}
<1>1. SUFFICES ASSUME T # {} PROVE FALSE
  OBVIOUS
<1>2. PICK n \in T : \A y \in T : n <= y
  <2>1. T \in SUBSET Nat
    OBVIOUS
  <2> HIDE DEF T
  <2> QED BY <1>1, <2>1, LeastExists
<1>3. n # lo /\ n - 1 \in lo..(hi - 1)
  BY <1>2
<1>4. n - 1 \notin T
  BY <1>2, <1>3
<1>5. n - 1 \in S
  BY <1>3, <1>4
<1>6. n \in S
  BY <1>3, <1>5
<1> QED BY <1>6

-----------------------------------------------------------------------------
(* BCD *)

\* Two digits of a byte come apart again.
LEMMA NibblesApart ==
    ASSUME NEW x \in 0..15, NEW y \in 0..15
    PROVE  (16 * x + y) \div 16 = x /\ (16 * x + y) % 16 = y
  OBVIOUS

LEMMA NibblesMakeByte ==
    ASSUME NEW x \in Digit, NEW y \in 0..15
    PROVE  16 * x + y \in Byte
  BY DEF Digit, Byte

\* bcd_encode() makes bytes, as many as bcd_byte_len() says.
LEMMA BcdBytes ==
    ASSUME NEW d \in Seq(Digit)
    PROVE  /\ BcdEncode(d) \in Seq(Byte)
           /\ Len(BcdEncode(d)) = BcdByteLen(Len(d))
           /\ \A i \in 1..BcdByteLen(Len(d)) : BcdEncode(d)[i] =
                 16 * d[2 * i - 1] + (IF 2 * i <= Len(d) THEN d[2 * i] ELSE Filler)
<1> DEFINE n == Len(d)
           Low(i) == IF 2 * i <= n THEN d[2 * i] ELSE Filler
<1>1. n \in Nat /\ BcdByteLen(n) \in Nat
  BY DEF BcdByteLen
<1>2. ASSUME NEW i \in 1..BcdByteLen(n)
      PROVE  /\ d[2 * i - 1] \in Digit /\ Low(i) \in 0..15
             /\ 16 * d[2 * i - 1] + Low(i) \in Byte
  <2>1. 2 * i - 1 \in 1..n
    BY <1>1, <1>2 DEF BcdByteLen
  <2>2. d[2 * i - 1] \in Digit
    BY <2>1
  <2>3. Low(i) \in 0..15
    BY <1>1, <1>2 DEF Filler, Digit
  <2>4. 16 * d[2 * i - 1] + Low(i) \in Byte
    <3> HIDE DEF Low
    <3>. QED
      BY <2>2, <2>3, NibblesMakeByte
  <2>. QED
    BY <2>2, <2>3, <2>4
<1>3. BcdEncode(d) = [i \in 1..BcdByteLen(n) |-> 16 * d[2 * i - 1] + Low(i)]
  BY DEF BcdEncode
<1>4. BcdEncode(d) \in [1..BcdByteLen(n) -> Byte]
  BY <1>2, <1>3
<1>5. BcdEncode(d) \in Seq(Byte) /\ Len(BcdEncode(d)) = BcdByteLen(n)
  BY <1>1, <1>4
<1>6. \A i \in 1..BcdByteLen(n) : BcdEncode(d)[i] = 16 * d[2 * i - 1] + Low(i)
  BY <1>3
<1>. QED
  BY <1>5, <1>6

\* bcd_decode() undoes bcd_encode(): no digit is lost, the filler never shows.
THEOREM BcdReturns ==
    ASSUME NEW d \in Seq(Digit)
    PROVE  BcdDecode(BcdEncode(d), Len(d)) = d
<1> DEFINE n == Len(d)
           b == BcdEncode(d)
           Low(i) == IF 2 * i <= n THEN d[2 * i] ELSE Filler
<1>1. n \in Nat /\ Len(b) = BcdByteLen(n)
  BY BcdBytes
<1>2. Smaller(n, 2 * Len(b)) = n
  BY <1>1 DEF Smaller, BcdByteLen
<1>3. ASSUME NEW j \in 1..n
      PROVE  Nibble(b, j) = d[j]
  <2>1. CASE j % 2 = 1
    <3> DEFINE i == (j + 1) \div 2
    <3>1. i \in 1..BcdByteLen(n) /\ 2 * i - 1 = j
      BY <1>1, <2>1 DEF BcdByteLen
    <3>2. b[i] = 16 * d[j] + Low(i)
      BY <3>1, BcdBytes
    <3>3. d[j] \in 0..15 /\ Low(i) \in 0..15
      BY <1>1, <3>1 DEF Digit, Filler
    <3>4. (16 * d[j] + Low(i)) \div 16 = d[j]
      BY <3>3, NibblesApart
    <3>. QED
      BY <2>1, <3>2, <3>4 DEF Nibble
  <2>2. CASE j % 2 # 1
    <3> DEFINE i == j \div 2
    <3>1. i \in 1..BcdByteLen(n) /\ 2 * i = j
      BY <1>1, <2>2 DEF BcdByteLen
    <3>2. b[i] = 16 * d[j - 1] + d[j]
      <4>1. b[i] = 16 * d[2 * i - 1] + Low(i)
        BY <3>1, BcdBytes
      <4>2. 2 * i <= n /\ 2 * i - 1 = j - 1
        BY <1>1, <3>1
      <4>. QED
        BY <3>1, <4>1, <4>2
    <3>3. d[j - 1] \in 0..15 /\ d[j] \in 0..15
      BY <1>1, <3>1 DEF Digit
    <3>4. (16 * d[j - 1] + d[j]) % 16 = d[j]
      BY <3>3, NibblesApart
    <3>. QED
      BY <2>2, <3>2, <3>4 DEF Nibble
  <2>. QED
    BY <2>1, <2>2
<1>4. BcdDecode(b, n) = [j \in 1..n |-> d[j]]
  BY <1>2, <1>3 DEF BcdDecode
<1>. QED
  BY <1>1, <1>4

-----------------------------------------------------------------------------

\* The piece a field fills is the piece a reader cuts out.
LEMMA SliceMiddle ==
    ASSUME NEW before \in Seq(Byte), NEW field \in Seq(Byte), NEW after \in Seq(Byte)
    PROVE  Slice(before \o field \o after, Len(before), Len(field)) = field
<1> DEFINE raw == before \o field \o after
<1>1. Len(before) \in Nat /\ Len(field) \in Nat /\ Len(after) \in Nat
  OBVIOUS
<1>2. raw \in Seq(Byte) /\ Len(raw) = Len(before) + Len(field) + Len(after)
  OBVIOUS
<1>3. Smaller(Len(before) + Len(field), Len(raw)) = Len(before) + Len(field)
  BY <1>1, <1>2 DEF Smaller
<1>4. \A i \in 1..Len(field) : raw[Len(before) + i] = field[i]
  OBVIOUS
<1>5. SubSeq(raw, Len(before) + 1, Len(before) + Len(field)) = field
  BY <1>1, <1>2, <1>4
<1>. QED
  BY <1>3, <1>5 DEF Slice

\* A field of two parts: a reader cuts out each of them.
LEMMA SliceParts ==
    ASSUME NEW before \in Seq(Byte), NEW header \in Seq(Byte), NEW content \in Seq(Byte),
           NEW after \in Seq(Byte)
    PROVE  /\ Slice(before \o (header \o content) \o after, Len(before), Len(header)) = header
           /\ Slice(before \o (header \o content) \o after, Len(before) + Len(header),
                    Len(content)) = content
<1> DEFINE raw == before \o (header \o content) \o after
           front == before \o header
           rest == content \o after
<1>1. front \in Seq(Byte) /\ rest \in Seq(Byte) /\ Len(front) = Len(before) + Len(header)
  OBVIOUS
<1>2. raw = front \o content \o after
  BY ConcatAssociative
<1>3. front \o content \o after = before \o header \o rest
  BY <1>1, ConcatAssociative
<1> HIDE DEF raw, front, rest
<1>4. Slice(before \o header \o rest, Len(before), Len(header)) = header
  BY <1>1, SliceMiddle
<1>5. Slice(front \o content \o after, Len(front), Len(content)) = content
  BY <1>1, SliceMiddle
<1>6. Slice(raw, Len(before), Len(header)) = header
  BY <1>2, <1>3, <1>4
<1>7. Slice(raw, Len(before) + Len(header), Len(content)) = content
  BY <1>1, <1>2, <1>5
<1>. QED
  BY <1>6, <1>7 DEF raw

\* Every row of the catalogue is well formed.
LEMMA RowsAreTyped ==
    ASSUME NEW s \in FieldSpecs
    PROVE  /\ s.length \in Nat
           /\ s.lengthType \in {"FIXED", "LLVAR", "LLLVAR"}
           /\ s.coding \in {"bcd", "text", "binary"}
           /\ s.lengthType = "LLVAR" => s.length < 100
           /\ s.lengthType = "LLLVAR" => s.length < 10000
  BY SMTT(90) DEF FieldSpecs, FieldSpec

\* So is the entry of every data element.
LEMMA SpecsAreTyped ==
    ASSUME NEW de \in DataElements
    PROVE  /\ SpecOf[de].length \in Nat
           /\ SpecOf[de].lengthType \in {"FIXED", "LLVAR", "LLLVAR"}
           /\ SpecOf[de].coding \in {"bcd", "text", "binary"}
           /\ SpecOf[de].lengthType = "LLVAR" => SpecOf[de].length < 100
           /\ SpecOf[de].lengthType = "LLLVAR" => SpecOf[de].length < 10000
<1>1. \E s \in FieldSpecs : de \in s.des
  BY DEF DataElements
<1>2. SpecOf[de] \in FieldSpecs
  BY <1>1 DEF SpecOf
<1>. QED
  BY <1>2, RowsAreTyped

LEMMA TwoDigits ==
    ASSUME NEW x \in Digit, NEW y \in Digit
    PROVE  <<x, y>> \in Seq(Digit) /\ Len(<<x, y>>) = 2 /\ Number(<<x, y>>) = 10 * x + y
  BY DEF Number

LEMMA FourDigits ==
    ASSUME NEW w \in Digit, NEW x \in Digit, NEW y \in Digit, NEW z \in Digit
    PROVE  /\ <<w, x, y, z>> \in Seq(Digit) /\ Len(<<w, x, y, z>>) = 4
           /\ Number(<<w, x, y, z>>) = 1000 * w + 100 * x + 10 * y + z
  BY DEF Number

\* A length in front of a field comes back.
LEMMA PrefixReturns ==
    ASSUME NEW n \in Nat, NEW k \in {2, 4}, k = 2 => n < 100, n < 10000
    PROVE  /\ LengthPrefix(n, k) \in Seq(Digit)
           /\ Len(LengthPrefix(n, k)) = k
           /\ Number(LengthPrefix(n, k)) = n
<1> DEFINE a == n \div 10
           b == n \div 100
           c == n \div 1000
           x == n % 10
           y == a % 10
           z == b % 10
<1>1. CASE k = 2
  <2>1. LengthPrefix(n, k) = <<a, x>>
    BY <1>1 DEF LengthPrefix
  <2>2. a \in Digit /\ x \in Digit /\ 10 * a + x = n
    BY <1>1 DEF Digit
  <2> DEFINE t == <<a, x>>
  <2>3. t \in Seq(Digit) /\ Len(t) = 2 /\ Number(t) = 10 * a + x
    <3> HIDE DEF a, x
    <3>. QED
      BY <2>2, TwoDigits
  <2>4. LengthPrefix(n, k) = t
    BY <2>1
  <2> HIDE DEF t, a, x
  <2>. QED
    BY <1>1, <2>2, <2>3, <2>4
<1>2. CASE k = 4
  <2>1. LengthPrefix(n, k) = <<c, z, y, x>>
    BY <1>2 DEF LengthPrefix
  <2>2. a \in Nat /\ n = 10 * a + x /\ x \in Digit
    BY DEF Digit
  <2>3. b \in Nat /\ a = 10 * b + y /\ y \in Digit
    BY DEF Digit
  <2>4. c \in Digit /\ b = 10 * c + z /\ z \in Digit
    BY DEF Digit
  <2> HIDE DEF a, b, c, x, y, z
  <2>5. 1000 * c + 100 * z + 10 * y + x = n
    BY <2>2, <2>3, <2>4 DEF Digit
  <2> DEFINE t == <<c, z, y, x>>
  <2>6. t \in Seq(Digit) /\ Len(t) = 4 /\ Number(t) = 1000 * c + 100 * z + 10 * y + x
    BY <2>2, <2>3, <2>4, FourDigits
  <2>7. LengthPrefix(n, k) = t
    BY <2>1
  <2> HIDE DEF t
  <2>. QED
    BY <1>2, <2>5, <2>6, <2>7
<1>. QED
  BY <1>1, <1>2

\* rjust() to the width of the field.
LEMMA PadLeftFills ==
    ASSUME NEW v \in Seq(Digit), NEW n \in Nat, Len(v) <= n
    PROVE  /\ PadLeft(v, n) \in Seq(Digit) /\ Len(PadLeft(v, n)) = n
           /\ PadLeft(v, n) =
                [i \in 1..n |-> IF i > n - Len(v) THEN v[i - (n - Len(v))] ELSE 0]
<1> DEFINE z == Zeros(n - Len(v))
<1>1. z \in Seq(Digit) /\ Len(z) = n - Len(v) /\ \A i \in 1..(n - Len(v)) : z[i] = 0
  BY DEF Zeros, Digit
<1> HIDE DEF z
<1>2. z \o v \in Seq(Digit) /\ Len(z \o v) = n
  BY <1>1
<1>3. \A i \in 1..n : (z \o v)[i] = IF i > n - Len(v) THEN v[i - (n - Len(v))] ELSE 0
  BY <1>1
<1> DEFINE f == [i \in 1..n |-> IF i > n - Len(v) THEN v[i - (n - Len(v))] ELSE 0]
<1>4. z \o v = f
  <2>1. \A i \in 1..n : (z \o v)[i] \in Digit
    BY <1>2
  <2>2. f \in [1..n -> Digit] /\ \A i \in 1..n : f[i] = (z \o v)[i]
    BY <1>3, <2>1
  <2> HIDE DEF f
  <2>3. f \in Seq(Digit) /\ Len(f) = n
    BY <2>2
  <2>. QED
    BY <1>2, <2>2, <2>3, SeqEqual
<1>5. PadLeft(v, n) = z \o v
  BY DEF PadLeft, z
<1>. QED
  BY <1>2, <1>4, <1>5

\* ljust() to the width of the field.
LEMMA PadRightFills ==
    ASSUME NEW v \in Seq(Byte), NEW n \in Nat, Len(v) <= n
    PROVE  /\ PadRight(v, n) \in Seq(Byte) /\ Len(PadRight(v, n)) = n
           /\ Slice(PadRight(v, n), 0, n) = PadRight(v, n)
           /\ PadRight(v, n) = [i \in 1..n |-> IF i <= Len(v) THEN v[i] ELSE Space]
<1> DEFINE z == [i \in 1..(n - Len(v)) |-> Space]
<1>1. z \in Seq(Byte) /\ Len(z) = n - Len(v) /\ \A i \in 1..(n - Len(v)) : z[i] = Space
  BY DEF Space, Byte
<1> HIDE DEF z
<1>2. v \o z \in Seq(Byte) /\ Len(v \o z) = n
  BY <1>1
<1>3. \A i \in 1..n : (v \o z)[i] = IF i <= Len(v) THEN v[i] ELSE Space
  BY <1>1
<1> DEFINE f == [i \in 1..n |-> IF i <= Len(v) THEN v[i] ELSE Space]
<1>4. v \o z = f
  <2>1. \A i \in 1..n : (v \o z)[i] \in Byte
    BY <1>2
  <2>2. f \in [1..n -> Byte] /\ \A i \in 1..n : f[i] = (v \o z)[i]
    BY <1>3, <2>1
  <2> HIDE DEF f
  <2>3. f \in Seq(Byte) /\ Len(f) = n
    BY <2>2
  <2>. QED
    BY <1>2, <2>2, <2>3, SeqEqual
<1>5. Slice(v \o z, 0, n) = SubSeq(v \o z, 1, n)
  BY <1>2 DEF Slice, Smaller
<1>6. SubSeq(v \o z, 1, n) = v \o z
  BY <1>2
<1>7. PadRight(v, n) = v \o z
  BY DEF PadRight, z
<1>. QED
  BY <1>2, <1>4, <1>5, <1>6, <1>7

\* A text that is padded has the same last character.
LEMMA LastExists ==
    ASSUME NEW n \in Nat, NEW K \in SUBSET (1..n), K # {}
    PROVE  Max(K) \in K
<1> DEFINE T == {t \in 0..n : n - t \in K}
<1>1. PICK i \in K : TRUE
  OBVIOUS
<1>2. n - i \in T /\ T \in SUBSET Nat
  <2>1. n - (n - i) = i
    BY <1>1
  <2> QED BY <2>1
<1>3. PICK t \in T : \A y \in T : t <= y
  <2> HIDE DEF T
  <2> QED BY <1>2, LeastExists
<1>4. n - t \in K /\ \A k \in K : n - t >= k
  <2>1. ASSUME NEW k \in K PROVE n - t >= k
    <3>1. n - (n - k) = k /\ n - k \in 0..n
      OBVIOUS
    <3>2. n - k \in T
      BY <3>1
    <3> QED BY <1>3, <3>2
  <2> QED BY <2>1
<1> HIDE DEF T
<1>5. \E x \in K : \A y \in K : x >= y
  BY <1>4
<1> QED BY <1>5 DEF Max

LEMMA StrippedIgnoresPadding ==
    ASSUME NEW de \in DataElements, NEW v \in Seq(Byte), NEW n \in Nat, Len(v) <= n
    PROVE  Stripped(SpecOf[de], PadRight(v, n)) =
              IF SpecOf[de].lengthType = "FIXED" /\ SpecOf[de].coding = "text"
              THEN Stripped(SpecOf[de], v) ELSE PadRight(v, n)
<1> DEFINE d == PadRight(v, n)
           K(s) == {i \in 1..Len(s) : s[i] \notin Whitespace}
<1>1. /\ d \in Seq(Byte) /\ Len(d) = n
      /\ \A i \in 1..n : d[i] = IF i <= Len(v) THEN v[i] ELSE Space
  BY PadRightFills
<1>2. Space \in Whitespace
  BY DEF Space, Whitespace
<1> HIDE DEF d
<1>3. K(d) = K(v)
  BY <1>1, <1>2
<1>4. CASE K(v) = {}
  BY <1>3, <1>4 DEF Stripped, d
<1>5. CASE K(v) # {}
  <2> DEFINE m == Max(K(v))
  <2>1. m \in K(v)
    <3>1. Len(v) \in Nat /\ K(v) \in SUBSET (1..Len(v))
      OBVIOUS
    <3> HIDE DEF K
    <3> QED BY <1>5, <3>1, LastExists
  <2>2. m \in 1..Len(v)
    BY <2>1
  <2> HIDE DEF m
  <2>3. SubSeq(d, 1, m) = SubSeq(v, 1, m)
    <3>1. SubSeq(d, 1, m) = [i \in 1..m |-> d[i]]
      BY <1>1, <2>2
    <3>2. SubSeq(v, 1, m) = [i \in 1..m |-> v[i]]
      BY <2>2
    <3>3. \A i \in 1..m : d[i] = v[i]
      BY <1>1, <2>2
    <3> QED BY <3>1, <3>2, <3>3
  <2> QED BY <1>3, <1>5, <2>3 DEF Stripped, d, m
<1> QED BY <1>4, <1>5

-----------------------------------------------------------------------------

\* A FIXED field: digits, a text, binary data.
LEMMA FixedReturns ==
    ASSUME NEW de \in DataElements, NEW v, Fits(de, v),
           SpecOf[de].lengthType = "FIXED",
           NEW before \in Seq(Byte), NEW after \in Seq(Byte)
    PROVE  LET field == BuildField(de, v)
           IN /\ field \in Seq(Byte)
              /\ ReadField(before \o field \o after, Len(before), de) =
                    [value |-> NormalValue(de, v), next |-> Len(before) + Len(field)]
<1> DEFINE spec == SpecOf[de]
           n == spec.length
           field == BuildField(de, v)
           raw == before \o field \o after
<1>1. n \in Nat /\ spec.coding \in {"bcd", "text", "binary"} /\ Len(v) <= n
  BY SpecsAreTyped DEF Fits
<1>2. LengthDigits(spec) = 0
  BY DEF LengthDigits
<1>3. CASE spec.coding = "bcd"
  <2> DEFINE d == PadLeft(v, n)
  <2>1. v \in Seq(Digit)
    BY <1>3 DEF Fits
  <2>2. d \in Seq(Digit) /\ Len(d) = n
    BY <1>1, <2>1, PadLeftFills
  <2>3. d = NormalValue(de, v)
    BY <1>1, <1>3, <2>1, PadLeftFills DEF NormalValue
  <2>4. field = BcdEncode(d)
    BY <1>3 DEF BuildField
  <2> HIDE DEF d, field
  <2>5. field \in Seq(Byte) /\ Len(field) = BcdByteLen(n)
    BY <2>2, <2>4, BcdBytes
  <2>6. Slice(raw, Len(before), BcdByteLen(n)) = field
    BY <2>5, SliceMiddle
  <2>7. BcdDecode(field, n) = d
    BY <2>2, <2>4, BcdReturns
  <2>8. ReadField(raw, Len(before), de) =
           [value |-> BcdDecode(Slice(raw, Len(before), BcdByteLen(n)), n),
            next |-> Len(before) + BcdByteLen(n)]
    <3> HIDE DEF raw
    <3>1. Len(before) + 0 \div 2 = Len(before) /\ 0 \div 2 = 0
      OBVIOUS
    <3>. QED
      BY <1>2, <1>3, <3>1 DEF ReadField
  <2>9. ReadField(raw, Len(before), de) = [value |-> d, next |-> Len(before) + Len(field)]
    BY <2>5, <2>6, <2>7, <2>8
  <2>. QED
    BY <2>3, <2>5, <2>9 DEF field
<1>4. CASE spec.coding \in {"text", "binary"}
  <2> DEFINE d == PadRight(v, n)
  <2>1. v \in Seq(Byte) /\ spec.coding # "bcd"
    BY <1>4 DEF Fits
  <2>2. d \in Seq(Byte) /\ Len(d) = n /\ Slice(d, 0, n) = d
    BY <1>1, <2>1, PadRightFills
  <2>3. Stripped(spec, d) = NormalValue(de, v)
    <3>1. CASE spec.coding = "text"
      BY <1>1, <2>1, <3>1, StrippedIgnoresPadding DEF NormalValue
    <3>2. CASE spec.coding = "binary"
      <4>1. Stripped(spec, d) = d
        BY <3>2 DEF Stripped
      <4>2. d = NormalValue(de, v)
        BY <1>1, <2>1, <3>2, PadRightFills DEF NormalValue
      <4> QED BY <4>1, <4>2
    <3> QED BY <1>4, <3>1, <3>2
  <2>4. field = d
    BY <2>1, <2>2 DEF BuildField
  <2> HIDE DEF d, field
  <2>5. Slice(raw, Len(before), n) = d
    BY <2>2, <2>4, SliceMiddle
  <2>6. ReadField(raw, Len(before), de) =
           [value |-> Stripped(spec, Slice(raw, Len(before), n)), next |-> Len(before) + n]
    <3> HIDE DEF raw
    <3>1. Len(before) + 0 \div 2 = Len(before) /\ 0 \div 2 = 0
      OBVIOUS
    <3>. QED
      BY <1>2, <2>1, <3>1 DEF ReadField
  <2>. QED
    BY <2>2, <2>3, <2>4, <2>5, <2>6 DEF field
<1>. QED
  BY <1>1, <1>3, <1>4

\* An LLVAR or LLLVAR field of any coding: a length, then the value.
LEMMA VariableReturns ==
    ASSUME NEW de \in DataElements, NEW v, Fits(de, v), SpecOf[de].lengthType # "FIXED",
           NEW before \in Seq(Byte), NEW after \in Seq(Byte)
    PROVE  LET field == BuildField(de, v)
           IN /\ field \in Seq(Byte)
              /\ ReadField(before \o field \o after, Len(before), de) =
                    [value |-> NormalValue(de, v), next |-> Len(before) + Len(field)]
<1> DEFINE spec == SpecOf[de]
           k == LengthDigits(spec)
           n == Len(v)
           prefix == LengthPrefix(n, k)
           header == BcdEncode(prefix)
           content == IF spec.coding = "bcd" THEN BcdEncode(v) ELSE v
           size == IF spec.coding = "bcd" THEN BcdByteLen(n) ELSE n
           field == BuildField(de, v)
           raw == before \o field \o after
<1>1. spec.coding \in {"bcd", "text", "binary"} /\ spec.lengthType \in {"LLVAR", "LLLVAR"}
  BY SpecsAreTyped
<1>2. k \in {2, 4} /\ n \in Nat /\ n < 10000 /\ (k = 2 => n < 100)
  BY <1>1, SpecsAreTyped DEF LengthDigits, Fits
<1>3. prefix \in Seq(Digit) /\ Len(prefix) = k /\ Number(prefix) = n
  <2> HIDE DEF k, n
  <2>1. k = 2 => n < 100
    BY <1>2
  <2>2. LengthPrefix(n, k) \in Seq(Digit)
    BY <1>2, <2>1, PrefixReturns
  <2>3. Len(LengthPrefix(n, k)) = k
    <3>1. CASE k = 2
      BY <1>2, <2>1, <3>1, PrefixReturns
    <3>2. CASE k = 4
      BY <1>2, <3>2, PrefixReturns
    <3>. QED
      BY <1>2, <3>1, <3>2
  <2>4. Number(LengthPrefix(n, k)) = n
    BY <1>2, <2>1, PrefixReturns
  <2>. QED
    BY <2>2, <2>3, <2>4
<1>4. content \in Seq(Byte) /\ Len(content) = size
  BY <1>1, BcdBytes DEF Fits
<1>5. (IF spec.coding = "bcd" THEN BcdDecode(content, n) ELSE content) = v
  BY BcdReturns DEF Fits
<1>6. field = header \o content
  BY <1>1 DEF BuildField
<1>7. NormalValue(de, v) = v
  BY <1>1 DEF NormalValue
<1> HIDE DEF k, n, prefix, content, size, field
<1>8. header \in Seq(Byte) /\ Len(header) = k \div 2 /\ BcdDecode(header, k) = prefix
  <2>1. BcdByteLen(k) = k \div 2
    BY <1>2 DEF BcdByteLen
  <2>. QED
    BY <1>3, <2>1, BcdBytes, BcdReturns
<1> HIDE DEF header
<1>9. field \in Seq(Byte) /\ Len(field) = k \div 2 + size /\ size \in Nat /\ k \div 2 \in Nat
  BY <1>2, <1>4, <1>6, <1>8
<1>10. /\ Slice(raw, Len(before), k \div 2) = header
       /\ Slice(raw, Len(before) + k \div 2, size) = content
  <2>1. header \in Seq(Byte) /\ content \in Seq(Byte)
    BY <1>4, <1>8
  <2>2. Slice(before \o (header \o content) \o after, Len(before), Len(header)) = header
    BY <2>1, SliceParts
  <2>3. Slice(before \o (header \o content) \o after, Len(before) + Len(header), Len(content))
           = content
    BY <2>1, SliceParts
  <2>. QED
    BY <1>4, <1>6, <1>8, <2>2, <2>3
<1>11. ReadField(raw, Len(before), de) = [value |-> v, next |-> Len(before) + k \div 2 + size]
  <2> HIDE DEF raw
  <2>1. 2 * (k \div 2) = k /\ k \div 2 # 0
    BY <1>2
  <2>2. Number(BcdDecode(Slice(raw, Len(before), k \div 2), 2 * (k \div 2))) = n
    BY <1>3, <1>8, <1>10, <2>1
  <2>3. spec.lengthType # "FIXED" /\ k = LengthDigits(SpecOf[de])
    BY <1>1 DEF k
  <2>4. ReadField(raw, Len(before), de) =
          [value |-> IF spec.coding = "bcd" THEN BcdDecode(content, n) ELSE content,
           next  |-> Len(before) + k \div 2 + size]
    BY <1>10, <2>1, <2>2, <2>3 DEF ReadField, Stripped, size
  <2>. QED
    BY <1>5, <2>4
<1>12. Len(before) + k \div 2 + size = Len(before) + Len(field)
  BY <1>9
<1>. QED
  BY <1>7, <1>9, <1>11, <1>12 DEF field

\* At any place of a message, parse_message() reads from a field what
\* build_message() was given, and goes on exactly where the next one begins,
\* for every value the field has room for.
THEOREM FieldReturns ==
    ASSUME NEW de \in DataElements, NEW v, Fits(de, v),
           NEW before \in Seq(Byte), NEW after \in Seq(Byte)
    PROVE  /\ BuildField(de, v) \in Seq(Byte)
           /\ ReadField(before \o BuildField(de, v) \o after, Len(before), de) =
                 [value |-> NormalValue(de, v), next |-> Len(before) + Len(BuildField(de, v))]
  BY FixedReturns, VariableReturns

-----------------------------------------------------------------------------
(* The bitmap *)

LEMMA Powers ==
    /\ 2 ^ 7 = 128 /\ 2 ^ 6 = 64 /\ 2 ^ 5 = 32 /\ 2 ^ 4 = 16
    /\ 2 ^ 3 = 8 /\ 2 ^ 2 = 4 /\ 2 ^ 1 = 2 /\ 2 ^ 0 = 1
  OBVIOUS

\* The bits of a byte, the highest first.
LEMMA BitValues ==
    ASSUME NEW k \in Nat, k > 0
    PROVE  /\ BitValue(8 * k - 7) = 128 /\ BitValue(8 * k - 6) = 64
           /\ BitValue(8 * k - 5) = 32 /\ BitValue(8 * k - 4) = 16
           /\ BitValue(8 * k - 3) = 8 /\ BitValue(8 * k - 2) = 4
           /\ BitValue(8 * k - 1) = 2 /\ BitValue(8 * k) = 1
<1>1. /\ (8 * k - 7 - 1) % 8 = 0 /\ (8 * k - 6 - 1) % 8 = 1
      /\ (8 * k - 5 - 1) % 8 = 2 /\ (8 * k - 4 - 1) % 8 = 3
      /\ (8 * k - 3 - 1) % 8 = 4 /\ (8 * k - 2 - 1) % 8 = 5
      /\ (8 * k - 1 - 1) % 8 = 6 /\ (8 * k - 1) % 8 = 7
  OBVIOUS
<1>2. /\ 7 - 0 = 7 /\ 7 - 1 = 6 /\ 7 - 2 = 5 /\ 7 - 3 = 4
      /\ 7 - 4 = 3 /\ 7 - 5 = 2 /\ 7 - 6 = 1 /\ 7 - 7 = 0
  OBVIOUS
<1>3. /\ BitValue(8 * k - 7) = 2 ^ (7 - 0) /\ BitValue(8 * k - 6) = 2 ^ (7 - 1)
      /\ BitValue(8 * k - 5) = 2 ^ (7 - 2) /\ BitValue(8 * k - 4) = 2 ^ (7 - 3)
      /\ BitValue(8 * k - 3) = 2 ^ (7 - 4) /\ BitValue(8 * k - 2) = 2 ^ (7 - 5)
      /\ BitValue(8 * k - 1) = 2 ^ (7 - 6) /\ BitValue(8 * k) = 2 ^ (7 - 7)
  BY <1>1, Zenon DEF BitValue
<1> QED BY <1>2, <1>3, Powers, Zenon

\* Eight flags come apart again.
LEMMA BitsApart ==
    ASSUME NEW a \in {0, 128}, NEW b \in {0, 64}, NEW c \in {0, 32}, NEW d \in {0, 16},
           NEW e \in {0, 8}, NEW f \in {0, 4}, NEW g \in {0, 2}, NEW h \in {0, 1}
    PROVE  LET s == a + b + c + d + e + f + g + h
           IN /\ s \in Byte
              /\ s \div 128 = 1 <=> a # 0
              /\ (s \div 128) % 2 = 1 <=> a # 0
              /\ (s \div 64) % 2 = 1 <=> b # 0
              /\ (s \div 32) % 2 = 1 <=> c # 0
              /\ (s \div 16) % 2 = 1 <=> d # 0
              /\ (s \div 8) % 2 = 1 <=> e # 0
              /\ (s \div 4) % 2 = 1 <=> f # 0
              /\ (s \div 2) % 2 = 1 <=> g # 0
              /\ (s \div 1) % 2 = 1 <=> h # 0
  BY DEF Byte

\* The byte of build_bitmap() that flags the elements from 8k - 7 to 8k.
FlagByte(k, flagged) ==
    LET Bit(n) == IF n \in flagged THEN BitValue(n) ELSE 0 IN
    Bit(8 * k - 7) + Bit(8 * k - 6) + Bit(8 * k - 5) + Bit(8 * k - 4)
    + Bit(8 * k - 3) + Bit(8 * k - 2) + Bit(8 * k - 1) + Bit(8 * k)

LEMMA FlagsReturn ==
    ASSUME NEW k \in Nat, k > 0, NEW flagged, NEW n \in Nat, n > 0, (n - 1) \div 8 = k - 1
    PROVE  /\ FlagByte(k, flagged) \in Byte
           /\ FlagByte(k, flagged) \div 128 = 1 <=> 8 * k - 7 \in flagged
           /\ (FlagByte(k, flagged) \div BitValue(n)) % 2 = 1 <=> n \in flagged
<1> DEFINE Bit(i) == IF i \in flagged THEN BitValue(i) ELSE 0
           a == Bit(8 * k - 7)
           b == Bit(8 * k - 6)
           c == Bit(8 * k - 5)
           d == Bit(8 * k - 4)
           e == Bit(8 * k - 3)
           f == Bit(8 * k - 2)
           g == Bit(8 * k - 1)
           h == Bit(8 * k)
           s == a + b + c + d + e + f + g + h
<1>1. /\ a \in {0, 128} /\ (a # 0 <=> 8 * k - 7 \in flagged)
      /\ b \in {0, 64} /\ (b # 0 <=> 8 * k - 6 \in flagged)
      /\ c \in {0, 32} /\ (c # 0 <=> 8 * k - 5 \in flagged)
      /\ d \in {0, 16} /\ (d # 0 <=> 8 * k - 4 \in flagged)
      /\ e \in {0, 8} /\ (e # 0 <=> 8 * k - 3 \in flagged)
      /\ f \in {0, 4} /\ (f # 0 <=> 8 * k - 2 \in flagged)
      /\ g \in {0, 2} /\ (g # 0 <=> 8 * k - 1 \in flagged)
      /\ h \in {0, 1} /\ (h # 0 <=> 8 * k \in flagged)
  BY BitValues
<1>2. FlagByte(k, flagged) = s
  BY DEF FlagByte
<1> HIDE DEF a, b, c, d, e, f, g, h
<1>3. /\ s \in Byte
      /\ s \div 128 = 1 <=> a # 0
      /\ (s \div 128) % 2 = 1 <=> a # 0
      /\ (s \div 64) % 2 = 1 <=> b # 0
      /\ (s \div 32) % 2 = 1 <=> c # 0
      /\ (s \div 16) % 2 = 1 <=> d # 0
      /\ (s \div 8) % 2 = 1 <=> e # 0
      /\ (s \div 4) % 2 = 1 <=> f # 0
      /\ (s \div 2) % 2 = 1 <=> g # 0
      /\ (s \div 1) % 2 = 1 <=> h # 0
  BY <1>1, BitsApart
<1> HIDE DEF s
<1>4. n \in {8 * k - 7, 8 * k - 6, 8 * k - 5, 8 * k - 4, 8 * k - 3, 8 * k - 2, 8 * k - 1, 8 * k}
  OBVIOUS
<1>5. (s \div BitValue(n)) % 2 = 1 <=> n \in flagged
  <2>1. CASE n = 8 * k - 7
    BY <1>1, <1>3, <2>1, BitValues
  <2>2. CASE n = 8 * k - 6
    BY <1>1, <1>3, <2>2, BitValues
  <2>3. CASE n = 8 * k - 5
    BY <1>1, <1>3, <2>3, BitValues
  <2>4. CASE n = 8 * k - 4
    BY <1>1, <1>3, <2>4, BitValues
  <2>5. CASE n = 8 * k - 3
    BY <1>1, <1>3, <2>5, BitValues
  <2>6. CASE n = 8 * k - 2
    BY <1>1, <1>3, <2>6, BitValues
  <2>7. CASE n = 8 * k - 1
    BY <1>1, <1>3, <2>7, BitValues
  <2>8. CASE n = 8 * k
    BY <1>1, <1>3, <2>8, BitValues
  <2> QED BY <1>4, <2>1, <2>2, <2>3, <2>4, <2>5, <2>6, <2>7, <2>8
<1> QED BY <1>1, <1>2, <1>3, <1>5

\* Which byte flags an element.
LEMMA FlagPlace ==
    ASSUME NEW size \in {8, 16}
    PROVE  /\ \A k \in 1..size : /\ k \in Nat /\ k > 0 /\ 8 * k \in Nat /\ 8 * k > 0
                                 /\ (8 * k - 1) \div 8 = k - 1
           /\ \A n \in 2..(8 * size) : \E k \in 1..size : /\ (n - 1) \div 8 = k - 1
                                                          /\ 2 + 1 + (n - 1) \div 8 = 2 + k
           /\ \A n \in 2..(8 * size) : n \in Nat /\ n > 0 /\ n \in 2..128
           /\ size \in Nat
           /\ (1 - 1) \div 8 = 1 - 1 /\ 8 * 1 - 7 = 1 /\ 1 \in 1..size /\ 2 + 1 = 3
<1>1. ASSUME NEW k \in 1..size
      PROVE  /\ k \in Nat /\ k > 0 /\ 8 * k \in Nat /\ 8 * k > 0
             /\ (8 * k - 1) \div 8 = k - 1
  OBVIOUS
<1>2. ASSUME NEW n \in 2..(8 * size)
      PROVE  \E k \in 1..size : /\ (n - 1) \div 8 = k - 1
                                /\ 2 + 1 + (n - 1) \div 8 = 2 + k
  <2>1. (n - 1) \div 8 + 1 \in 1..size
    OBVIOUS
  <2>2. /\ (n - 1) \div 8 = ((n - 1) \div 8 + 1) - 1
        /\ 2 + 1 + (n - 1) \div 8 = 2 + ((n - 1) \div 8 + 1)
    OBVIOUS
  <2> QED BY <2>1, <2>2, Zenon
<1>3. ASSUME NEW n \in 2..(8 * size) PROVE n \in Nat /\ n > 0 /\ n \in 2..128
  OBVIOUS
<1> QED BY <1>1, <1>2, <1>3

LEMMA MiddleByte ==
    ASSUME NEW before \in Seq(Byte), NEW field \in Seq(Byte), NEW after \in Seq(Byte),
           NEW k \in 1..Len(field)
    PROVE  (before \o field \o after)[Len(before) + k] = field[k]
<1>1. (before \o field \o after)[Len(before) + k] = (before \o field)[Len(before) + k]
  OBVIOUS
<1>2. (before \o field)[Len(before) + k] = field[k]
  OBVIOUS
<1> QED BY <1>1, <1>2

\* A bitmap of so many bytes flags these elements, and those of its own second half.
Flags(bitmap, des, size, flagged) ==
    /\ des \in SUBSET (2..128)
    /\ size \in {8, 16}
    /\ 1 \in flagged <=> size = 16
    /\ \A n \in 2..128 : n \in flagged <=> n \in des
    /\ \A n \in des : n <= 8 * size
    /\ bitmap = [k \in 1..size |-> FlagByte(k, flagged)]

\* It is read as it was built, wherever it stands after two other bytes.
LEMMA FlagsAreRead ==
    ASSUME NEW des, NEW flagged, NEW size, NEW bitmap, Flags(bitmap, des, size, flagged),
           NEW before \in Seq(Byte), NEW after \in Seq(Byte), Len(before) = 2
    PROVE  /\ bitmap \in Seq(Byte) /\ Len(bitmap) = size
           /\ BitmapLen(before \o bitmap \o after, 2) = size
           /\ ReadBitmap(before \o bitmap \o after, 2) = des
<1> DEFINE raw == before \o bitmap \o after
<1>1. size \in {8, 16}
  BY Zenon DEF Flags
<1>2. bitmap = [k \in 1..size |-> FlagByte(k, flagged)]
  BY Zenon DEF Flags
<1>3. \A k \in 1..size : FlagByte(k, flagged) \in Byte
  <2> SUFFICES ASSUME NEW k \in 1..size PROVE FlagByte(k, flagged) \in Byte
    OBVIOUS
  <2>1. k \in Nat /\ k > 0 /\ 8 * k \in Nat /\ 8 * k > 0 /\ (8 * k - 1) \div 8 = k - 1
    BY <1>1, FlagPlace, Zenon
  <2> HIDE DEF raw
  <2> QED BY <2>1, FlagsReturn, Zenon
<1>4. bitmap \in Seq(Byte) /\ Len(bitmap) = size
  <2>1. bitmap \in [1..size -> Byte] /\ size \in Nat
    BY <1>1, <1>2, <1>3, FlagPlace, Zenon
  <2> QED BY <2>1
<1>5. \A k \in 1..size : raw[2 + k] = FlagByte(k, flagged)
  <2> SUFFICES ASSUME NEW k \in 1..size PROVE raw[2 + k] = FlagByte(k, flagged)
    OBVIOUS
  <2>1. k \in 1..Len(bitmap)
    BY <1>4, Zenon
  <2>2. (before \o bitmap \o after)[Len(before) + k] = bitmap[k]
    <3>1. \A j \in 1..Len(bitmap) : (before \o bitmap \o after)[Len(before) + j] = bitmap[j]
      BY <1>4, MiddleByte
    <3> QED BY <2>1, <3>1, Zenon
  <2> HIDE DEF raw
  <2> QED BY <1>2, <2>2 DEF raw
<1> HIDE DEF raw
<1>6. BitmapLen(raw, 2) = size
  <2>1. raw[2 + 1] = FlagByte(1, flagged)
    BY <1>1, <1>5, FlagPlace, Zenon
  <2>2. FlagByte(1, flagged) \div 128 = 1 <=> 1 \in flagged
    <3>1. (1 - 1) \div 8 = 1 - 1 /\ 8 * 1 - 7 = 1 /\ 1 \in Nat /\ 1 > 0
      OBVIOUS
    <3>2. FlagByte(1, flagged) \div 128 = 1 <=> 8 * 1 - 7 \in flagged
      BY <3>1, FlagsReturn, Zenon
    <3> QED BY <3>1, <3>2, Zenon
  <2>3. raw[2 + 1] \div 128 = 1 <=> size = 16
    BY <2>1, <2>2, Zenon DEF Flags
  <2>4. CASE raw[2 + 1] \div 128 = 1
    BY <2>3, <2>4, Zenon DEF BitmapLen
  <2>5. CASE raw[2 + 1] \div 128 # 1
    <3>1. size = 8
      BY <1>1, <2>3, <2>5, Zenon
    <3> QED BY <2>5, <3>1, Zenon DEF BitmapLen
  <2> QED BY <2>4, <2>5, Zenon
<1>7. ASSUME NEW n \in 2..(8 * size)
      PROVE  (raw[2 + 1 + (n - 1) \div 8] \div BitValue(n)) % 2 = 1 <=> n \in des
  <2>1. PICK k \in 1..size : (n - 1) \div 8 = k - 1 /\ 2 + 1 + (n - 1) \div 8 = 2 + k
    BY <1>1, FlagPlace, Zenon
  <2>2. raw[2 + 1 + (n - 1) \div 8] = FlagByte(k, flagged)
    BY <1>5, <2>1, Zenon
  <2>3. k \in Nat /\ k > 0
    BY <1>1, FlagPlace, Zenon
  <2>4. n \in Nat /\ n > 0 /\ n \in 2..128
    BY <1>1, FlagPlace, Zenon
  <2>5. (FlagByte(k, flagged) \div BitValue(n)) % 2 = 1 <=> n \in flagged
    BY <2>1, <2>3, <2>4, FlagsReturn, Zenon
  <2> QED BY <2>2, <2>4, <2>5, Zenon DEF Flags
<1>8. ReadBitmap(raw, 2) = {n \in 2..(8 * size) : n \in des}
  <2>1. ReadBitmap(raw, 2) =
           {n \in 2..(8 * size) : (raw[2 + 1 + (n - 1) \div 8] \div BitValue(n)) % 2 = 1}
    BY <1>6, Zenon DEF ReadBitmap
  <2> QED BY <1>7, <2>1, Zenon
<1>9. {n \in 2..(8 * size) : n \in des} = des
  <2>1. \A n \in des : n \in 2..(8 * size)
    BY DEF Flags
  <2> QED BY <2>1, Zenon
<1> QED BY <1>4, <1>6, <1>8, <1>9 DEF raw

\* build_bitmap() makes such a bitmap.
LEMMA FlagsAreBuilt ==
    ASSUME NEW des \in SUBSET (2..128)
    PROVE  \E size, flagged : Flags(BuildBitmap(des), des, size, flagged)
<1> DEFINE Size(high) == IF high THEN 16 ELSE 8
           Flagged(high) == des \cup (IF high THEN {1} ELSE {})
<1>1. BuildBitmap(des) = [k \in 1..Size(\E n \in des : n > 64) |->
                             FlagByte(k, Flagged(\E n \in des : n > 64))]
  BY Zenon DEF BuildBitmap, FlagByte
<1>2. CASE \E n \in des : n > 64
  <2>1. BuildBitmap(des) = [k \in 1..16 |-> FlagByte(k, des \cup {1})]
    BY <1>1, <1>2
  <2>2. 16 \in {8, 16} /\ (1 \in des \cup {1} <=> 16 = 16)
    OBVIOUS
  <2>3. \A n \in 2..128 : n \in des \cup {1} <=> n \in des
    OBVIOUS
  <2>4. \A n \in des : n <= 8 * 16
    OBVIOUS
  <2>5. Flags(BuildBitmap(des), des, 16, des \cup {1})
    BY <2>1, <2>2, <2>3, <2>4, Zenon DEF Flags
  <2> QED BY <2>5, Zenon
<1>3. CASE ~\E n \in des : n > 64
  <2>1. BuildBitmap(des) = [k \in 1..8 |-> FlagByte(k, des \cup {})]
    BY <1>1, <1>3
  <2>2. 8 \in {8, 16} /\ (1 \in des \cup {} <=> 8 = 16)
    OBVIOUS
  <2>3. \A n \in 2..128 : n \in des \cup {} <=> n \in des
    OBVIOUS
  <2>4. \A n \in des : n <= 8 * 8
    BY <1>3
  <2>5. Flags(BuildBitmap(des), des, 8, des \cup {})
    BY <2>1, <2>2, <2>3, <2>4, Zenon DEF Flags
  <2> QED BY <2>5, Zenon
<1> QED BY <1>2, <1>3

\* read_bitmap() finds the data elements build_bitmap() was given.
LEMMA BitmapReturns ==
    ASSUME NEW des \in SUBSET (2..128),
           NEW before \in Seq(Byte), NEW after \in Seq(Byte), Len(before) = 2
    PROVE  /\ BuildBitmap(des) \in Seq(Byte) /\ Len(BuildBitmap(des)) \in {8, 16}
           /\ BitmapLen(before \o BuildBitmap(des) \o after, 2) = Len(BuildBitmap(des))
           /\ ReadBitmap(before \o BuildBitmap(des) \o after, 2) = des
<1>1. PICK size, flagged : Flags(BuildBitmap(des), des, size, flagged)
  BY FlagsAreBuilt
<1>2. size \in {8, 16}
  BY <1>1, Zenon DEF Flags
<1>3. /\ BuildBitmap(des) \in Seq(Byte) /\ Len(BuildBitmap(des)) = size
      /\ BitmapLen(before \o BuildBitmap(des) \o after, 2) = size
      /\ ReadBitmap(before \o BuildBitmap(des) \o after, 2) = des
  BY <1>1, FlagsAreRead
<1> QED BY <1>2, <1>3, Zenon

-----------------------------------------------------------------------------
(* A message, element by element.  A recursive function is a CHOOSE: that  *)
(* there is one with these values needs an induction on how far it goes.   *)

\* Each element present adds its field to what stands before it.
LEMMA BuiltStepByStep ==
    ASSUME NEW m
    PROVE  \A de \in 1..128 : BuiltUpTo(m)[de] =
              IF de = 1 THEN BcdEncode(m.mti) \o BuildBitmap(DOMAIN m.fields)
              ELSE IF de \in DOMAIN m.fields
                   THEN BuiltUpTo(m)[de - 1] \o BuildField(de, m.fields[de])
                   ELSE BuiltUpTo(m)[de - 1]
<1> DEFINE base == BcdEncode(m.mti) \o BuildBitmap(DOMAIN m.fields)
           Step(de, last) == IF de \in DOMAIN m.fields THEN last \o BuildField(de, m.fields[de]) ELSE last
           Good(g, n) == g = [i \in 1..n |-> IF i = 1 THEN base ELSE Step(i, g[i - 1])]
           T == {n \in 1..128 : ~\E g : Good(g, n)}
<1>1. SUFFICES \E g : Good(g, 128)
  <2> DEFINE f == BuiltUpTo(m)
  <2>1. ASSUME \E g : Good(g, 128) PROVE Good(f, 128)
    BY <2>1, Zenon DEF BuiltUpTo
  <2>2. ASSUME Good(f, 128), NEW de \in 1..128
        PROVE  f[de] = IF de = 1 THEN base ELSE Step(de, f[de - 1])
    <3> HIDE DEF f, base, Step
    <3> QED BY <2>2
  <2> QED BY <2>1, <2>2
<1>2. SUFFICES ASSUME T # {} PROVE FALSE
  <2>1. 128 \in 1..128
    OBVIOUS
  <2> HIDE DEF Good
  <2> QED BY <2>1
<1>3. PICK n \in T : \A y \in T : n <= y
  <2>1. T \in SUBSET Nat
    <3> HIDE DEF Good
    <3> QED OBVIOUS
  <2> HIDE DEF T
  <2> QED BY <1>2, <2>1, LeastExists
<1> HIDE DEF base, Step
<1>4. n # 1
  <2> DEFINE g0 == [i \in 1..1 |-> base]
  <2>1. \A i \in 1..1 : i = 1
    OBVIOUS
  <2>2. Good(g0, 1)
    BY <2>1, Zenon
  <2> HIDE DEF Good
  <2> QED BY <2>2
<1>5. PICK g : Good(g, n - 1)
  <2>1. n - 1 \in 1..128 /\ n - 1 \notin T
    <3> HIDE DEF Good
    <3> QED BY <1>3, <1>4
  <2> HIDE DEF Good
  <2> QED BY <2>1
<1> DEFINE h == [i \in 1..n |-> IF i = n THEN Step(n, g[n - 1]) ELSE g[i]]
<1>6. ASSUME NEW i \in 1..n
      PROVE  h[i] = IF i = 1 THEN base ELSE Step(i, h[i - 1])
  <2>1. CASE i = n
    <3>1. h[n] = Step(n, g[n - 1]) /\ h[n - 1] = g[n - 1]
      <4>1. n \in 1..n /\ n - 1 \in 1..n /\ n - 1 # n
        <5> HIDE DEF Good, h
        <5> QED BY <1>3, <1>4
      <4> QED BY <4>1, Zenon
    <3> HIDE DEF h
    <3> QED BY <1>4, <2>1, <3>1
  <2>2. CASE i # n
    <3>1. i \in 1..(n - 1)
      BY <2>2
    <3>2. g[i] = IF i = 1 THEN base ELSE Step(i, g[i - 1])
      BY <1>5, <3>1
    <3>3. h[i] = g[i] /\ (i # 1 => h[i - 1] = g[i - 1])
      BY <2>2, <3>1
    <3> HIDE DEF h
    <3> QED BY <3>2, <3>3
  <2> QED BY <2>1, <2>2
<1>7. Good(h, n)
  <2> DEFINE F(i) == IF i = 1 THEN base ELSE Step(i, h[i - 1])
  <2>1. h = [i \in 1..n |-> h[i]]
    OBVIOUS
  <2> HIDE DEF h
  <2>2. [i \in 1..n |-> h[i]] = [i \in 1..n |-> F(i)]
    BY <1>6
  <2> QED BY <2>1, <2>2
<1> HIDE DEF Good, h
<1> QED BY <1>3, <1>7

\* Each element present moves the reader past its field.
LEMMA ReadStepByStep ==
    ASSUME NEW raw, NEW present
    PROVE  \A de \in 2..128 : FieldStarts(raw, present)[de] =
              IF de = 2 THEN 2 + BitmapLen(raw, 2)
              ELSE IF de - 1 \in present
                   THEN ReadField(raw, FieldStarts(raw, present)[de - 1], de - 1).next
                   ELSE FieldStarts(raw, present)[de - 1]
<1> DEFINE base == 2 + BitmapLen(raw, 2)
           Step(de, last) == IF de - 1 \in present THEN ReadField(raw, last, de - 1).next ELSE last
           Good(g, n) == g = [i \in 2..n |-> IF i = 2 THEN base ELSE Step(i, g[i - 1])]
           T == {n \in 2..128 : ~\E g : Good(g, n)}
<1>1. SUFFICES \E g : Good(g, 128)
  <2> DEFINE f == FieldStarts(raw, present)
  <2>1. ASSUME \E g : Good(g, 128) PROVE Good(f, 128)
    BY <2>1, Zenon DEF FieldStarts
  <2>2. ASSUME Good(f, 128), NEW de \in 2..128
        PROVE  f[de] = IF de = 2 THEN base ELSE Step(de, f[de - 1])
    <3> HIDE DEF f, base, Step
    <3> QED BY <2>2
  <2> QED BY <2>1, <2>2
<1>2. SUFFICES ASSUME T # {} PROVE FALSE
  <2>1. 128 \in 2..128
    OBVIOUS
  <2> HIDE DEF Good
  <2> QED BY <2>1
<1>3. PICK n \in T : \A y \in T : n <= y
  <2>1. T \in SUBSET Nat
    <3> HIDE DEF Good
    <3> QED OBVIOUS
  <2> HIDE DEF T
  <2> QED BY <1>2, <2>1, LeastExists
<1> HIDE DEF base, Step
<1>4. n # 2
  <2> DEFINE g0 == [i \in 2..2 |-> base]
  <2>1. \A i \in 2..2 : i = 2
    OBVIOUS
  <2>2. Good(g0, 2)
    BY <2>1, Zenon
  <2> HIDE DEF Good
  <2> QED BY <2>2
<1>5. PICK g : Good(g, n - 1)
  <2>1. n - 1 \in 2..128 /\ n - 1 \notin T
    <3> HIDE DEF Good
    <3> QED BY <1>3, <1>4
  <2> HIDE DEF Good
  <2> QED BY <2>1
<1> DEFINE h == [i \in 2..n |-> IF i = n THEN Step(n, g[n - 1]) ELSE g[i]]
<1>6. ASSUME NEW i \in 2..n
      PROVE  h[i] = IF i = 2 THEN base ELSE Step(i, h[i - 1])
  <2>1. CASE i = n
    <3>1. h[n] = Step(n, g[n - 1]) /\ h[n - 1] = g[n - 1]
      <4>1. n \in 2..n /\ n - 1 \in 2..n /\ n - 1 # n
        <5> HIDE DEF Good, h
        <5> QED BY <1>3, <1>4
      <4> QED BY <4>1, Zenon
    <3> HIDE DEF h
    <3> QED BY <1>4, <2>1, <3>1
  <2>2. CASE i # n
    <3>1. i \in 2..(n - 1)
      BY <2>2
    <3>2. g[i] = IF i = 2 THEN base ELSE Step(i, g[i - 1])
      BY <1>5, <3>1
    <3>3. h[i] = g[i] /\ (i # 2 => h[i - 1] = g[i - 1])
      BY <2>2, <3>1
    <3> HIDE DEF h
    <3> QED BY <3>2, <3>3
  <2> QED BY <2>1, <2>2
<1>7. Good(h, n)
  <2> DEFINE F(i) == IF i = 2 THEN base ELSE Step(i, h[i - 1])
  <2>1. h = [i \in 2..n |-> h[i]]
    OBVIOUS
  <2> HIDE DEF h
  <2>2. [i \in 2..n |-> h[i]] = [i \in 2..n |-> F(i)]
    BY <1>6
  <2> QED BY <2>1, <2>2
<1> HIDE DEF Good, h
<1> QED BY <1>3, <1>7

\* Concatenation, for the steps below.
LEMMA BytesConcat ==
    /\ <<>> \in Seq(Byte)
    /\ \A a \in Seq(Byte) : a \o <<>> = a
    /\ \A a, b \in Seq(Byte) : a \o b \in Seq(Byte) /\ Len(a \o b) = Len(a) + Len(b)
    /\ \A a, b, c \in Seq(Byte) : (a \o b) \o c = a \o (b \o c)
<1>1. <<>> \in Seq(Byte) /\ \A a \in Seq(Byte) : a \o <<>> = a
  OBVIOUS
<1>2. \A a, b \in Seq(Byte) : a \o b \in Seq(Byte) /\ Len(a \o b) = Len(a) + Len(b)
  OBVIOUS
<1>3. \A a, b, c \in Seq(Byte) : (a \o b) \o c = a \o (b \o c)
  BY ConcatAssociative
<1> QED BY <1>1, <1>2, <1>3, Zenon

LEMMA DigitsAreSeq ==
    ASSUME NEW n \in Nat, NEW d \in [1..n -> Digit]
    PROVE  d \in Seq(Digit) /\ Len(d) = n
  OBVIOUS

LEMMA WellFormedParts ==
    ASSUME NEW m, WellFormed(m)
    PROVE  /\ m.mti \in Seq(Digit) /\ Len(m.mti) = 4
           /\ DOMAIN m.fields \in SUBSET (2..128) /\ DOMAIN m.fields \subseteq DataElements
           /\ \A de \in DOMAIN m.fields : Fits(de, m.fields[de])
<1>1. m.mti \in [1..4 -> Digit]
  BY DEF WellFormed
<1>2. m.mti \in Seq(Digit) /\ Len(m.mti) = 4
  <2>1. 4 \in Nat
    OBVIOUS
  <2> QED BY <1>1, <2>1, DigitsAreSeq, Zenon
<1>3. DOMAIN m.fields \subseteq DataElements
  BY DEF WellFormed
<1>4. \A de \in DOMAIN m.fields : Fits(de, m.fields[de])
  BY DEF WellFormed
<1>5. DOMAIN m.fields \in SUBSET (2..128)
  BY <1>3, Catalogue
<1> QED BY <1>2, <1>3, <1>4, <1>5

\* One element: what it adds.
LEMMA BuiltStep ==
    ASSUME NEW m, WellFormed(m), NEW de \in 2..128
    PROVE  /\ de \in DOMAIN m.fields =>
                 BuiltUpTo(m)[de] = BuiltUpTo(m)[de - 1] \o BuildField(de, m.fields[de])
           /\ de \notin DOMAIN m.fields => BuiltUpTo(m)[de] = BuiltUpTo(m)[de - 1]
<1>1. BuiltUpTo(m)[de] = IF de = 1 THEN BcdEncode(m.mti) \o BuildBitmap(DOMAIN m.fields)
                         ELSE IF de \in DOMAIN m.fields
                              THEN BuiltUpTo(m)[de - 1] \o BuildField(de, m.fields[de])
                              ELSE BuiltUpTo(m)[de - 1]
  <2>1. de \in 1..128
    OBVIOUS
  <2> QED BY <2>1, BuiltStepByStep, Zenon
<1>2. de # 1
  OBVIOUS
<1> QED BY <1>1, <1>2, Zenon

\* The message begins with its type and its bitmap.
LEMMA BuiltFirst ==
    ASSUME NEW m, WellFormed(m)
    PROVE  /\ BuiltUpTo(m)[1] = BcdEncode(m.mti) \o BuildBitmap(DOMAIN m.fields)
           /\ BcdEncode(m.mti) \in Seq(Byte) /\ Len(BcdEncode(m.mti)) = 2
           /\ BuildBitmap(DOMAIN m.fields) \in Seq(Byte)
           /\ BuiltUpTo(m)[1] \in Seq(Byte)
           /\ Len(BuiltUpTo(m)[1]) = 2 + Len(BuildBitmap(DOMAIN m.fields))
<1>1. BuiltUpTo(m)[1] = BcdEncode(m.mti) \o BuildBitmap(DOMAIN m.fields)
  <2>1. 1 \in 1..128
    OBVIOUS
  <2>2. BuiltUpTo(m)[1] = IF 1 = 1 THEN BcdEncode(m.mti) \o BuildBitmap(DOMAIN m.fields)
                          ELSE IF 1 \in DOMAIN m.fields
                               THEN BuiltUpTo(m)[1 - 1] \o BuildField(1, m.fields[1])
                               ELSE BuiltUpTo(m)[1 - 1]
    BY <2>1, BuiltStepByStep, Zenon
  <2> QED BY <2>2, Zenon
<1>2. BcdEncode(m.mti) \in Seq(Byte) /\ Len(BcdEncode(m.mti)) = 2
  <2>1. BcdByteLen(4) = 2
    BY DEF BcdByteLen
  <2> QED BY <2>1, WellFormedParts, BcdBytes
<1>3. BuildBitmap(DOMAIN m.fields) \in Seq(Byte)
  BY <1>2, WellFormedParts, BitmapReturns
<1> QED BY <1>1, <1>2, <1>3, BytesConcat, Zenon

LEMMA BuiltIsBytes ==
    ASSUME NEW m, WellFormed(m)
    PROVE  \A n \in 1..128 : BuiltUpTo(m)[n] \in Seq(Byte)
<1> DEFINE S == {n \in 1..128 : BuiltUpTo(m)[n] \in Seq(Byte)}
<1>1. 1 \in S
  BY BuiltFirst
<1>2. ASSUME NEW n \in 1..(128 - 1), n \in S PROVE n + 1 \in S
  <2>1. n + 1 \in 2..128 /\ (n + 1) - 1 = n /\ n + 1 \in 1..128
    OBVIOUS
  <2>2. CASE n + 1 \in DOMAIN m.fields
    <3>1. BuildField(n + 1, m.fields[n + 1]) \in Seq(Byte)
      <4>1. <<>> \in Seq(Byte)
        OBVIOUS
      <4> QED BY <2>2, <4>1, WellFormedParts, FieldReturns, Zenon
    <3>2. BuiltUpTo(m)[n + 1] = BuiltUpTo(m)[n] \o BuildField(n + 1, m.fields[n + 1])
      BY <2>1, <2>2, BuiltStep, Zenon
    <3>3. BuiltUpTo(m)[n] \in Seq(Byte)
      BY <1>2
    <3>4. BuiltUpTo(m)[n + 1] \in Seq(Byte)
      <4>1. BuiltUpTo(m)[n] \o BuildField(n + 1, m.fields[n + 1]) \in Seq(Byte)
        BY <3>1, <3>3, BytesConcat, Zenon
      <4> QED BY <3>2, <4>1, Zenon
    <3> QED BY <2>1, <3>4, Zenon
  <2>3. CASE n + 1 \notin DOMAIN m.fields
    BY <1>2, <2>1, <2>3, BuiltStep, Zenon
  <2> QED BY <2>2, <2>3
<1> HIDE DEF S
<1>3. \A n \in 1..128 : n \in S
  <2>1. 1 \in Nat /\ 128 \in Nat
    OBVIOUS
  <2> QED BY <1>1, <1>2, <2>1, SetInduction, Zenon
<1> QED BY <1>3 DEF S

LEMMA FieldIsBytes ==
    ASSUME NEW m, WellFormed(m), NEW de \in DOMAIN m.fields
    PROVE  BuildField(de, m.fields[de]) \in Seq(Byte)
<1>1. <<>> \in Seq(Byte)
  OBVIOUS
<1> QED BY <1>1, WellFormedParts, FieldReturns, Zenon

\* What stands before an element is never written again.
LEMMA BuiltGoesOn ==
    ASSUME NEW m, WellFormed(m), NEW j \in 1..128
    PROVE  \E after \in Seq(Byte) : BuildMessage(m) = BuiltUpTo(m)[j] \o after
<1> DEFINE S == {n \in j..128 : \E after \in Seq(Byte) :
                                   BuiltUpTo(m)[n] = BuiltUpTo(m)[j] \o after}
<1>1. j \in S
  <2>1. BuiltUpTo(m)[j] \in Seq(Byte) /\ <<>> \in Seq(Byte)
    BY BuiltIsBytes, BytesConcat, Zenon
  <2>2. BuiltUpTo(m)[j] = BuiltUpTo(m)[j] \o <<>>
    BY <2>1, BytesConcat, Zenon
  <2>3. j \in j..128
    OBVIOUS
  <2> QED BY <2>1, <2>2, <2>3, Zenon
<1>2. ASSUME NEW n \in j..(128 - 1), n \in S PROVE n + 1 \in S
  <2>1. n + 1 \in 2..128 /\ (n + 1) - 1 = n /\ n + 1 \in j..128
    OBVIOUS
  <2>2. PICK after \in Seq(Byte) : BuiltUpTo(m)[n] = BuiltUpTo(m)[j] \o after
    BY <1>2
  <2>3. CASE n + 1 \in DOMAIN m.fields
    <3> DEFINE field == BuildField(n + 1, m.fields[n + 1])
    <3>1. field \in Seq(Byte)
      BY <2>3, FieldIsBytes
    <3>2. BuiltUpTo(m)[n + 1] = BuiltUpTo(m)[n] \o field
      BY <2>1, <2>3, BuiltStep, Zenon
    <3>3. BuiltUpTo(m)[j] \in Seq(Byte)
      BY BuiltIsBytes
    <3> HIDE DEF field
    <3>4. BuiltUpTo(m)[n + 1] = BuiltUpTo(m)[j] \o (after \o field)
      <4>1. BuiltUpTo(m)[n + 1] = (BuiltUpTo(m)[j] \o after) \o field
        BY <2>2, <3>2, Zenon
      <4>2. (BuiltUpTo(m)[j] \o after) \o field = BuiltUpTo(m)[j] \o (after \o field)
        BY <3>1, <3>3, BytesConcat, Zenon
      <4> QED BY <4>1, <4>2, Zenon
    <3>5. after \o field \in Seq(Byte)
      BY <3>1, BytesConcat, Zenon
    <3> QED BY <2>1, <3>4, <3>5, Zenon
  <2>4. CASE n + 1 \notin DOMAIN m.fields
    <3>1. BuiltUpTo(m)[n + 1] = BuiltUpTo(m)[n]
      BY <2>1, <2>4, BuiltStep, Zenon
    <3> QED BY <2>1, <2>2, <3>1, Zenon
  <2> QED BY <2>3, <2>4
<1>3. 128 \in S
  <2> HIDE DEF S
  <2>1. j \in Nat /\ 128 \in Nat /\ 128 \in j..128
    OBVIOUS
  <2> QED BY <1>1, <1>2, <2>1, SetInduction, Zenon
<1> QED BY <1>3 DEF BuildMessage

\* Where build_message() put a field of those present.
LEMMA FieldStands ==
    ASSUME NEW m, WellFormed(m), NEW de \in DOMAIN m.fields
    PROVE  ReadField(BuildMessage(m), Len(BuiltUpTo(m)[de - 1]), de) =
              [value |-> NormalValue(de, m.fields[de]), next |-> Len(BuiltUpTo(m)[de])]
<1> DEFINE before == BuiltUpTo(m)[de - 1]
           field == BuildField(de, m.fields[de])
<1>1. de \in 2..128 /\ de \in DataElements /\ Fits(de, m.fields[de])
  BY WellFormedParts, Zenon
<1>2. de - 1 \in 1..128 /\ de \in 1..128
  BY <1>1
<1>3. before \in Seq(Byte) /\ field \in Seq(Byte)
  BY <1>2, BuiltIsBytes, FieldIsBytes, Zenon
<1>4. BuiltUpTo(m)[de] = before \o field
  BY <1>1, BuiltStep, Zenon
<1>5. PICK after \in Seq(Byte) : BuildMessage(m) = BuiltUpTo(m)[de] \o after
  BY <1>2, BuiltGoesOn, Zenon
<1> HIDE DEF before
<1>6. Len(BuiltUpTo(m)[de]) = Len(before) + Len(field)
  BY <1>3, <1>4, BytesConcat, Zenon
<1>7. ReadField(before \o field \o after, Len(before), de) =
         [value |-> NormalValue(de, m.fields[de]), next |-> Len(before) + Len(field)]
  BY <1>1, <1>3, FieldReturns, Zenon
<1> HIDE DEF field
<1>8. ReadField(BuildMessage(m), Len(before), de) =
         [value |-> NormalValue(de, m.fields[de]), next |-> Len(BuiltUpTo(m)[de])]
  BY <1>4, <1>5, <1>6, <1>7, Zenon
<1> QED BY <1>8 DEF before

\* The first bytes of a message.
LEMMA HeaderStands ==
    ASSUME NEW m, WellFormed(m)
    PROVE  /\ BcdDecode(Slice(BuildMessage(m), 0, 2), 4) = m.mti
           /\ ReadBitmap(BuildMessage(m), 2) = DOMAIN m.fields
           /\ 2 + BitmapLen(BuildMessage(m), 2) = Len(BuiltUpTo(m)[1])
<1> DEFINE mti == BcdEncode(m.mti)
           bitmap == BuildBitmap(DOMAIN m.fields)
<1>1. /\ mti \in Seq(Byte) /\ Len(mti) = 2 /\ bitmap \in Seq(Byte)
      /\ BuiltUpTo(m)[1] = mti \o bitmap
      /\ Len(BuiltUpTo(m)[1]) = 2 + Len(bitmap)
  BY BuiltFirst, Zenon
<1>2. PICK after \in Seq(Byte) : BuildMessage(m) = BuiltUpTo(m)[1] \o after
  <2>1. 1 \in 1..128
    OBVIOUS
  <2> QED BY <2>1, BuiltGoesOn, Zenon
<1>3. BuildMessage(m) = mti \o bitmap \o after
  BY <1>1, <1>2, Zenon
<1>4. /\ BitmapLen(mti \o bitmap \o after, 2) = Len(bitmap)
      /\ ReadBitmap(mti \o bitmap \o after, 2) = DOMAIN m.fields
  BY <1>1, WellFormedParts, BitmapReturns, Zenon
<1>5. Slice(BuildMessage(m), 0, 2) = mti
  <2> HIDE DEF mti, bitmap
  <2>1. <<>> \o mti \o (bitmap \o after) = mti \o bitmap \o after
    <3>1. <<>> \o mti = mti
      BY <1>1
    <3>2. (mti \o bitmap) \o after = mti \o (bitmap \o after)
      BY <1>1, BytesConcat, Zenon
    <3> QED BY <3>1, <3>2, Zenon
  <2>2. Slice(<<>> \o mti \o (bitmap \o after), Len(<<>>), Len(mti)) = mti
    <3>1. bitmap \o after \in Seq(Byte) /\ <<>> \in Seq(Byte)
      BY <1>1, BytesConcat, Zenon
    <3> QED BY <1>1, <3>1, SliceMiddle, Zenon
  <2>3. Len(<<>>) = 0
    OBVIOUS
  <2> QED BY <1>1, <1>3, <2>1, <2>2, <2>3, Zenon
<1>6. BcdDecode(mti, 4) = m.mti
  <2>1. m.mti \in Seq(Digit) /\ Len(m.mti) = 4
    BY WellFormedParts, Zenon
  <2> QED BY <2>1, BcdReturns, Zenon
<1> HIDE DEF mti, bitmap
<1> QED BY <1>1, <1>3, <1>4, <1>5, <1>6, Zenon

\* parse_message() comes to each element where build_message() put it.
LEMMA ReaderFollows ==
    ASSUME NEW m, WellFormed(m)
    PROVE  \A de \in 2..128 : FieldStarts(BuildMessage(m), DOMAIN m.fields)[de]
                                 = Len(BuiltUpTo(m)[de - 1])
<1> DEFINE raw == BuildMessage(m)
           present == DOMAIN m.fields
           starts == FieldStarts(raw, present)
           S == {de \in 2..128 : starts[de] = Len(BuiltUpTo(m)[de - 1])}
<1>0. \A de \in 2..128 : starts[de] =
              IF de = 2 THEN 2 + BitmapLen(raw, 2)
              ELSE IF de - 1 \in present
                   THEN ReadField(raw, starts[de - 1], de - 1).next
                   ELSE starts[de - 1]
  BY ReadStepByStep
<1>1. 2 \in S
  <2>1. 2 \in 2..128 /\ 2 - 1 = 1
    OBVIOUS
  <2>2. starts[2] = 2 + BitmapLen(raw, 2)
    BY <1>0, <2>1, Zenon
  <2>3. starts[2] = Len(BuiltUpTo(m)[1])
    BY <2>2, HeaderStands, Zenon
  <2> HIDE DEF starts
  <2> QED BY <2>1, <2>3, Zenon
<1>2. ASSUME NEW de \in 2..(128 - 1), de \in S PROVE de + 1 \in S
  <2>1. /\ de + 1 \in 2..128 /\ (de + 1) - 1 = de /\ de + 1 # 2 /\ de \in 2..128
    OBVIOUS
  <2>2. starts[de] = Len(BuiltUpTo(m)[de - 1])
    BY <1>2, Zenon
  <2>3. CASE de \in present
    <3>1. starts[de + 1] = ReadField(raw, starts[de], de).next
      BY <1>0, <2>1, <2>3, Zenon
    <3>2. ReadField(raw, starts[de], de) =
            [value |-> NormalValue(de, m.fields[de]), next |-> Len(BuiltUpTo(m)[de])]
      BY <2>2, <2>3, FieldStands, Zenon
    <3>3. starts[de + 1] = Len(BuiltUpTo(m)[de])
      <4> HIDE DEF starts, raw
      <4> QED BY <3>1, <3>2
    <3> HIDE DEF starts
    <3> QED BY <2>1, <3>3, Zenon
  <2>4. CASE de \notin present
    <3>1. starts[de + 1] = starts[de]
      BY <1>0, <2>1, <2>4, Zenon
    <3>2. BuiltUpTo(m)[de] = BuiltUpTo(m)[de - 1]
      BY <2>1, <2>4, BuiltStep, Zenon
    <3> HIDE DEF starts
    <3> QED BY <2>1, <2>2, <3>1, <3>2, Zenon
  <2> QED BY <2>3, <2>4, Zenon
<1>3. \A de \in 2..128 : de \in S
  <2> HIDE DEF S
  <2>1. 2 \in Nat /\ 128 \in Nat
    OBVIOUS
  <2> QED BY <1>1, <1>2, <2>1, SetInduction, Zenon
<1> QED BY <1>3, Zenon

\* parse_message() gives back what build_message() was given, for every message
\* whose fields have room for their values: no field is lost, shifted or mixed
\* with its neighbour, whichever of the 127 are there.
THEOREM CodecReturns ==
    ASSUME NEW m, WellFormed(m)
    PROVE  /\ BuildMessage(m) \in Seq(Byte) /\ Len(BuildMessage(m)) > 0
           /\ ParseMessage(BuildMessage(m)) = Normal(m)
<1> DEFINE raw == BuildMessage(m)
           present == DOMAIN m.fields
           starts == FieldStarts(raw, present)
<1>1. raw \in Seq(Byte) /\ Len(raw) > 0
  <2>1. PICK after \in Seq(Byte) : BuildMessage(m) = BuiltUpTo(m)[1] \o after
    <3>1. 1 \in 1..128
      OBVIOUS
    <3> QED BY <3>1, BuiltGoesOn, Zenon
  <2>2. /\ BuiltUpTo(m)[1] \in Seq(Byte) /\ BuildBitmap(DOMAIN m.fields) \in Seq(Byte)
        /\ Len(BuiltUpTo(m)[1]) = 2 + Len(BuildBitmap(DOMAIN m.fields))
    BY BuiltFirst, Zenon
  <2>3. raw \in Seq(Byte) /\ Len(raw) = Len(BuiltUpTo(m)[1]) + Len(after)
    <3>1. /\ BuiltUpTo(m)[1] \o after \in Seq(Byte)
          /\ Len(BuiltUpTo(m)[1] \o after) = Len(BuiltUpTo(m)[1]) + Len(after)
      BY <2>2, BytesConcat, Zenon
    <3> QED BY <2>1, <3>1, Zenon
  <2>4. Len(BuildBitmap(DOMAIN m.fields)) \in Nat /\ Len(after) \in Nat
    BY <2>2
  <2> HIDE DEF raw
  <2> QED BY <2>2, <2>3, <2>4
<1>2. /\ ReadBitmap(raw, 2) = present
      /\ BcdDecode(Slice(raw, 0, 2), 4) = m.mti
  BY HeaderStands, Zenon
<1>3. \A de \in present : ReadField(raw, starts[de], de).value = NormalValue(de, m.fields[de])
  <2> SUFFICES ASSUME NEW de \in present
               PROVE  ReadField(raw, starts[de], de).value = NormalValue(de, m.fields[de])
    OBVIOUS
  <2>1. de \in 2..128
    BY WellFormedParts, Zenon
  <2>2. starts[de] = Len(BuiltUpTo(m)[de - 1])
    BY <2>1, ReaderFollows, Zenon
  <2>3. ReadField(raw, starts[de], de) =
          [value |-> NormalValue(de, m.fields[de]), next |-> Len(BuiltUpTo(m)[de])]
    BY <2>2, FieldStands, Zenon
  <2> HIDE DEF raw, starts
  <2> QED BY <2>3
<1>4. ParseMessage(raw) =
         [mti |-> BcdDecode(Slice(raw, 0, 2), 4),
          fields |-> [de \in present |-> ReadField(raw, starts[de], de).value]]
  <2>1. ParseMessage(raw) =
         [mti |-> BcdDecode(Slice(raw, 0, 2), 4),
          fields |-> [de \in ReadBitmap(raw, 2) |->
                         ReadField(raw, FieldStarts(raw, ReadBitmap(raw, 2))[de], de).value]]
    BY Zenon DEF ParseMessage
  <2> QED BY <1>2, <2>1, Zenon
<1> HIDE DEF raw, starts
<1>5. [de \in present |-> ReadField(raw, starts[de], de).value]
        = [de \in present |-> NormalValue(de, m.fields[de])]
  BY <1>3, Zenon
<1>6. ParseMessage(raw) = Normal(m)
  BY <1>2, <1>4, <1>5, Zenon DEF Normal
<1> QED BY <1>1, <1>6 DEF raw

-----------------------------------------------------------------------------
(* Pieces of a byte sequence *)

LEMMA FrontOf ==
    ASSUME NEW q \in Seq(Byte), NEW k \in 0..Len(q)
    PROVE  /\ Slice(q, 0, k) \in Seq(Byte) /\ Len(Slice(q, 0, k)) = k
           /\ \A i \in 1..k : Slice(q, 0, k)[i] = q[i]
<1>1. Slice(q, 0, k) = SubSeq(q, 1, k)
  BY DEF Slice, Smaller
<1>2. SubSeq(q, 1, k) \in Seq(Byte) /\ Len(SubSeq(q, 1, k)) = k
  OBVIOUS
<1>3. \A i \in 1..k : SubSeq(q, 1, k)[i] = q[i]
  OBVIOUS
<1> QED BY <1>1, <1>2, <1>3, Zenon

LEMMA BackOf ==
    ASSUME NEW q \in Seq(Byte), NEW k \in 0..Len(q)
    PROVE  /\ Slice(q, k, Len(q)) \in Seq(Byte) /\ Len(Slice(q, k, Len(q))) = Len(q) - k
           /\ \A i \in 1..(Len(q) - k) : Slice(q, k, Len(q))[i] = q[k + i]
<1>1. Slice(q, k, Len(q)) = SubSeq(q, k + 1, Len(q))
  BY DEF Slice, Smaller
<1>2. SubSeq(q, k + 1, Len(q)) \in Seq(Byte) /\ Len(SubSeq(q, k + 1, Len(q))) = Len(q) - k
  OBVIOUS
<1>3. \A i \in 1..(Len(q) - k) : SubSeq(q, k + 1, Len(q))[i] = q[k + i]
  OBVIOUS
<1> QED BY <1>1, <1>2, <1>3, Zenon

LEMMA FrontAndBack ==
    ASSUME NEW q \in Seq(Byte), NEW k \in 0..Len(q)
    PROVE  Slice(q, 0, k) \o Slice(q, k, Len(q)) = q
<1> DEFINE a == Slice(q, 0, k)
           b == Slice(q, k, Len(q))
<1>1. /\ a \in Seq(Byte) /\ Len(a) = k /\ \A i \in 1..k : a[i] = q[i]
      /\ b \in Seq(Byte) /\ Len(b) = Len(q) - k /\ \A i \in 1..(Len(q) - k) : b[i] = q[k + i]
  BY FrontOf, BackOf
<1> HIDE DEF a, b
<1>2. a \o b \in Seq(Byte) /\ Len(a \o b) = Len(q)
  BY <1>1
<1>3. ASSUME NEW i \in 1..Len(q) PROVE (a \o b)[i] = q[i]
  <2>1. (a \o b)[i] = IF i <= Len(a) THEN a[i] ELSE b[i - Len(a)]
    BY <1>1
  <2>2. CASE i <= k
    BY <1>1, <2>1, <2>2
  <2>3. CASE ~(i <= k)
    <3>1. i - k \in 1..(Len(q) - k) /\ k + (i - k) = i
      BY <2>3
    <3>2. b[i - k] = q[i]
      BY <1>1, <3>1
    <3> QED BY <1>1, <2>1, <2>3, <3>2
  <2> QED BY <2>2, <2>3, Zenon
<1>4. a \o b = q
  BY <1>2, <1>3, SeqEqual
<1> QED BY <1>4 DEF a, b

LEMMA ConcatAt ==
    ASSUME NEW a \in Seq(Byte), NEW b \in Seq(Byte)
    PROVE  /\ a \o b \in Seq(Byte) /\ Len(a \o b) = Len(a) + Len(b)
           /\ \A i \in 1..Len(a) : (a \o b)[i] = a[i]
           /\ \A i \in 1..Len(b) : (a \o b)[Len(a) + i] = b[i]
<1>1. a \o b \in Seq(Byte) /\ Len(a \o b) = Len(a) + Len(b)
  OBVIOUS
<1>2. \A i \in 1..Len(a) : (a \o b)[i] = a[i]
  OBVIOUS
<1>3. \A i \in 1..Len(b) : (a \o b)[Len(a) + i] = b[i]
  OBVIOUS
<1> QED BY <1>1, <1>2, <1>3, Zenon

-----------------------------------------------------------------------------
(* Places in a stream: one frame ends at a and the next at c, the last but *)
(* one at d and the last at e; b bytes were read, p are there, z are not.  *)

LEMMA PlaceIsThere ==
    ASSUME NEW a \in Nat, NEW b \in Nat, b <= a, NEW j \in Nat, 1 <= j
    PROVE  a - b + j \in Nat /\ 1 <= a - b + j
  OBVIOUS

LEMMA EarlierIsThere ==
    ASSUME NEW a \in Nat, NEW b \in Nat, NEW c \in Nat, NEW d \in Nat, NEW e \in Nat,
           NEW l \in Nat, NEW m \in Nat, NEW p \in Nat, NEW z \in Nat, NEW j \in Nat,
           j <= l, c = a + l, c <= d, e = d + m, p + z = e - b, z <= m
    PROVE  a - b + j <= p
  OBVIOUS

LEMMA LastIsWritten ==
    ASSUME NEW b \in Nat, NEW d \in Nat, NEW e \in Nat, NEW m \in Nat, NEW p \in Nat,
           NEW z \in Nat, NEW j \in Nat, NEW k \in 1..z,
           e = d + m, p + z = e - b, d - b + j <= p + k, ~(d - b + j <= p)
    PROVE  \E x \in 1..k : p + x = d - b + j /\ m - z + x = j /\ x \in 1..z
<1> DEFINE x == d - b + j - p
<1>1. x \in 1..k /\ p + x = d - b + j /\ m - z + x = j /\ x \in 1..z
  OBVIOUS
<1> QED BY <1>1, Zenon

LEMMA NotTheNewOne ==
    ASSUME NEW n \in Nat, NEW r \in 0..n, NEW i \in (r + 1)..(n + 1), i # n + 1
    PROVE  i \in (r + 1)..n /\ i \in 1..n
  OBVIOUS

LEMMA FrameIndices ==
    ASSUME NEW n \in Nat, NEW r \in 0..n, NEW i \in (r + 1)..n
    PROVE  /\ i \in 1..n /\ i \in 0..n /\ i - 1 \in 0..n /\ r <= i - 1
           /\ n \in 1..n /\ n \in 0..n /\ n - 1 \in 0..n
           /\ i # n => i <= n - 1
  OBVIOUS

LEMMA RestGoesOn ==
    ASSUME NEW z \in Nat, NEW k \in 1..z, NEW j \in 1..(z - k), NEW m \in Nat
    PROVE  k + j \in 1..z /\ m - z + (k + j) = m - (z - k) + j
  OBVIOUS

-----------------------------------------------------------------------------
(* The stream: f is the sequence of the frames begun on the connection, of *)
(* which the first r were read, and cut[i] is where the i-th one ends.     *)

Cuts(f, cut) ==
    /\ cut \in [0..Len(f) -> Nat]
    /\ \A i \in 1..Len(f) : cut[i] = cut[i - 1] + Len(f[i])
    /\ \A i, k \in 0..Len(f) : i <= k => cut[i] <= cut[k]

\* These bytes are the frames not read yet, as far as they go.
Carries(f, cut, r, bytes) ==
    /\ r \in 0..Len(f)
    /\ Len(bytes) <= cut[Len(f)] - cut[r]
    /\ \A i \in (r + 1)..Len(f) : \A j \in 1..Len(f[i]) :
          cut[i - 1] - cut[r] + j <= Len(bytes) => bytes[cut[i - 1] - cut[r] + j] = f[i][j]

\* They go as far as the frames do, but for this end of the last one.
Lacks(f, cut, r, bytes, rest) ==
    /\ Len(bytes) + Len(rest) = cut[Len(f)] - cut[r]
    /\ Len(rest) > 0 =>
          /\ Len(f) > 0 /\ Len(rest) <= Len(f[Len(f)])
          /\ \A j \in 1..Len(rest) : rest[j] = f[Len(f)][Len(f[Len(f)]) - Len(rest) + j]

LEMMA CutsGrow ==
    ASSUME NEW f \in Seq(Seq(Byte)), NEW cut, Cuts(f, cut), NEW g \in Seq(Byte)
    PROVE  \E longer : /\ Cuts(Append(f, g), longer)
                       /\ \A i \in 0..Len(f) : longer[i] = cut[i]
                       /\ longer[Len(f) + 1] = cut[Len(f)] + Len(g)
<1> DEFINE n == Len(f)
           h == Append(f, g)
           longer == [i \in 0..(n + 1) |-> IF i = n + 1 THEN cut[n] + Len(g) ELSE cut[i]]
<1>1. n \in Nat /\ Len(g) \in Nat /\ cut \in [0..n -> Nat] /\ cut[n] \in Nat
  BY DEF Cuts
<1>2. Len(h) = n + 1 /\ h[n + 1] = g /\ \A i \in 1..n : h[i] = f[i]
  OBVIOUS
<1> HIDE DEF h, n
<1>3. longer \in [0..(n + 1) -> Nat]
  BY <1>1
<1>4. longer[n + 1] = cut[n] + Len(g) /\ \A i \in 0..n : longer[i] = cut[i]
  BY <1>1
<1> HIDE DEF longer
<1>5. \A i \in 1..n : cut[i] = cut[i - 1] + Len(f[i])
  BY DEF Cuts, n
<1>6. \A i, k \in 0..n : i <= k => cut[i] <= cut[k]
  BY DEF Cuts, n
<1>7. ASSUME NEW i \in 1..(n + 1) PROVE longer[i] = longer[i - 1] + Len(h[i])
  <2>1. CASE i = n + 1
    BY <1>1, <1>2, <1>4, <2>1
  <2>2. CASE i # n + 1
    <3>1. i \in 1..n /\ i \in 0..n /\ i - 1 \in 0..n
      BY <1>1, <2>2
    <3> QED BY <1>2, <1>4, <1>5, <3>1, Zenon
  <2> QED BY <2>1, <2>2
<1>8. ASSUME NEW i \in 0..(n + 1), NEW k \in 0..(n + 1), i <= k PROVE longer[i] <= longer[k]
  <2>1. CASE k = n + 1
    <3>1. CASE i = n + 1
      BY <1>1, <1>3, <2>1, <3>1
    <3>2. CASE i # n + 1
      <4>1. i \in 0..n /\ n \in 0..n /\ i <= n
        BY <1>1, <3>2
      <4>2. longer[i] = cut[i] /\ cut[i] <= cut[n] /\ cut[i] \in Nat
        BY <1>1, <1>4, <1>6, <4>1, Zenon
      <4> QED BY <1>1, <1>4, <2>1, <4>2
    <3> QED BY <3>1, <3>2
  <2>2. CASE k # n + 1
    <3>1. i \in 0..n /\ k \in 0..n
      BY <1>1, <1>8, <2>2
    <3> QED BY <1>4, <1>6, <1>8, <3>1, Zenon
  <2> QED BY <2>1, <2>2
<1>9. Cuts(h, longer)
  BY <1>2, <1>3, <1>7, <1>8, Zenon DEF Cuts
<1> QED BY <1>4, <1>9, Zenon DEF n, h

\* A frame that is begun adds nothing to what is there.
LEMMA CarriesGrow ==
    ASSUME NEW f \in Seq(Seq(Byte)), NEW cut, Cuts(f, cut), NEW g \in Seq(Byte),
           NEW longer, Cuts(Append(f, g), longer),
           \A i \in 0..Len(f) : longer[i] = cut[i],
           longer[Len(f) + 1] = cut[Len(f)] + Len(g),
           NEW r, NEW bytes \in Seq(Byte), Carries(f, cut, r, bytes)
    PROVE  Carries(Append(f, g), longer, r, bytes)
<1> DEFINE n == Len(f)
           h == Append(f, g)
<1>1. n \in Nat /\ Len(g) \in Nat /\ Len(bytes) \in Nat /\ cut \in [0..n -> Nat]
  BY DEF Cuts
<1>2. Len(h) = n + 1 /\ h[n + 1] = g /\ \A i \in 1..n : h[i] = f[i]
  OBVIOUS
<1>3. /\ r \in 0..n /\ Len(bytes) <= cut[n] - cut[r]
      /\ \A i \in (r + 1)..n : \A j \in 1..Len(f[i]) :
            cut[i - 1] - cut[r] + j <= Len(bytes) => bytes[cut[i - 1] - cut[r] + j] = f[i][j]
  BY DEF Carries
<1> HIDE DEF h, n
<1>4. longer[n + 1] = cut[n] + Len(g) /\ longer[r] = cut[r] /\ \A i \in 0..n : longer[i] = cut[i]
  BY <1>3 DEF n
<1>5. ASSUME NEW i \in (r + 1)..(n + 1), NEW j \in 1..Len(h[i]),
             longer[i - 1] - longer[r] + j <= Len(bytes)
      PROVE  bytes[longer[i - 1] - longer[r] + j] = h[i][j]
  <2>1. i - 1 \in 0..n /\ longer[i - 1] = cut[i - 1] /\ cut[i - 1] \in Nat /\ cut[r] \in Nat
    BY <1>1, <1>3, <1>4
  <2>2. CASE i = n + 1
    BY <1>1, <1>2, <1>3, <1>4, <1>5, <2>1, <2>2
  <2>3. CASE i # n + 1
    <3>1. i \in (r + 1)..n /\ i \in 1..n
      BY <1>1, <1>3, <2>3, NotTheNewOne, Zenon
    <3>2. h[i] = f[i]
      BY <1>2, <3>1
    <3> QED BY <1>3, <1>4, <1>5, <2>1, <3>1, <3>2, Zenon
  <2> QED BY <2>2, <2>3
<1>6. r \in 0..(n + 1) /\ Len(bytes) <= longer[n + 1] - longer[r]
  BY <1>1, <1>3, <1>4
<1>7. Carries(h, longer, r, bytes)
  BY <1>2, <1>5, <1>6, Zenon DEF Carries
<1> QED BY <1>7 DEF h

\* What is written is where the frames go on.
LEMMA CarriesMore ==
    ASSUME NEW f \in Seq(Seq(Byte)), NEW cut, Cuts(f, cut),
           NEW r, NEW bytes \in Seq(Byte), Carries(f, cut, r, bytes),
           NEW rest \in Seq(Byte), Lacks(f, cut, r, bytes, rest),
           NEW k \in 1..Len(rest)
    PROVE  /\ Carries(f, cut, r, bytes \o Slice(rest, 0, k))
           /\ Lacks(f, cut, r, bytes \o Slice(rest, 0, k), Slice(rest, k, Len(rest)))
<1> DEFINE n == Len(f)
           piece == Slice(rest, 0, k)
           still == Slice(rest, k, Len(rest))
           more == bytes \o piece
           p == Len(bytes)
           z == Len(rest)
<1>1. n \in Nat /\ p \in Nat /\ z \in Nat /\ k \in 1..z /\ cut \in [0..n -> Nat] /\ f \in [1..n -> Seq(Byte)]
  BY DEF Cuts
<1>2. /\ piece \in Seq(Byte) /\ Len(piece) = k /\ \A i \in 1..k : piece[i] = rest[i]
      /\ still \in Seq(Byte) /\ Len(still) = z - k /\ \A i \in 1..(z - k) : still[i] = rest[k + i]
  <2>1. k \in 0..Len(rest)
    OBVIOUS
  <2> QED BY <2>1, FrontOf, BackOf, Zenon
<1>3. /\ r \in 0..n /\ p <= cut[n] - cut[r]
      /\ \A i \in (r + 1)..n : \A j \in 1..Len(f[i]) :
            cut[i - 1] - cut[r] + j <= p => bytes[cut[i - 1] - cut[r] + j] = f[i][j]
  BY DEF Carries
<1>4. /\ p + z = cut[n] - cut[r] /\ n > 0 /\ z <= Len(f[n])
      /\ \A j \in 1..z : rest[j] = f[n][Len(f[n]) - z + j]
  BY <1>1 DEF Lacks
<1>5. /\ \A i \in 1..n : cut[i] = cut[i - 1] + Len(f[i])
      /\ \A i, m \in 0..n : i <= m => cut[i] <= cut[m]
  BY DEF Cuts
<1> HIDE DEF piece, still
<1>6. /\ more \in Seq(Byte) /\ Len(more) = p + k
      /\ \A i \in 1..p : more[i] = bytes[i]
      /\ \A i \in 1..k : more[p + i] = piece[i]
  BY <1>2, ConcatAt, Zenon
<1> HIDE DEF n, more, p, z
<1>7. ASSUME NEW i \in (r + 1)..n, NEW j \in 1..Len(f[i]), cut[i - 1] - cut[r] + j <= p + k
      PROVE  more[cut[i - 1] - cut[r] + j] = f[i][j]
  <2> DEFINE at == cut[i - 1] - cut[r] + j
             m == Len(f[n])
  <2>1. /\ i \in 1..n /\ i \in 0..n /\ i - 1 \in 0..n /\ r <= i - 1
        /\ n \in 1..n /\ n \in 0..n /\ n - 1 \in 0..n
        /\ i # n => i <= n - 1
    BY <1>1, <1>3, FrameIndices, Zenon
  <2>2. /\ cut[i] \in Nat /\ cut[i - 1] \in Nat /\ cut[r] \in Nat /\ cut[n] \in Nat
        /\ cut[n - 1] \in Nat
    BY <1>1, <1>3, <2>1
  <2>3. Len(f[i]) \in Nat /\ m \in Nat
    <3>1. f[i] \in Seq(Byte) /\ f[n] \in Seq(Byte)
      BY <1>1, <2>1, Zenon
    <3> QED BY <3>1
  <2>4. j \in Nat /\ 1 <= j /\ j <= Len(f[i])
    BY <2>3
  <2>5. cut[r] <= cut[i - 1] /\ cut[i] = cut[i - 1] + Len(f[i]) /\ cut[n] = cut[n - 1] + m
    BY <1>3, <1>5, <2>1, Zenon
  <2>9. z <= m /\ p + z = cut[n] - cut[r] /\ p \in Nat /\ z \in Nat /\ k \in 1..z
    BY <1>1, <1>4, Zenon
  <2>6. at \in Nat /\ 1 <= at
    BY <2>2, <2>4, <2>5, PlaceIsThere, Zenon
  <2>7. CASE at <= p
    <3>1. bytes[at] = f[i][j]
      BY <1>3, <2>7, Zenon
    <3>2. at \in 1..p
      <4> HIDE DEF at
      <4> QED BY <1>1, <2>6, <2>7
    <3> HIDE DEF at
    <3>3. more[at] = f[i][j]
      BY <1>6, <3>1, <3>2, Zenon
    <3> QED BY <3>3 DEF at
  <2>8. CASE ~(at <= p)
    <3>1. i = n
      <4>1. SUFFICES ASSUME i # n PROVE FALSE
        OBVIOUS
      <4>2. cut[i] <= cut[n - 1]
        BY <1>5, <2>1, <4>1, Zenon
      <4> HIDE DEF m
      <4>3. at <= p
        <5>1. \A a, b, c, d, e, l \in Nat :
                 j <= l /\ c = a + l /\ c <= d /\ e = d + m /\ p + z = e - b => a - b + j <= p
          BY <2>3, <2>4, <2>9, EarlierIsThere
        <5> QED BY <2>2, <2>3, <2>4, <2>5, <2>9, <4>2, <5>1, Zenon
      <4> QED BY <2>8, <4>3, Zenon
    <3>2. PICK x \in 1..k : p + x = at /\ m - z + x = j /\ x \in 1..z
      <4>1. ~(cut[n - 1] - cut[r] + j <= p) /\ cut[n - 1] - cut[r] + j <= p + k
        BY <1>7, <2>8, <3>1, Zenon
      <4> HIDE DEF m
      <4>2. \E x \in 1..k : p + x = cut[n - 1] - cut[r] + j /\ m - z + x = j /\ x \in 1..z
        <5>1. \A b, d, e \in Nat :
                 /\ e = d + m /\ p + z = e - b
                 /\ d - b + j <= p + k /\ ~(d - b + j <= p)
                 => \E x \in 1..k : p + x = d - b + j /\ m - z + x = j /\ x \in 1..z
          BY <2>3, <2>4, <2>9, LastIsWritten
        <5> QED BY <2>2, <2>5, <2>9, <4>1, <5>1, Zenon
      <4> QED BY <3>1, <4>2, Zenon
    <3>3. more[at] = rest[x]
      <4>1. more[p + x] = piece[x]
        BY <1>6, <3>2, Zenon
      <4>2. piece[x] = rest[x]
        BY <1>2, <3>2, Zenon
      <4> HIDE DEF at
      <4> QED BY <3>2, <4>1, <4>2, Zenon
    <3>4. rest[x] = f[n][j]
      BY <1>4, <3>2, Zenon
    <3> QED BY <3>1, <3>3, <3>4, Zenon
  <2> QED BY <2>7, <2>8, Zenon
<1>8. Carries(f, cut, r, more)
  <2>1. p + k <= cut[n] - cut[r]
    BY <1>1, <1>3, <1>4
  <2> QED BY <1>3, <1>6, <1>7, <2>1, Zenon DEF Carries, n
<1>9. Lacks(f, cut, r, more, still)
  <2>1. Len(more) + Len(still) = cut[n] - cut[r]
    BY <1>1, <1>2, <1>4, <1>6
  <2>2. Len(f[n]) \in Nat
    <3>1. f[n] \in Seq(Byte)
      BY <1>1, <1>4
    <3> QED BY <3>1
  <2>3. Len(still) <= Len(f[n])
    BY <1>1, <1>2, <1>4, <2>2
  <2>4. ASSUME NEW j \in 1..Len(still) PROVE still[j] = f[n][Len(f[n]) - Len(still) + j]
    <3>1. j \in 1..(z - k)
      BY <1>2
    <3>2. k + j \in 1..z /\ Len(f[n]) - z + (k + j) = Len(f[n]) - (z - k) + j
      <4> DEFINE m == Len(f[n])
      <4>1. m \in Nat
        BY <2>2
      <4> HIDE DEF m
      <4>2. k + j \in 1..z /\ m - z + (k + j) = m - (z - k) + j
        <5>1. z \in Nat /\ k \in 1..z
          BY <1>1, Zenon
        <5> QED BY <3>1, <4>1, <5>1, RestGoesOn
      <4> QED BY <4>2, Zenon DEF m
    <3>3. still[j] = rest[k + j]
      BY <1>2, <3>1, Zenon
    <3>4. rest[k + j] = f[n][Len(f[n]) - z + (k + j)]
      BY <1>4, <3>2, Zenon
    <3>5. still[j] = f[n][Len(f[n]) - (z - k) + j]
      BY <3>2, <3>3, <3>4, Zenon
    <3> QED BY <1>2, <3>5, Zenon
  <2> QED BY <1>4, <2>1, <2>3, <2>4, Zenon DEF Lacks, n
<1> QED BY <1>8, <1>9 DEF more, piece, still

\* What is lost at the end leaves the beginning as it was.
LEMMA CarriesLess ==
    ASSUME NEW f \in Seq(Seq(Byte)), NEW cut, Cuts(f, cut),
           NEW r, NEW bytes \in Seq(Byte), Carries(f, cut, r, bytes),
           NEW less \in Seq(Byte), Len(less) <= Len(bytes),
           \A i \in 1..Len(less) : less[i] = bytes[i]
    PROVE  Carries(f, cut, r, less)
<1> DEFINE n == Len(f)
           p == Len(bytes)
           q == Len(less)
<1>1. n \in Nat /\ p \in Nat /\ q \in Nat /\ q <= p /\ cut \in [0..n -> Nat]
      /\ f \in [1..n -> Seq(Byte)]
  BY DEF Cuts
<1>2. /\ r \in 0..n /\ p <= cut[n] - cut[r]
      /\ \A i \in (r + 1)..n : \A j \in 1..Len(f[i]) :
            cut[i - 1] - cut[r] + j <= p => bytes[cut[i - 1] - cut[r] + j] = f[i][j]
  BY DEF Carries
<1>3. \A i, m \in 0..n : i <= m => cut[i] <= cut[m]
  BY DEF Cuts
<1>4. \A i \in 1..q : less[i] = bytes[i]
  OBVIOUS
<1> HIDE DEF n, p, q
<1>5. ASSUME NEW i \in (r + 1)..n, NEW j \in 1..Len(f[i]), cut[i - 1] - cut[r] + j <= q
      PROVE  less[cut[i - 1] - cut[r] + j] = f[i][j]
  <2> DEFINE at == cut[i - 1] - cut[r] + j
  <2>1. i \in 1..n /\ i - 1 \in 0..n /\ r <= i - 1
    BY <1>1, <1>2, FrameIndices, Zenon
  <2>2. cut[i - 1] \in Nat /\ cut[r] \in Nat /\ cut[r] <= cut[i - 1]
    BY <1>1, <1>2, <1>3, <2>1, Zenon
  <2>3. j \in Nat /\ 1 <= j
    <3>1. f[i] \in Seq(Byte)
      BY <1>1, <2>1, Zenon
    <3> QED BY <3>1
  <2>4. at \in Nat /\ 1 <= at
    BY <2>2, <2>3, PlaceIsThere, Zenon
  <2>5. at <= q
    BY <1>5
  <2>6. at \in 1..q /\ at <= p
    <3> HIDE DEF at
    <3> QED BY <1>1, <2>4, <2>5
  <2>7. bytes[at] = f[i][j]
    BY <1>2, <2>6, Zenon
  <2>8. less[at] = bytes[at]
    <3> HIDE DEF at
    <3> QED BY <1>4, <2>6, Zenon
  <2> QED BY <2>7, <2>8
<1>6. q <= cut[n] - cut[r]
  <2>1. cut[n] \in Nat /\ cut[r] \in Nat
    BY <1>1, <1>2
  <2> QED BY <1>1, <1>2, <2>1
<1> QED BY <1>2, <1>5, <1>6, Zenon DEF Carries, n, q

\* What comes first is the next frame.
LEMMA CarriesNext ==
    ASSUME NEW f \in Seq(Seq(Byte)), NEW cut, Cuts(f, cut),
           NEW r, NEW bytes \in Seq(Byte), Carries(f, cut, r, bytes), 0 < Len(bytes)
    PROVE  /\ r \in Nat /\ r < Len(f) /\ r + 1 \in 1..Len(f)
           /\ \A j \in 1..Len(f[r + 1]) : j <= Len(bytes) => bytes[j] = f[r + 1][j]
<1> DEFINE n == Len(f)
           p == Len(bytes)
<1>1. n \in Nat /\ p \in Nat /\ 0 < p /\ cut \in [0..n -> Nat] /\ f \in [1..n -> Seq(Byte)]
  BY DEF Cuts
<1>2. /\ r \in 0..n /\ p <= cut[n] - cut[r]
      /\ \A i \in (r + 1)..n : \A j \in 1..Len(f[i]) :
            cut[i - 1] - cut[r] + j <= p => bytes[cut[i - 1] - cut[r] + j] = f[i][j]
  BY DEF Carries
<1> HIDE DEF n, p
<1>3. cut[n] \in Nat /\ cut[r] \in Nat
  BY <1>1, <1>2
<1>4. r # n
  <2> SUFFICES ASSUME r = n PROVE FALSE
    OBVIOUS
  <2>1. cut[n] - cut[r] = 0
    BY <1>3
  <2> QED BY <1>1, <1>2, <2>1
<1>5. r \in Nat /\ r < n /\ r + 1 \in 1..n /\ r + 1 \in (r + 1)..n /\ (r + 1) - 1 = r
  BY <1>1, <1>2, <1>4
<1>6. ASSUME NEW j \in 1..Len(f[r + 1]), j <= p PROVE bytes[j] = f[r + 1][j]
  <2>1. j \in Nat
    <3>1. f[r + 1] \in Seq(Byte)
      BY <1>1, <1>5, Zenon
    <3> QED BY <3>1
  <2>2. cut[(r + 1) - 1] - cut[r] + j = j
    <3>1. cut[r] - cut[r] + j = j
      BY <1>3, <2>1
    <3> QED BY <1>5, <3>1, Zenon
  <2> QED BY <1>2, <1>5, <1>6, <2>2, Zenon
<1> QED BY <1>5, <1>6, Zenon DEF n, p

\* Behind a whole frame comes the rest of the stream.
LEMMA CarriesOn ==
    ASSUME NEW f \in Seq(Seq(Byte)), NEW cut, Cuts(f, cut),
           NEW r, NEW bytes \in Seq(Byte), Carries(f, cut, r, bytes),
           r + 1 \in 1..Len(f), NEW behind \in Seq(Byte),
           Len(bytes) = Len(f[r + 1]) + Len(behind),
           \A i \in 1..Len(behind) : behind[i] = bytes[Len(f[r + 1]) + i],
           NEW rest \in Seq(Byte)
    PROVE  /\ Carries(f, cut, r + 1, behind)
           /\ Lacks(f, cut, r, bytes, rest) => Lacks(f, cut, r + 1, behind, rest)
<1> DEFINE n == Len(f)
           p == Len(bytes)
           q == Len(behind)
           l == Len(f[r + 1])
<1>1. /\ n \in Nat /\ p \in Nat /\ q \in Nat /\ cut \in [0..n -> Nat] /\ f \in [1..n -> Seq(Byte)]
      /\ r + 1 \in 1..n /\ p = l + q
  BY DEF Cuts
<1>2. /\ r \in 0..n /\ p <= cut[n] - cut[r]
      /\ \A i \in (r + 1)..n : \A j \in 1..Len(f[i]) :
            cut[i - 1] - cut[r] + j <= p => bytes[cut[i - 1] - cut[r] + j] = f[i][j]
  BY DEF Carries
<1>3. /\ \A i \in 1..n : cut[i] = cut[i - 1] + Len(f[i])
      /\ \A i, m \in 0..n : i <= m => cut[i] <= cut[m]
  BY DEF Cuts
<1>4. \A i \in 1..q : behind[i] = bytes[l + i]
  OBVIOUS
<1>5. l \in Nat
  <2>1. f[r + 1] \in Seq(Byte)
    BY <1>1
  <2> QED BY <2>1
<1> HIDE DEF n, p, q, l
<1>6. (r + 1) - 1 = r /\ r + 1 \in 0..n
  BY <1>1, <1>2
<1>7. cut[r + 1] = cut[r] + l /\ cut[r] \in Nat /\ cut[n] \in Nat /\ cut[r + 1] \in Nat
  <2>1. cut[r + 1] = cut[(r + 1) - 1] + Len(f[r + 1])
    BY <1>1, <1>3, Zenon
  <2>2. n \in 0..n
    BY <1>1
  <2> QED BY <1>1, <1>2, <1>6, <2>1, <2>2, Zenon DEF l
<1>8. ASSUME NEW i \in (r + 1 + 1)..n, NEW j \in 1..Len(f[i]), cut[i - 1] - cut[r + 1] + j <= q
      PROVE  behind[cut[i - 1] - cut[r + 1] + j] = f[i][j]
  <2> DEFINE at == cut[i - 1] - cut[r + 1] + j
  <2>1. i \in (r + 1)..n /\ i \in 1..n /\ i - 1 \in 0..n /\ r + 1 <= i - 1
    <3>1. r \in Nat /\ n \in Nat
      BY <1>1, <1>2
    <3> QED BY <3>1
  <2>2. cut[i - 1] \in Nat /\ cut[r + 1] <= cut[i - 1]
    BY <1>1, <1>3, <1>6, <2>1, Zenon
  <2>3. j \in Nat /\ 1 <= j
    <3>1. f[i] \in Seq(Byte)
      BY <1>1, <2>1, Zenon
    <3> QED BY <3>1
  <2>4. at \in Nat /\ 1 <= at
    BY <1>7, <2>2, <2>3, PlaceIsThere, Zenon
  <2>5. at \in 1..q
    <3>1. at <= q
      BY <1>8
    <3> HIDE DEF at
    <3> QED BY <1>1, <2>4, <3>1
  <2>6. cut[i - 1] - cut[r] + j = l + at
    <3> DEFINE a == cut[i - 1]
               b == cut[r]
               c == cut[r + 1]
    <3>1. a \in Nat /\ b \in Nat /\ c = b + l /\ at = a - c + j
      BY <1>7, <2>2, Zenon
    <3> HIDE DEF a, b, c, at
    <3>2. a - b + j = l + at
      BY <1>5, <2>3, <3>1
    <3> QED BY <3>2, Zenon DEF a, b
  <2>7. l + at <= p
    <3> HIDE DEF at
    <3> QED BY <1>1, <1>5, <2>5
  <2>8. bytes[l + at] = f[i][j]
    <3> HIDE DEF at
    <3> QED BY <1>2, <2>1, <2>6, <2>7, Zenon
  <2>9. behind[at] = bytes[l + at]
    <3> HIDE DEF at
    <3> QED BY <1>4, <2>5, Zenon
  <2> QED BY <2>8, <2>9
<1>9. Carries(f, cut, r + 1, behind)
  <2>1. q <= cut[n] - cut[r + 1]
    BY <1>1, <1>2, <1>5, <1>7
  <2> QED BY <1>6, <1>8, <2>1, Zenon DEF Carries, n, q
<1>10. ASSUME Lacks(f, cut, r, bytes, rest) PROVE Lacks(f, cut, r + 1, behind, rest)
  <2>1. p + Len(rest) = cut[n] - cut[r]
    BY <1>10, Zenon DEF Lacks, n, p
  <2>2. q + Len(rest) = cut[n] - cut[r + 1]
    <3> DEFINE z == Len(rest)
               b == cut[r]
               c == cut[r + 1]
               e == cut[n]
    <3>1. /\ z \in Nat /\ b \in Nat /\ e \in Nat /\ c = b + l /\ p + z = e - b
          /\ p \in Nat /\ q \in Nat /\ p = l + q
      BY <1>1, <1>7, <2>1
    <3> HIDE DEF z, b, c, e
    <3>2. q + z = e - c
      BY <1>5, <3>1
    <3> QED BY <3>2, Zenon DEF z, c, e
  <2> QED BY <1>10, <2>2, Zenon DEF Lacks, n, q
<1> QED BY <1>9, <1>10

-----------------------------------------------------------------------------

\* The bytes between the writers and the parser, on a broken connection and on
\* one that holds: rest is what its writer has still to write.
Partial(f, r, bytes) == \E cut : Cuts(f, cut) /\ Carries(f, cut, r, bytes)

Whole(f, r, bytes, rest) ==
    \E cut : Cuts(f, cut) /\ Carries(f, cut, r, bytes) /\ Lacks(f, cut, r, bytes, rest)

LEMMA WholeBegins ==
    ASSUME NEW f \in Seq(Seq(Byte)), NEW r, NEW bytes \in Seq(Byte),
           Whole(f, r, bytes, <<>>), NEW g \in Seq(Byte)
    PROVE  Whole(Append(f, g), r, bytes, g)
<1>1. PICK cut : Cuts(f, cut) /\ Carries(f, cut, r, bytes) /\ Lacks(f, cut, r, bytes, <<>>)
  BY Zenon DEF Whole
<1>2. PICK longer : /\ Cuts(Append(f, g), longer)
                    /\ \A i \in 0..Len(f) : longer[i] = cut[i]
                    /\ longer[Len(f) + 1] = cut[Len(f)] + Len(g)
  BY <1>1, CutsGrow, Zenon
<1>3. Carries(Append(f, g), longer, r, bytes)
  BY <1>1, <1>2, CarriesGrow, Zenon
<1>4. Lacks(Append(f, g), longer, r, bytes, g)
  <2> DEFINE n == Len(f)
             h == Append(f, g)
             z == Len(g)
  <2>1. n \in Nat /\ z \in Nat /\ Len(h) = n + 1 /\ h[n + 1] = g
    OBVIOUS
  <2>2. r \in 0..n /\ Len(bytes) <= cut[n] - cut[r]
    BY <1>1, Zenon DEF Carries
  <2>3. Len(bytes) = cut[n] - cut[r]
    <3>1. Len(bytes) + Len(<<>>) = cut[n] - cut[r]
      BY <1>1, Zenon DEF Lacks
    <3>2. Len(<<>>) = 0 /\ Len(bytes) \in Nat
      OBVIOUS
    <3> QED BY <3>1, <3>2
  <2>4. cut \in [0..n -> Nat]
    BY <1>1, Zenon DEF Cuts
  <2> HIDE DEF n, h, z
  <2>5. longer[n + 1] = cut[n] + z /\ longer[r] = cut[r]
    BY <1>2, <2>2, Zenon DEF n, z
  <2>6. Len(bytes) + z = longer[n + 1] - longer[r]
    <3> DEFINE p == Len(bytes)
               b == cut[r]
               e == cut[n]
    <3>1. p = e - b /\ b \in Nat /\ e \in Nat
      BY <2>1, <2>2, <2>3, <2>4
    <3> HIDE DEF p, b, e
    <3>2. p + z = (e + z) - b
      BY <2>1, <3>1
    <3> QED BY <2>5, <3>2, Zenon DEF p, b, e
  <2>7. \A j \in 1..z : z - z + j = j
    BY <2>1
  <2>8. n + 1 > 0 /\ z <= z
    BY <2>1
  <2> QED BY <2>1, <2>6, <2>7, <2>8, Zenon DEF Lacks, h, z
<1> QED BY <1>2, <1>3, <1>4, Zenon DEF Whole

LEMMA WholeGoesOn ==
    ASSUME NEW f \in Seq(Seq(Byte)), NEW r, NEW bytes \in Seq(Byte),
           NEW rest \in Seq(Byte), Whole(f, r, bytes, rest), NEW k \in 1..Len(rest)
    PROVE  Whole(f, r, bytes \o Slice(rest, 0, k), Slice(rest, k, Len(rest)))
<1>1. PICK cut : Cuts(f, cut) /\ Carries(f, cut, r, bytes) /\ Lacks(f, cut, r, bytes, rest)
  BY Zenon DEF Whole
<1> QED BY <1>1, CarriesMore, Zenon DEF Whole

LEMMA WholeIsPartial ==
    ASSUME NEW f, NEW r, NEW bytes, NEW rest, Whole(f, r, bytes, rest)
    PROVE  Partial(f, r, bytes)
  BY Zenon DEF Whole, Partial

LEMMA PartialLess ==
    ASSUME NEW f \in Seq(Seq(Byte)), NEW r, NEW bytes \in Seq(Byte), Partial(f, r, bytes),
           NEW less \in Seq(Byte), Len(less) <= Len(bytes),
           \A i \in 1..Len(less) : less[i] = bytes[i]
    PROVE  Partial(f, r, less)
<1>1. PICK cut : Cuts(f, cut) /\ Carries(f, cut, r, bytes)
  BY Zenon DEF Partial
<1>2. Carries(f, cut, r, less)
  BY <1>1, CarriesLess, Zenon
<1> QED BY <1>1, <1>2, Zenon DEF Partial

LEMMA PartialNext ==
    ASSUME NEW f \in Seq(Seq(Byte)), NEW r, NEW bytes \in Seq(Byte), Partial(f, r, bytes),
           0 < Len(bytes)
    PROVE  /\ r \in Nat /\ r < Len(f) /\ r + 1 \in 1..Len(f)
           /\ \A j \in 1..Len(f[r + 1]) : j <= Len(bytes) => bytes[j] = f[r + 1][j]
<1>1. PICK cut : Cuts(f, cut) /\ Carries(f, cut, r, bytes)
  BY Zenon DEF Partial
<1> QED BY <1>1, CarriesNext

LEMMA BothGoOn ==
    ASSUME NEW f \in Seq(Seq(Byte)), NEW r, NEW bytes \in Seq(Byte),
           r + 1 \in 1..Len(f), NEW behind \in Seq(Byte),
           Len(bytes) = Len(f[r + 1]) + Len(behind),
           \A i \in 1..Len(behind) : behind[i] = bytes[Len(f[r + 1]) + i],
           NEW rest \in Seq(Byte)
    PROVE  /\ Partial(f, r, bytes) => Partial(f, r + 1, behind)
           /\ Whole(f, r, bytes, rest) => Whole(f, r + 1, behind, rest)
<1>1. ASSUME Partial(f, r, bytes) PROVE Partial(f, r + 1, behind)
  <2>1. PICK cut : Cuts(f, cut) /\ Carries(f, cut, r, bytes)
    BY <1>1, Zenon DEF Partial
  <2>2. Carries(f, cut, r + 1, behind)
    BY <2>1, CarriesOn, Zenon
  <2> QED BY <2>1, <2>2, Zenon DEF Partial
<1>2. ASSUME Whole(f, r, bytes, rest) PROVE Whole(f, r + 1, behind, rest)
  <2>1. PICK cut : Cuts(f, cut) /\ Carries(f, cut, r, bytes) /\ Lacks(f, cut, r, bytes, rest)
    BY <1>2, Zenon DEF Whole
  <2>2. Carries(f, cut, r + 1, behind) /\ Lacks(f, cut, r + 1, behind, rest)
    BY <2>1, CarriesOn, Zenon
  <2> QED BY <2>1, <2>2, Zenon DEF Whole
<1> QED BY <1>1, <1>2

LEMMA NothingIsWhole == Whole(<<>>, 0, <<>>, <<>>)
<1> DEFINE cut == [i \in 0..0 |-> 0]
<1>1. Len(<<>>) = 0
  OBVIOUS
<1>2. cut \in [0..0 -> Nat] /\ cut[0] = 0 /\ \A i \in 0..0 : i = 0
  OBVIOUS
<1>3. 1..0 = {} /\ (0 + 1)..0 = {} /\ 0 \in 0..0 /\ 0 <= 0 - 0 /\ 0 + 0 = 0 - 0 /\ ~(0 > 0) /\ 0 <= 0
  OBVIOUS
<1> HIDE DEF cut
<1>4. Cuts(<<>>, cut)
  <2>1. \A i, k \in 0..0 : i <= k => cut[i] <= cut[k]
    BY <1>2, <1>3, Zenon
  <2> QED BY <1>1, <1>2, <1>3, <2>1, Zenon DEF Cuts
<1>5. Carries(<<>>, cut, 0, <<>>)
  BY <1>1, <1>2, <1>3, Zenon DEF Carries
<1>6. Lacks(<<>>, cut, 0, <<>>, <<>>)
  BY <1>1, <1>2, <1>3, Zenon DEF Lacks
<1> QED BY <1>4, <1>5, <1>6, Zenon DEF Whole

-----------------------------------------------------------------------------
(* Frames *)

LEMMA LengthBytes ==
    ASSUME NEW n \in Nat, n \in Lengths
    PROVE  /\ MessageLength(n) \in Seq(Byte) /\ Len(MessageLength(n)) = 2
           /\ FromBytes(MessageLength(n)) = n
           /\ \A b \in Seq(Byte) : Len(b) = 2 /\ b[1] = MessageLength(n)[1]
                                   /\ b[2] = MessageLength(n)[2] => b = MessageLength(n)
<1> DEFINE x == n \div 256
           y == n % 256
<1>1. x \in Byte /\ y \in Byte /\ 256 * x + y = n
  BY DEF Byte, Lengths
<1>2. MessageLength(n) = <<x, y>>
  BY Zenon DEF MessageLength
<1> HIDE DEF x, y
<1>3. <<x, y>> \in Seq(Byte) /\ Len(<<x, y>>) = 2 /\ <<x, y>>[1] = x /\ <<x, y>>[2] = y
  BY <1>1
<1>4. FromBytes(<<x, y>>) = n
  BY <1>1, <1>3 DEF FromBytes
<1>5. ASSUME NEW b \in Seq(Byte), Len(b) = 2, b[1] = x, b[2] = y PROVE b = <<x, y>>
  BY <1>5
<1> QED BY <1>2, <1>3, <1>4, <1>5, Zenon

LEMMA FrameBytes ==
    ASSUME NEW raw \in Seq(Byte), Len(raw) \in Lengths
    PROVE  /\ Frame(raw) \in Seq(Byte) /\ Len(Frame(raw)) = 2 + Len(raw)
           /\ Frame(raw)[1] = MessageLength(Len(raw))[1]
           /\ Frame(raw)[2] = MessageLength(Len(raw))[2]
           /\ \A j \in 1..Len(raw) : Frame(raw)[2 + j] = raw[j]
<1> DEFINE a == MessageLength(Len(raw))
<1>1. a \in Seq(Byte) /\ Len(a) = 2
  <2>1. Len(raw) \in Nat
    OBVIOUS
  <2> QED BY <2>1, LengthBytes, Zenon
<1>2. Frame(raw) = a \o raw
  BY Zenon DEF Frame
<1> HIDE DEF a
<1>3. 1 \in 1..2 /\ 2 \in 1..2
  OBVIOUS
<1>4. /\ a \o raw \in Seq(Byte) /\ Len(a \o raw) = Len(a) + Len(raw)
      /\ \A i \in 1..Len(a) : (a \o raw)[i] = a[i]
      /\ \A i \in 1..Len(raw) : (a \o raw)[Len(a) + i] = raw[i]
  BY <1>1, ConcatAt, Zenon
<1>5. (a \o raw)[1] = a[1] /\ (a \o raw)[2] = a[2]
  BY <1>1, <1>3, <1>4, Zenon
<1>6. Len(a \o raw) = 2 + Len(raw) /\ \A j \in 1..Len(raw) : (a \o raw)[2 + j] = raw[j]
  BY <1>1, <1>4, Zenon
<1> QED BY <1>2, <1>4, <1>5, <1>6, Zenon DEF a

\* What the writers send: every message can be framed and read.
LEMMA EncodedBytes ==
    ASSUME NEW m \in Messages
    PROVE  /\ Encoded[m] \in Seq(Byte) /\ 0 < Len(Encoded[m]) /\ Len(Encoded[m]) \in Lengths
           /\ ParseMessage(Encoded[m]) = Normal(m)
<1>1. WellFormed(m) /\ Len(BuildMessage(m)) \in Lengths
  BY MessagesAssumption, Zenon
<1>2. /\ BuildMessage(m) \in Seq(Byte) /\ Len(BuildMessage(m)) > 0
      /\ ParseMessage(BuildMessage(m)) = Normal(m)
  BY <1>1, CodecReturns, Zenon
<1>3. Encoded[m] = BuildMessage(m)
  BY Zenon DEF Encoded
<1>4. 0 < Len(BuildMessage(m))
  BY <1>2
<1> QED BY <1>1, <1>2, <1>3, <1>4, Zenon

-----------------------------------------------------------------------------
(* The inductive invariant *)

\* The frames begun on the connection.
Frames == [i \in 1..Len(started) |-> Frame(Encoded[msg[started[i]]])]

\* What the parser has not had: the header it has taken in, what it has of the
\* message, and what is in flight.
Unread == (IF phase = "body" THEN MessageLength(need) ELSE <<>>) \o chunks \o pipe

\* What the writer of a connection that holds has still to write.
Unwritten == IF lock # NoOne /\ up /\ link[lock] = drops THEN left[lock] ELSE <<>>

\* One writer at a time, and it has the lock.
LockInv == \A s \in Senders : pc[s] = "write" <=> lock = s

\* Nobody has a connection that is still to come.
LinkInv == ~up => \A s \in Senders : link[s] < drops

\* The reader waits for the body of the frame that is next.
BodyInv ==
    phase = "body" =>
        /\ Len(received) < Len(started)
        /\ need = Len(Encoded[msg[started[Len(received) + 1]]])

\* What was read are the messages sent, byte for byte.
ReadInv ==
    /\ Len(received) <= Len(started)
    /\ \A i \in 1..Len(received) : received[i] = Encoded[msg[started[i]]]

\* What was not are the frames that follow, as far as they were written.
StreamInv ==
    /\ Partial(Frames, Len(received), Unread)
    /\ up => Whole(Frames, Len(received), Unread, Unwritten)

IInv == TypeOK /\ LockInv /\ LinkInv /\ BodyInv /\ ReadInv /\ StreamInv

LEMMA FramesTyped ==
    ASSUME TypeOK
    PROVE  /\ Frames \in Seq(Seq(Byte)) /\ Len(Frames) = Len(started)
           /\ \A i \in 1..Len(started) :
                 /\ msg[started[i]] \in Messages
                 /\ Frames[i] = Frame(Encoded[msg[started[i]]])
                 /\ Len(Frames[i]) = 2 + Len(Encoded[msg[started[i]]])
<1>1. started \in Seq(Senders) /\ msg \in [Senders -> Messages]
  BY Zenon DEF TypeOK
<1>2. Len(started) \in Nat
  BY <1>1
<1>3. ASSUME NEW i \in 1..Len(started)
      PROVE  /\ msg[started[i]] \in Messages
             /\ Frame(Encoded[msg[started[i]]]) \in Seq(Byte)
             /\ Len(Frame(Encoded[msg[started[i]]])) = 2 + Len(Encoded[msg[started[i]]])
  <2>1. started[i] \in Senders
    BY <1>1
  <2>2. msg[started[i]] \in Messages
    BY <1>1, <2>1, Zenon
  <2> QED BY <2>2, EncodedBytes, FrameBytes, Zenon
<1>4. Frames \in [1..Len(started) -> Seq(Byte)]
  BY <1>3, Zenon DEF Frames
<1>5. Frames \in Seq(Seq(Byte)) /\ Len(Frames) = Len(started)
  BY <1>2, <1>4
<1>6. \A i \in 1..Len(started) : Frames[i] = Frame(Encoded[msg[started[i]]])
  BY Zenon DEF Frames
<1> QED BY <1>3, <1>5, <1>6, Zenon

LEMMA UnreadTyped ==
    ASSUME TypeOK, BodyInv
    PROVE  /\ Unread \in Seq(Byte)
           /\ phase = "header" => Unread = chunks \o pipe
           /\ phase = "body" => /\ MessageLength(need) \in Seq(Byte)
                                /\ Len(MessageLength(need)) = 2
                                /\ Unread = MessageLength(need) \o chunks \o pipe
<1>1. chunks \in Seq(Byte) /\ pipe \in Seq(Byte) /\ phase \in {"header", "body"}
      /\ received \in Seq(Seq(Byte)) /\ started \in Seq(Senders)
  BY Zenon DEF TypeOK
<1>2. CASE phase = "header"
  <2>1. Unread = <<>> \o chunks \o pipe
    BY <1>2, Zenon DEF Unread
  <2>2. <<>> \o chunks = chunks
    BY <1>1
  <2>3. chunks \o pipe \in Seq(Byte)
    BY <1>1, ConcatAt, Zenon
  <2> QED BY <1>2, <2>1, <2>2, <2>3, Zenon
<1>3. CASE phase = "body"
  <2>1. Unread = MessageLength(need) \o chunks \o pipe
    BY <1>3, Zenon DEF Unread
  <2>2. Len(received) + 1 \in 1..Len(started)
    <3>1. Len(received) \in Nat /\ Len(started) \in Nat /\ Len(received) < Len(started)
      BY <1>1, <1>3 DEF BodyInv
    <3> QED BY <3>1
  <2>3. msg[started[Len(received) + 1]] \in Messages
    BY <2>2, FramesTyped, Zenon
  <2>4. need \in Nat /\ need \in Lengths
    <3>1. Len(Encoded[msg[started[Len(received) + 1]]]) \in Lengths
      BY <2>3, EncodedBytes, Zenon
    <3>2. need \in Lengths
      BY <1>3, <3>1, Zenon DEF BodyInv
    <3> QED BY <3>2 DEF Lengths
  <2>5. MessageLength(need) \in Seq(Byte) /\ Len(MessageLength(need)) = 2
    BY <2>4, LengthBytes, Zenon
  <2>6. MessageLength(need) \o chunks \o pipe \in Seq(Byte)
    BY <1>1, <2>5, BytesConcat, Zenon
  <2> QED BY <1>3, <2>1, <2>5, <2>6, Zenon
<1> QED BY <1>1, <1>2, <1>3, Zenon

LEMMA InitHolds == Init => IInv
<1> SUFFICES ASSUME Init PROVE IInv
  OBVIOUS
<1>1. Len(<<>>) = 0 /\ <<>> \in Seq(Byte) /\ <<>> \in Seq(Senders) /\ <<>> \in Seq(Seq(Byte))
      /\ 0 < 2 /\ 0 \in 0..0 /\ 0 <= 0 /\ 1..0 = {} /\ <<>> \o <<>> = <<>>
  OBVIOUS
<1>2. TypeOK
  BY <1>1, WireAssumption DEF Init, TypeOK, PrefixBytes
<1>3. LockInv /\ LinkInv /\ BodyInv
  BY WireAssumption DEF Init, LockInv, LinkInv, BodyInv
<1>4. ReadInv
  BY <1>1, Zenon DEF Init, ReadInv
<1>5. StreamInv
  <2>1. Frames = <<>>
    <3>1. Frames \in Seq(Seq(Byte)) /\ Len(Frames) = Len(started)
      BY <1>2, FramesTyped, Zenon
    <3>2. Len(Frames) = 0
      BY <1>1, <3>1, Zenon DEF Init
    <3> QED BY <3>1, <3>2
  <2>2. Unread = <<>>
    BY <1>1, Zenon DEF Init, Unread
  <2>3. Unwritten = <<>>
    BY Zenon DEF Init, Unwritten
  <2>4. Whole(<<>>, 0, <<>>, <<>>) /\ Partial(<<>>, 0, <<>>)
    BY NothingIsWhole, WholeIsPartial, Zenon
  <2> QED BY <1>1, <2>1, <2>2, <2>3, <2>4, Zenon DEF Init, StreamInv
<1> QED BY <1>2, <1>3, <1>4, <1>5 DEF IInv

LEMMA AppendIs ==
    ASSUME NEW f \in Seq(Seq(Byte)), NEW g \in Seq(Byte)
    PROVE  Append(f, g) = [i \in 1..(Len(f) + 1) |-> IF i = Len(f) + 1 THEN g ELSE f[i]]
<1> DEFINE n == Len(f)
           h == [i \in 1..(n + 1) |-> IF i = n + 1 THEN g ELSE f[i]]
           a == Append(f, g)
<1>1. n \in Nat /\ \A i \in 1..n : f[i] \in Seq(Byte)
  OBVIOUS
<1>2. a \in Seq(Seq(Byte)) /\ Len(a) = n + 1 /\ \A i \in 1..(n + 1) : a[i] = h[i]
  OBVIOUS
<1> HIDE DEF n
<1>3. h \in [1..(n + 1) -> Seq(Byte)]
  <2>1. \A i \in 1..(n + 1) : i # n + 1 => i \in 1..n
    BY <1>1
  <2> QED BY <1>1, <2>1, Zenon
<1> HIDE DEF h, a
<1>4. h \in Seq(Seq(Byte)) /\ Len(h) = n + 1
  BY <1>1, <1>3
<1>5. a = h
  BY <1>2, <1>4, SeqEqual, Zenon
<1> QED BY <1>5 DEF a, h, n

LEMMA RefusedKeeps ==
    ASSUME IInv, NEW s \in Senders, Refused(s)
    PROVE  IInv'
<1> USE DEF IInv
<1>1. /\ pc[s] = "ready" /\ pc' = [pc EXCEPT ![s] = "failed"]
      /\ pc \in [Senders -> {"ready", "write", "sent", "failed"}]
      /\ UNCHANGED <<msg, left, link, lock, started, up, drops, pipe, phase, need, chunks, received>>
  BY DEF Refused, GoTo, TypeOK, readerVars
<1>2. \A t \in Senders : pc'[t] = "write" <=> pc[t] = "write"
  BY <1>1
<1>3. TypeOK'
  <2>1. pc' \in [Senders -> {"ready", "write", "sent", "failed"}]
    BY <1>1 DEF TypeOK
  <2> QED BY <1>1, <1>2, <2>1, Zenon DEF TypeOK
<1>4. LockInv' /\ LinkInv'
  BY <1>1, <1>2, Zenon DEF LockInv, LinkInv
<1>5. BodyInv' /\ ReadInv' /\ Frames' = Frames
  BY <1>1, Zenon DEF BodyInv, ReadInv, Frames
<1>6. StreamInv'
  <2>1. Unread' = Unread /\ Unwritten' = Unwritten
    BY <1>1, Zenon DEF Unread, Unwritten
  <2> QED BY <1>1, <1>5, <2>1, Zenon DEF StreamInv
<1> QED BY <1>3, <1>4, <1>5, <1>6

LEMMA BeginKeeps ==
    ASSUME IInv, NEW s \in Senders, Begin(s)
    PROVE  IInv'
<1> DEFINE g == Frame(Encoded[msg[s]])
<1> USE DEF IInv
<1>1. /\ pc[s] = "ready" /\ lock = NoOne /\ lock' = s
      /\ pc' = [pc EXCEPT ![s] = "write"] /\ left' = [left EXCEPT ![s] = g]
      /\ link' = [link EXCEPT ![s] = Current]
      /\ started' = (IF up THEN Append(started, s) ELSE started)
      /\ UNCHANGED <<msg, up, drops, pipe, phase, need, chunks, received>>
  BY DEF Begin, GoTo, readerVars
<1>2. /\ pc \in [Senders -> {"ready", "write", "sent", "failed"}]
      /\ left \in [Senders -> Seq(Byte)] /\ link \in [Senders -> 0..drops]
      /\ msg \in [Senders -> Messages] /\ started \in Seq(Senders) /\ drops \in Nat
      /\ received \in Seq(Seq(Byte)) /\ up \in BOOLEAN
  BY WireAssumption DEF TypeOK
<1>3. g \in Seq(Byte) /\ Len(g) = 2 + Len(Encoded[msg[s]]) /\ g # <<>>
  <2>1. msg[s] \in Messages
    BY <1>2, Zenon
  <2>2. Encoded[msg[s]] \in Seq(Byte) /\ Len(Encoded[msg[s]]) \in Lengths
    BY <2>1, EncodedBytes, Zenon
  <2>3. g \in Seq(Byte) /\ Len(g) = 2 + Len(Encoded[msg[s]])
    BY <2>2, FrameBytes, Zenon
  <2> HIDE DEF g
  <2>4. Len(g) # 0
    <3> DEFINE l == Len(Encoded[msg[s]])
    <3>1. l \in Nat /\ Len(g) = 2 + l
      BY <2>2, <2>3
    <3> HIDE DEF l
    <3> QED BY <3>1
  <2> QED BY <2>3, <2>4
<1> HIDE DEF g
<1>4. Current \in 0..drops /\ (~up => Current < drops) /\ (up => Current = drops)
  <2>1. CASE up
    BY <1>2, <2>1 DEF Current
  <2>2. CASE ~up
    <3>1. link[s] < drops /\ link[s] \in 0..drops
      BY <1>2, <2>2, Zenon DEF LinkInv
    <3> QED BY <1>2, <2>2, <3>1 DEF Current
  <2> QED BY <1>2, <2>1, <2>2
<1>5. pc' \in [Senders -> {"ready", "write", "sent", "failed"}]
      /\ pc'[s] = "write" /\ left'[s] = g /\ link'[s] = Current
      /\ left' \in [Senders -> Seq(Byte)] /\ link' \in [Senders -> 0..drops]
      /\ \A t \in Senders : t # s => pc'[t] = pc[t] /\ left'[t] = left[t] /\ link'[t] = link[t]
  BY <1>1, <1>2, <1>3, <1>4
<1>6. started' \in Seq(Senders)
  BY <1>1, <1>2
<1>7. TypeOK'
  <2>1. \A t \in Senders : pc'[t] = "write" <=> left'[t] # <<>>
    BY <1>3, <1>5, Zenon DEF TypeOK
  <2>2. link' \in [Senders -> (0..drops)']
    BY <1>1, <1>5, Zenon
  <2> QED BY <1>1, <1>5, <1>6, <2>1, <2>2, Zenon DEF TypeOK
<1>8. LockInv'
  <2>1. \A t \in Senders : pc[t] # "write"
    BY <1>1, WireAssumption, Zenon DEF LockInv
  <2> QED BY <1>1, <1>5, <2>1, Zenon DEF LockInv
<1>9. LinkInv'
  BY <1>1, <1>4, <1>5, Zenon DEF LinkInv
<1>10. /\ Len(started) \in Nat /\ Len(received) \in Nat
       /\ Len(started) <= Len(started') /\ Len(started') \in Nat
       /\ \A i \in 1..Len(started) : started'[i] = started[i]
  BY <1>1, <1>2
<1>11. BodyInv' /\ ReadInv'
  <2>1. Len(received) <= Len(started)
    BY DEF ReadInv
  <2>2. \A i \in 1..Len(received) : i \in 1..Len(started)
    BY <1>10, <2>1
  <2>3. Len(received) <= Len(started')
    BY <1>10, <2>1
  <2>4. Len(received) < Len(started) => Len(received) < Len(started') /\ Len(received) + 1 \in 1..Len(started)
    BY <1>10
  <2>5. ReadInv'
    BY <1>1, <1>10, <2>2, <2>3, Zenon DEF ReadInv
  <2>6. BodyInv'
    BY <1>1, <1>10, <2>4, Zenon DEF BodyInv
  <2> QED BY <2>5, <2>6
<1>12. Unread' = Unread
  BY <1>1, Zenon DEF Unread
<1>13. Unread \in Seq(Byte) /\ Frames \in Seq(Seq(Byte)) /\ Len(Frames) = Len(started)
  BY UnreadTyped, FramesTyped, Zenon
<1>14. CASE up
  <2>1. Frames' = Append(Frames, g)
    <3>1. Frames' = [i \in 1..(Len(started) + 1) |-> Frame(Encoded[msg[Append(started, s)[i]]])]
      <4>1. started' = Append(started, s) /\ Len(Append(started, s)) = Len(started) + 1
        BY <1>1, <1>2, <1>14
      <4> QED BY <1>1, <4>1, Zenon DEF Frames
    <3>2. \A i \in 1..(Len(started) + 1) :
             Append(started, s)[i] = IF i = Len(started) + 1 THEN s ELSE started[i]
      BY <1>2
    <3>3. Frames' = [i \in 1..(Len(started) + 1) |->
                        IF i = Len(started) + 1 THEN g ELSE Frame(Encoded[msg[started[i]]])]
      BY <3>1, <3>2, Zenon DEF g
    <3>4. \A i \in 1..Len(started) : Frames[i] = Frame(Encoded[msg[started[i]]])
      BY FramesTyped, Zenon
    <3>5. Append(Frames, g) = [i \in 1..(Len(started) + 1) |->
                                 IF i = Len(started) + 1 THEN g ELSE Frames[i]]
      <4>1. Append(Frames, g) = [i \in 1..(Len(Frames) + 1) |->
                                   IF i = Len(Frames) + 1 THEN g ELSE Frames[i]]
        BY <1>3, <1>13, AppendIs, Zenon
      <4>2. Len(Frames) = Len(started)
        BY <1>13, Zenon
      <4> HIDE DEF IInv
      <4> QED BY <4>1, <4>2, Zenon
    <3>6. \A i \in 1..(Len(started) + 1) : i # Len(started) + 1 => i \in 1..Len(started)
      BY <1>10
    <3> QED BY <3>3, <3>4, <3>5, <3>6, Zenon
  <2>2. Unwritten = <<>> /\ Unwritten' = g
    <3>1. Unwritten = <<>>
      BY <1>1, Zenon DEF Unwritten
    <3>2. lock' = s /\ s # NoOne /\ up' /\ link'[s] = drops' /\ left'[s] = g
      BY <1>1, <1>4, <1>5, <1>14, WireAssumption, Zenon
    <3> QED BY <3>1, <3>2, Zenon DEF Unwritten
  <2>3. Whole(Frames, Len(received), Unread, <<>>)
    BY <1>14, <2>2, Zenon DEF StreamInv
  <2>4. Whole(Append(Frames, g), Len(received), Unread, g)
    BY <1>3, <1>13, <2>3, WholeBegins, Zenon
  <2>5. StreamInv'
    BY <1>1, <1>12, <2>1, <2>2, <2>4, WholeIsPartial, Zenon DEF StreamInv
  <2> QED BY <1>7, <1>8, <1>9, <1>11, <2>5
<1>15. CASE ~up
  <2>1. Frames' = Frames
    BY <1>1, <1>15, Zenon DEF Frames
  <2>2. StreamInv'
    BY <1>1, <1>12, <1>15, <2>1, Zenon DEF StreamInv
  <2> QED BY <1>7, <1>8, <1>9, <1>11, <2>2
<1> QED BY <1>14, <1>15

LEMMA PieceSizes ==
    ASSUME NEW n \in Nat, NEW k \in Pieces(n)
    PROVE  k \in 1..n
<1>1. k = n \/ k = (n + 1) \div 2
  BY DEF Pieces
<1>2. k # 0
  BY DEF Pieces
<1> QED BY <1>1, <1>2

LEMMA WriteKeeps ==
    ASSUME IInv, NEW s \in Senders, NEW k \in Pieces(Len(left[s])), Write(s, k)
    PROVE  IInv'
<1> DEFINE rest == left[s]
           front == Slice(rest, 0, k)
           back == Slice(rest, k, Len(rest))
           over == k = Len(rest)
<1> USE DEF IInv
<1>1. /\ pc[s] = "write"
      /\ pipe' = (IF Live(s) THEN pipe \o front ELSE pipe)
      /\ left' = [left EXCEPT ![s] = back]
      /\ pc' = (IF over THEN [pc EXCEPT ![s] = "sent"] ELSE pc)
      /\ lock' = (IF over THEN NoOne ELSE lock)
      /\ UNCHANGED <<msg, link, started, up, drops, phase, need, chunks, received>>
  BY DEF Write, GoTo, readerVars
<1>2. /\ pc \in [Senders -> {"ready", "write", "sent", "failed"}]
      /\ left \in [Senders -> Seq(Byte)] /\ pipe \in Seq(Byte) /\ chunks \in Seq(Byte)
  BY DEF TypeOK
<1>3. lock = s /\ \A t \in Senders : t # s => pc[t] # "write"
  BY <1>1, Zenon DEF LockInv
<1>4. rest \in Seq(Byte) /\ Len(rest) \in Nat /\ k \in 1..Len(rest) /\ k \in 0..Len(rest)
  <2>1. rest \in Seq(Byte)
    BY <1>2, Zenon
  <2>2. Len(rest) \in Nat
    BY <2>1
  <2>3. k \in 1..Len(rest)
    BY <2>2, PieceSizes, Zenon
  <2> HIDE DEF rest
  <2>4. k \in 0..Len(rest)
    BY <2>2, <2>3
  <2> QED BY <2>1, <2>2, <2>3, <2>4
<1>5. /\ front \in Seq(Byte) /\ back \in Seq(Byte) /\ Len(back) = Len(rest) - k
  BY <1>4, FrontOf, BackOf, Zenon
<1> HIDE DEF front, back
<1>6. back = <<>> <=> over
  <2> DEFINE z == Len(rest)
  <2>1. Len(back) = z - k /\ z \in Nat /\ k \in 1..z /\ (over <=> k = z)
    BY <1>4, <1>5, Zenon
  <2> HIDE DEF rest, z, over
  <2>2. Len(back) = 0 <=> k = z
    BY <2>1
  <2>3. back = <<>> <=> Len(back) = 0
    BY <1>5
  <2> QED BY <2>1, <2>2, <2>3, Zenon
<1> HIDE DEF rest, over
<1>7. /\ left' \in [Senders -> Seq(Byte)] /\ left'[s] = back
      /\ \A t \in Senders : t # s => left'[t] = left[t]
  BY <1>1, <1>2, <1>5
<1>8. /\ pc' \in [Senders -> {"ready", "write", "sent", "failed"}]
      /\ pc'[s] = "write" <=> ~over
      /\ \A t \in Senders : t # s => pc'[t] = pc[t]
  <2>1. CASE over
    BY <1>1, <1>2, <2>1
  <2>2. CASE ~over
    BY <1>1, <1>2, <2>2
  <2> QED BY <2>1, <2>2
<1>9. TypeOK'
  <2>1. \A t \in Senders : pc'[t] = "write" <=> left'[t] # <<>>
    BY <1>6, <1>7, <1>8, Zenon DEF TypeOK
  <2>2. pipe' \in Seq(Byte)
    BY <1>1, <1>2, <1>5, BytesConcat, Zenon
  <2>3. lock' \in Senders \cup {NoOne}
    BY <1>1, <1>3, Zenon
  <2> QED BY <1>1, <1>7, <1>8, <2>1, <2>2, <2>3, Zenon DEF TypeOK
<1>10. LockInv'
  <2>1. CASE over
    BY <1>1, <1>3, <1>8, <2>1, WireAssumption, Zenon DEF LockInv
  <2>2. CASE ~over
    BY <1>1, <1>3, <1>8, <2>2, Zenon DEF LockInv
  <2> QED BY <2>1, <2>2
<1>11. LinkInv' /\ BodyInv' /\ ReadInv' /\ Frames' = Frames
  BY <1>1, Zenon DEF LinkInv, BodyInv, ReadInv, Frames
<1>12. Unread \in Seq(Byte) /\ Frames \in Seq(Seq(Byte))
  BY UnreadTyped, FramesTyped, Zenon
<1>13. CASE Live(s)
  <2>1. up /\ Unwritten = rest
    BY <1>3, <1>13, WireAssumption, Zenon DEF Live, Unwritten, rest
  <2>2. Unwritten' = back
    <3>1. CASE over
      BY <1>1, <1>6, <3>1, Zenon DEF Unwritten
    <3>2. CASE ~over
      <4>1. lock' = s /\ up' /\ link'[s] = drops' /\ s # NoOne
        BY <1>1, <1>3, <1>13, <3>2, WireAssumption, Zenon DEF Live
      <4> QED BY <1>7, <4>1, Zenon DEF Unwritten
    <3> QED BY <3>1, <3>2
  <2>3. Unread' = Unread \o front
    <3>1. pipe' = pipe \o front
      BY <1>1, <1>13, Zenon
    <3>2. CASE phase = "header"
      <4>1. Unread = <<>> \o chunks \o pipe /\ Unread' = <<>> \o chunks \o (pipe \o front)
        BY <1>1, <3>1, <3>2, Zenon DEF Unread
      <4> DEFINE held == <<>> \o chunks
      <4>2. held \in Seq(Byte)
        BY <1>2, BytesConcat, Zenon
      <4>3. Unread = held \o pipe /\ Unread' = held \o (pipe \o front)
        BY <4>1, Zenon
      <4> HIDE DEF held
      <4>4. pipe \in Seq(Byte) /\ front \in Seq(Byte)
        BY <1>2, <1>5, Zenon
      <4>5. held \o (pipe \o front) = (held \o pipe) \o front
        BY <4>2, <4>4, BytesConcat, Zenon
      <4> QED BY <4>3, <4>5, Zenon
    <3>3. CASE phase = "body"
      <4> DEFINE head == MessageLength(need)
      <4>1. head \in Seq(Byte)
        BY <3>3, UnreadTyped, Zenon
      <4>2. Unread = head \o chunks \o pipe /\ Unread' = head \o chunks \o (pipe \o front)
        BY <1>1, <3>1, <3>3, Zenon DEF Unread
      <4> HIDE DEF head
      <4> DEFINE held == head \o chunks
      <4>3. held \in Seq(Byte)
        BY <1>2, <4>1, BytesConcat, Zenon
      <4>4. Unread = held \o pipe /\ Unread' = held \o (pipe \o front)
        BY <4>2, Zenon
      <4> HIDE DEF held
      <4>5. pipe \in Seq(Byte) /\ front \in Seq(Byte)
        BY <1>2, <1>5, Zenon
      <4>6. held \o (pipe \o front) = (held \o pipe) \o front
        BY <4>3, <4>5, BytesConcat, Zenon
      <4> QED BY <4>4, <4>6, Zenon
    <3> QED BY <3>2, <3>3 DEF TypeOK
  <2>4. Whole(Frames, Len(received), Unread, rest)
    BY <2>1, Zenon DEF StreamInv
  <2>5. Whole(Frames, Len(received), Unread \o front, back)
    BY <1>4, <1>12, <2>4, WholeGoesOn, Zenon DEF front, back
  <2>6. StreamInv'
    BY <1>1, <1>11, <2>1, <2>2, <2>3, <2>5, WholeIsPartial, Zenon DEF StreamInv
  <2> QED BY <1>9, <1>10, <1>11, <2>6
<1>14. CASE ~Live(s)
  <2>1. Unread' = Unread
    BY <1>1, <1>14, Zenon DEF Unread
  <2>2. Unwritten = <<>> /\ Unwritten' = <<>>
    BY <1>1, <1>3, <1>14, Zenon DEF Live, Unwritten
  <2>3. StreamInv'
    BY <1>1, <1>11, <2>1, <2>2, Zenon DEF StreamInv
  <2> QED BY <1>9, <1>10, <1>11, <2>3
<1> QED BY <1>13, <1>14

LEMMA WriteFailsKeeps ==
    ASSUME IInv, NEW s \in Senders, WriteFails(s)
    PROVE  IInv'
<1> USE DEF IInv
<1>1. /\ pc[s] = "write" /\ ~Live(s) /\ lock' = NoOne
      /\ left' = [left EXCEPT ![s] = <<>>] /\ pc' = [pc EXCEPT ![s] = "failed"]
      /\ UNCHANGED <<msg, link, started, up, drops, pipe, phase, need, chunks, received>>
  BY DEF WriteFails, GoTo, readerVars
<1>2. /\ pc \in [Senders -> {"ready", "write", "sent", "failed"}]
      /\ left \in [Senders -> Seq(Byte)]
  BY DEF TypeOK
<1>3. lock = s /\ \A t \in Senders : t # s => pc[t] # "write"
  BY <1>1, Zenon DEF LockInv
<1>4. /\ left' \in [Senders -> Seq(Byte)] /\ left'[s] = <<>>
      /\ \A t \in Senders : t # s => left'[t] = left[t]
  BY <1>1, <1>2
<1>5. /\ pc' \in [Senders -> {"ready", "write", "sent", "failed"}] /\ pc'[s] # "write"
      /\ \A t \in Senders : t # s => pc'[t] = pc[t]
  BY <1>1, <1>2
<1>6. TypeOK'
  <2>1. \A t \in Senders : pc'[t] = "write" <=> left'[t] # <<>>
    BY <1>4, <1>5, Zenon DEF TypeOK
  <2>2. lock' \in Senders \cup {NoOne}
    BY <1>1, Zenon
  <2> QED BY <1>1, <1>4, <1>5, <2>1, <2>2, Zenon DEF TypeOK
<1>7. LockInv'
  BY <1>1, <1>3, <1>5, WireAssumption, Zenon DEF LockInv
<1>8. LinkInv' /\ BodyInv' /\ ReadInv' /\ Frames' = Frames /\ Unread' = Unread
  BY <1>1, Zenon DEF LinkInv, BodyInv, ReadInv, Frames, Unread
<1>9. Unwritten = <<>> /\ Unwritten' = <<>>
  BY <1>1, <1>3, Zenon DEF Live, Unwritten
<1>10. StreamInv'
  BY <1>1, <1>8, <1>9, Zenon DEF StreamInv
<1> QED BY <1>6, <1>7, <1>8, <1>10

LEMMA DropKeeps ==
    ASSUME IInv, Drop
    PROVE  IInv'
<1> USE DEF IInv
<1>1. /\ up /\ drops < MaxDrops /\ ~up' /\ up' = FALSE /\ drops' = drops + 1
      /\ pipe' \in {pipe, <<>>}
      /\ UNCHANGED <<msg, pc, left, link, lock, started, phase, need, chunks, received>>
  BY DEF Drop, senderVars, readerVars
<1>2. /\ link \in [Senders -> 0..drops] /\ drops \in 0..MaxDrops /\ pipe \in Seq(Byte)
      /\ chunks \in Seq(Byte)
  BY DEF TypeOK
<1>3. \A s \in Senders : link[s] \in 0..drops' /\ link[s] < drops'
  BY <1>1, <1>2, WireAssumption
<1>4. TypeOK'
  <2>1. link' \in [Senders -> 0..drops']
    BY <1>1, <1>2, <1>3
  <2>2. drops' \in 0..MaxDrops /\ pipe' \in Seq(Byte)
    <3>1. drops + 1 \in 0..MaxDrops
      BY <1>1, <1>2, WireAssumption
    <3>2. <<>> \in Seq(Byte)
      OBVIOUS
    <3> QED BY <1>1, <1>2, <3>1, <3>2, Zenon
  <2> QED BY <1>1, <2>1, <2>2, Zenon DEF TypeOK
<1>5. LockInv' /\ LinkInv' /\ BodyInv' /\ ReadInv' /\ Frames' = Frames
  BY <1>1, <1>3, Zenon DEF LockInv, LinkInv, BodyInv, ReadInv, Frames
<1>6. Unread \in Seq(Byte) /\ Frames \in Seq(Seq(Byte))
  BY UnreadTyped, FramesTyped, Zenon
<1>7. Partial(Frames, Len(received), Unread')
  <2>1. CASE pipe' = pipe
    <3>1. Unread' = Unread
      BY <1>1, <2>1, Zenon DEF Unread
    <3> QED BY <3>1, Zenon DEF StreamInv
  <2>2. CASE pipe' = <<>>
    <3> DEFINE front == (IF phase = "body" THEN MessageLength(need) ELSE <<>>) \o chunks
    <3>1. Unread = front \o pipe /\ Unread' = front \o <<>>
      BY <1>1, <2>2, Zenon DEF Unread
    <3>2. front \in Seq(Byte)
      <4>1. CASE phase = "header"
        BY <1>2, <4>1, BytesConcat, Zenon
      <4>2. CASE phase = "body"
        <5>1. MessageLength(need) \in Seq(Byte)
          BY <4>2, UnreadTyped, Zenon
        <5> QED BY <1>2, <4>2, <5>1, BytesConcat, Zenon
      <4> QED BY <4>1, <4>2, Zenon DEF TypeOK
    <3> HIDE DEF front
    <3>3. Unread' = front
      BY <3>1, <3>2, BytesConcat, Zenon
    <3>4. /\ Len(Unread) = Len(front) + Len(pipe)
          /\ \A i \in 1..Len(front) : Unread[i] = front[i]
      BY <1>2, <3>1, <3>2, ConcatAt, Zenon
    <3>5. Len(front) <= Len(Unread)
      <4>1. Len(front) \in Nat /\ Len(pipe) \in Nat
        BY <1>2, <3>2
      <4> QED BY <3>4, <4>1
    <3>6. Partial(Frames, Len(received), front)
      <4>1. Partial(Frames, Len(received), Unread)
        BY Zenon DEF StreamInv
      <4>2. \A i \in 1..Len(front) : front[i] = Unread[i]
        BY <3>4, Zenon
      <4> QED BY <1>6, <3>2, <3>5, <4>1, <4>2, PartialLess, Zenon
    <3> QED BY <3>3, <3>6, Zenon
  <2> QED BY <1>1, <2>1, <2>2, Zenon
<1>8. StreamInv'
  BY <1>1, <1>5, <1>7, Zenon DEF StreamInv
<1> QED BY <1>4, <1>5, <1>8

LEMMA ReconnectKeeps ==
    ASSUME IInv, Reconnect
    PROVE  IInv'
<1> USE DEF IInv
<1>1. /\ ~up /\ pipe = <<>> /\ up' = TRUE /\ phase' = "header" /\ need' = PrefixBytes
      /\ chunks' = <<>> /\ started' = <<>> /\ received' = <<>>
      /\ UNCHANGED <<msg, pc, left, link, lock, drops, pipe>>
  BY DEF Reconnect
<1>2. /\ link \in [Senders -> 0..drops] /\ drops \in Nat
      /\ \A s \in Senders : link[s] # drops
  <2>1. link \in [Senders -> 0..drops] /\ drops \in Nat
    BY WireAssumption DEF TypeOK
  <2>2. \A s \in Senders : link[s] < drops
    BY <1>1 DEF LinkInv
  <2>3. \A s \in Senders : link[s] # drops
    BY <2>1, <2>2
  <2> QED BY <2>1, <2>3
<1>3. /\ Len(<<>>) = 0 /\ <<>> \in Seq(Byte) /\ <<>> \in Seq(Senders) /\ <<>> \in Seq(Seq(Byte))
      /\ 0 < 2 /\ 0 <= 0 /\ 1..0 = {} /\ <<>> \o <<>> = <<>>
  OBVIOUS
<1>4. TypeOK'
  BY <1>1, <1>3, Zenon DEF TypeOK, PrefixBytes
<1>5. LockInv' /\ LinkInv' /\ BodyInv'
  BY <1>1, Zenon DEF LockInv, LinkInv, BodyInv
<1>6. ReadInv'
  BY <1>1, <1>3, Zenon DEF ReadInv
<1>7. StreamInv'
  <2>1. Frames' = <<>>
    <3>1. Frames' = [i \in 1..0 |-> Frame(Encoded[msg'[started'[i]]])]
      BY <1>1, <1>3, Zenon DEF Frames
    <3> DEFINE F(i) == Frame(Encoded[msg'[started'[i]]])
    <3>2. [i \in 1..0 |-> F(i)] = <<>>
      <4> HIDE DEF F
      <4> QED OBVIOUS
    <3> QED BY <3>1, <3>2, Zenon
  <2>2. Unread' = <<>>
    BY <1>1, <1>3, Zenon DEF Unread
  <2>3. Unwritten' = <<>>
    <3>1. CASE lock = NoOne
      BY <1>1, <3>1, Zenon DEF Unwritten
    <3>2. CASE lock \in Senders
      BY <1>1, <1>2, <3>2, Zenon DEF Unwritten
    <3> QED BY <3>1, <3>2, Zenon DEF TypeOK
  <2>4. Whole(<<>>, 0, <<>>, <<>>) /\ Partial(<<>>, 0, <<>>)
    BY NothingIsWhole, WholeIsPartial, Zenon
  <2>5. Len(received') = 0
    BY <1>1, <1>3, Zenon
  <2> QED BY <2>1, <2>2, <2>3, <2>4, <2>5, Zenon DEF StreamInv
<1> QED BY <1>4, <1>5, <1>6, <1>7

\* What is common to the outcomes of one recv(): bytes were taken off the pipe.
LEMMA ReceiveTakes ==
    ASSUME IInv, NEW k \in Pieces(Len(pipe)) \cup Pieces(Smaller(need - Len(chunks), Len(pipe))),
           Receive(k)
    PROVE  LET bytes == chunks \o Slice(pipe, 0, k)
           IN  /\ bytes \in Seq(Byte) /\ pipe' \in Seq(Byte) /\ bytes \o pipe' = chunks \o pipe
               /\ need \in Nat /\ Len(bytes) <= need
               /\ UNCHANGED <<senderVars, up, drops>>
               /\ pipe' = Slice(pipe, k, Len(pipe))
               /\ IF Len(bytes) = need THEN Complete(bytes)
                  ELSE chunks' = bytes /\ UNCHANGED <<phase, need, received>>
<1> DEFINE front == Slice(pipe, 0, k)
           back == Slice(pipe, k, Len(pipe))
           bytes == chunks \o front
<1>1. /\ k <= Len(pipe) /\ Len(bytes) <= need /\ pipe' = back
      /\ UNCHANGED <<senderVars, up, drops>>
      /\ IF Len(bytes) = need THEN Complete(bytes)
         ELSE chunks' = bytes /\ UNCHANGED <<phase, need, received>>
  BY Zenon DEF Receive
<1>2. /\ pipe \in Seq(Byte) /\ chunks \in Seq(Byte) /\ phase \in {"header", "body"}
      /\ (phase = "header" => need = PrefixBytes)
  BY DEF IInv, TypeOK
<1>3. need \in Nat
  <2>1. CASE phase = "header"
    BY <1>2, <2>1 DEF PrefixBytes
  <2>2. CASE phase = "body"
    <3>1. Len(received) \in Nat /\ Len(started) \in Nat /\ Len(received) < Len(started)
      BY <2>2 DEF IInv, TypeOK, BodyInv
    <3>2. Len(received) + 1 \in 1..Len(started)
      BY <3>1
    <3>3. Encoded[msg[started[Len(received) + 1]]] \in Seq(Byte)
      BY <3>2, FramesTyped, EncodedBytes, Zenon DEF IInv
    <3>4. Len(Encoded[msg[started[Len(received) + 1]]]) \in Nat
      BY <3>3
    <3> QED BY <2>2, <3>4, Zenon DEF IInv, BodyInv
  <2> QED BY <1>2, <2>1, <2>2
<1>4. k \in 0..Len(pipe)
  <2>1. Len(pipe) \in Nat /\ Len(chunks) \in Nat
    BY <1>2
  <2>2. k = Len(pipe) \/ k = (Len(pipe) + 1) \div 2
        \/ k = Smaller(need - Len(chunks), Len(pipe))
        \/ k = (Smaller(need - Len(chunks), Len(pipe)) + 1) \div 2
    BY Zenon DEF Pieces
  <2>3. need - Len(chunks) \in Nat
    <3>1. Len(chunks) < need
      BY DEF IInv, TypeOK
    <3> QED BY <1>3, <2>1, <3>1
  <2> DEFINE n == Len(pipe)
             m == need - Len(chunks)
  <2>4. n \in Nat /\ m \in Nat
    BY <2>1, <2>3, Zenon
  <2>5. k = n \/ k = (n + 1) \div 2 \/ k = Smaller(m, n) \/ k = (Smaller(m, n) + 1) \div 2
    BY <2>2, Zenon
  <2>6. k <= n
    BY <1>1, Zenon
  <2> HIDE DEF n, m
  <2>7. k \in 0..n
    BY <2>4, <2>5, <2>6 DEF Smaller
  <2> QED BY <2>7, Zenon DEF n
<1>5. front \in Seq(Byte) /\ back \in Seq(Byte) /\ front \o back = pipe
  BY <1>2, <1>4, FrontOf, BackOf, FrontAndBack, Zenon
<1> HIDE DEF front, back
<1>6. bytes \in Seq(Byte) /\ bytes \o back = chunks \o pipe
  <2>1. bytes = chunks \o front
    BY Zenon DEF front
  <2> HIDE DEF bytes
  <2>2. chunks \in Seq(Byte) /\ front \in Seq(Byte) /\ back \in Seq(Byte)
    BY <1>2, <1>5, Zenon
  <2>3. chunks \o front \in Seq(Byte)
    BY <2>2, BytesConcat, Zenon
  <2>4. (chunks \o front) \o back = chunks \o (front \o back)
    BY <2>2, BytesConcat, Zenon
  <2> QED BY <1>5, <2>1, <2>3, <2>4, Zenon
<1> QED BY <1>1, <1>3, <1>6, <1>5, Zenon DEF front, back

LEMMA ReceiveKeeps ==
    ASSUME IInv, NEW k \in Pieces(Len(pipe)) \cup Pieces(Smaller(need - Len(chunks), Len(pipe))),
           Receive(k)
    PROVE  IInv'
<1> DEFINE bytes == chunks \o Slice(pipe, 0, k)
           r == Len(received)
           next == Encoded[msg[started[r + 1]]]
<1> USE DEF IInv
<1>1. /\ bytes \in Seq(Byte) /\ pipe' \in Seq(Byte) /\ bytes \o pipe' = chunks \o pipe
      /\ need \in Nat /\ Len(bytes) <= need
      /\ UNCHANGED <<msg, pc, left, link, lock, started, up, drops>>
      /\ IF Len(bytes) = need THEN Complete(bytes)
         ELSE chunks' = bytes /\ UNCHANGED <<phase, need, received>>
  BY ReceiveTakes, Zenon DEF senderVars
<1> HIDE DEF bytes
<1>2. /\ pipe \in Seq(Byte) /\ chunks \in Seq(Byte) /\ received \in Seq(Seq(Byte))
      /\ started \in Seq(Senders) /\ phase \in {"header", "body"} /\ Len(bytes) \in Nat
  BY <1>1 DEF TypeOK
<1>3. LockInv' /\ LinkInv' /\ Frames' = Frames /\ Unwritten' = Unwritten
  BY <1>1, Zenon DEF LockInv, LinkInv, Frames, Unwritten
<1>4. Unread \in Seq(Byte) /\ Frames \in Seq(Seq(Byte)) /\ Len(Frames) = Len(started)
  BY UnreadTyped, FramesTyped, Zenon
<1>5. Partial(Frames, r, Unread)
  BY Zenon DEF StreamInv
<1> DEFINE Typed == /\ phase' \in {"header", "body"} /\ chunks' \in Seq(Byte)
                    /\ Len(chunks') < need' /\ (phase' = "header" => need' = PrefixBytes)
                    /\ received' \in Seq(Seq(Byte))
<1>6. Typed => TypeOK'
  BY <1>1, Zenon DEF TypeOK
<1>7. CASE Len(bytes) # need
  <2>1. chunks' = bytes /\ UNCHANGED <<phase, need, received>>
    BY <1>1, <1>7, Zenon
  <2>2. Len(bytes) < need
    BY <1>1, <1>2, <1>7
  <2>3. TypeOK'
    BY <1>1, <1>6, <2>1, <2>2, Zenon DEF TypeOK
  <2>4. BodyInv' /\ ReadInv'
    BY <1>1, <2>1, Zenon DEF BodyInv, ReadInv
  <2>5. Unread' = Unread
    <3>1. CASE phase = "header"
      <4>1. Unread = <<>> \o chunks \o pipe /\ Unread' = <<>> \o bytes \o pipe'
        BY <2>1, <3>1, Zenon DEF Unread
      <4>2. <<>> \o chunks = chunks /\ <<>> \o bytes = bytes
        BY <1>1, <1>2
      <4> QED BY <1>1, <4>1, <4>2, Zenon
    <3>2. CASE phase = "body"
      <4> DEFINE head == MessageLength(need)
      <4>1. head \in Seq(Byte)
        BY <3>2, UnreadTyped, Zenon
      <4>2. Unread = head \o chunks \o pipe /\ Unread' = head \o bytes \o pipe'
        BY <2>1, <3>2, Zenon DEF Unread
      <4> HIDE DEF head
      <4>3. head \o chunks \o pipe = head \o (chunks \o pipe)
        BY <1>2, <4>1, BytesConcat, Zenon
      <4>4. head \o bytes \o pipe' = head \o (bytes \o pipe')
        BY <1>1, <4>1, BytesConcat, Zenon
      <4> QED BY <1>1, <4>2, <4>3, <4>4, Zenon
    <3> QED BY <1>2, <3>1, <3>2
  <2>6. StreamInv'
    BY <1>1, <1>3, <2>1, <2>5, Zenon DEF StreamInv
  <2> QED BY <1>3, <2>3, <2>4, <2>6
<1>8. CASE Len(bytes) = need /\ phase = "header"
  <2>1. /\ phase' = "body" /\ need' = FromBytes(bytes) /\ chunks' = <<>>
        /\ received' = received
    BY <1>1, <1>8, Zenon DEF Complete
  <2>2. need = 2 /\ Len(bytes) = 2
    BY <1>8, Zenon DEF TypeOK, PrefixBytes
  <2>3. Unread = bytes \o pipe'
    <3>1. Unread = chunks \o pipe
      BY <1>8, UnreadTyped, Zenon
    <3> QED BY <1>1, <3>1, Zenon
  <2>4. /\ Len(Unread) = 2 + Len(pipe') /\ Unread[1] = bytes[1] /\ Unread[2] = bytes[2]
    <3>1. 1 \in 1..2 /\ 2 \in 1..2
      OBVIOUS
    <3>2. /\ Len(bytes \o pipe') = Len(bytes) + Len(pipe')
          /\ \A i \in 1..Len(bytes) : (bytes \o pipe')[i] = bytes[i]
      BY <1>1, ConcatAt, Zenon
    <3> QED BY <2>2, <2>3, <3>1, <3>2, Zenon
  <2>5. Len(pipe') \in Nat /\ 0 < Len(Unread) /\ 1 <= Len(Unread) /\ 2 <= Len(Unread)
    <3>1. Len(pipe') \in Nat
      BY <1>1
    <3> QED BY <2>4, <3>1
  <2>6. /\ r \in Nat /\ r < Len(Frames) /\ r + 1 \in 1..Len(Frames)
        /\ \A j \in 1..Len(Frames[r + 1]) : j <= Len(Unread) => Unread[j] = Frames[r + 1][j]
    BY <1>4, <1>5, <2>5, PartialNext, Zenon
  <2>7. /\ next \in Seq(Byte) /\ Len(next) \in Nat /\ Len(next) \in Lengths /\ 0 < Len(next)
        /\ Frames[r + 1] = Frame(next) /\ Len(Frames[r + 1]) = 2 + Len(next)
    <3>1. /\ next \in Seq(Byte) /\ Len(next) \in Lengths /\ 0 < Len(next)
          /\ Frames[r + 1] = Frame(next) /\ Len(Frames[r + 1]) = 2 + Len(next)
      BY <1>4, <2>6, FramesTyped, EncodedBytes, Zenon
    <3>2. \A raw \in Seq(Byte) : Len(raw) \in Nat
      OBVIOUS
    <3> QED BY <3>1, <3>2, Zenon
  <2> HIDE DEF next
  <2>8. bytes = MessageLength(Len(next))
    <3>1. 1 \in 1..Len(Frames[r + 1]) /\ 2 \in 1..Len(Frames[r + 1])
      BY <2>7
    <3>2. bytes[1] = Frames[r + 1][1] /\ bytes[2] = Frames[r + 1][2]
      BY <2>4, <2>5, <2>6, <3>1, Zenon
    <3>3. /\ Frame(next)[1] = MessageLength(Len(next))[1]
          /\ Frame(next)[2] = MessageLength(Len(next))[2]
      BY <2>7, FrameBytes, Zenon
    <3>4. bytes[1] = MessageLength(Len(next))[1] /\ bytes[2] = MessageLength(Len(next))[2]
      BY <2>7, <3>2, <3>3, Zenon
    <3> QED BY <1>1, <2>2, <2>7, <3>4, LengthBytes, Zenon
  <2>9. need' = Len(next)
    BY <2>1, <2>7, <2>8, LengthBytes, Zenon
  <2>10. TypeOK'
    <3>1. <<>> \in Seq(Byte) /\ Len(<<>>) = 0
      OBVIOUS
    <3>2. phase' \in {"header", "body"} /\ phase' # "header"
      BY <2>1
    <3> QED BY <1>2, <1>6, <2>1, <2>7, <2>9, <3>1, <3>2, Zenon
  <2>11. BodyInv' /\ ReadInv'
    BY <1>1, <1>4, <2>1, <2>6, <2>9, Zenon DEF BodyInv, ReadInv, next
  <2>12. Unread' = Unread
    <3>1. Unread' = MessageLength(need') \o <<>> \o pipe'
      BY <2>1, Zenon DEF Unread
    <3>2. bytes \o <<>> = bytes
      BY <1>1, BytesConcat, Zenon
    <3> QED BY <2>3, <2>8, <2>9, <3>1, <3>2, Zenon
  <2>13. StreamInv'
    BY <1>1, <1>3, <2>1, <2>12, Zenon DEF StreamInv
  <2> QED BY <1>3, <2>10, <2>11, <2>13
<1>9. CASE Len(bytes) = need /\ phase = "body"
  <2> DEFINE head == MessageLength(need)
             front == head \o bytes
  <2>1. /\ phase' = "header" /\ need' = PrefixBytes /\ chunks' = <<>>
        /\ received' = Append(received, bytes)
    BY <1>1, <1>9, Zenon DEF Complete
  <2>2. head \in Seq(Byte) /\ Len(head) = 2
    BY <1>9, UnreadTyped, Zenon
  <2>3. r \in Nat /\ r < Len(started) /\ r + 1 \in 1..Len(started) /\ need = Len(next)
    <3>1. r < Len(started) /\ need = Len(next)
      BY <1>9, Zenon DEF BodyInv
    <3>2. r \in Nat /\ Len(started) \in Nat
      BY <1>2
    <3> QED BY <3>1, <3>2
  <2>4. /\ next \in Seq(Byte) /\ Len(next) \in Lengths
        /\ Frames[r + 1] = Frame(next) /\ Len(Frames[r + 1]) = 2 + Len(next)
    BY <2>3, FramesTyped, EncodedBytes, Zenon
  <2> HIDE DEF next, head
  <2>5. Unread = front \o pipe'
    <3>1. Unread = head \o chunks \o pipe
      BY <1>9, UnreadTyped, Zenon DEF head
    <3>2. head \o chunks \o pipe = head \o (chunks \o pipe)
      BY <1>2, <2>2, BytesConcat, Zenon
    <3>3. head \o bytes \o pipe' = head \o (bytes \o pipe')
      BY <1>1, <2>2, BytesConcat, Zenon
    <3> QED BY <1>1, <3>1, <3>2, <3>3, Zenon
  <2>6. /\ front \in Seq(Byte) /\ Len(front) = 2 + Len(next)
        /\ \A j \in 1..Len(next) : front[2 + j] = bytes[j]
    <3>1. /\ front \in Seq(Byte) /\ Len(front) = Len(head) + Len(bytes)
          /\ \A j \in 1..Len(bytes) : front[Len(head) + j] = bytes[j]
      BY <1>1, <2>2, ConcatAt, Zenon
    <3> QED BY <1>9, <2>2, <2>3, <3>1, Zenon
  <2> HIDE DEF front
  <2>7. /\ Len(Unread) = Len(front) + Len(pipe')
        /\ \A i \in 1..Len(front) : Unread[i] = front[i]
        /\ \A i \in 1..Len(pipe') : Unread[Len(front) + i] = pipe'[i]
    BY <1>1, <2>5, <2>6, ConcatAt, Zenon
  <2>8. Len(next) \in Nat /\ Len(pipe') \in Nat /\ 0 < Len(Unread)
        /\ \A j \in 1..Len(next) : 2 + j \in 1..Len(front) /\ 2 + j <= Len(Unread)
    <3> DEFINE l == Len(next)
               z == Len(pipe')
               u == Len(Unread)
               q == Len(front)
    <3>1. l \in Nat /\ z \in Nat /\ u = q + z /\ q = 2 + l
      BY <1>1, <2>4, <2>6, <2>7
    <3> HIDE DEF l, z, u, q
    <3>2. 0 < u /\ \A j \in 1..l : 2 + j \in 1..q /\ 2 + j <= u
      BY <3>1
    <3> QED BY <3>1, <3>2, Zenon DEF l, z, u, q
  <2>9. \A j \in 1..Len(Frames[r + 1]) : j <= Len(Unread) => Unread[j] = Frames[r + 1][j]
    BY <1>4, <1>5, <2>8, PartialNext, Zenon
  <2>10. bytes = next
    <3>1. ASSUME NEW j \in 1..Len(next) PROVE bytes[j] = next[j]
      <4>1. Unread[2 + j] = bytes[j]
        BY <2>6, <2>7, <2>8, Zenon
      <4>2. Unread[2 + j] = Frames[r + 1][2 + j]
        BY <2>4, <2>6, <2>8, <2>9, Zenon
      <4>3. Frame(next)[2 + j] = next[j]
        BY <2>4, FrameBytes, Zenon
      <4> QED BY <2>4, <4>1, <4>2, <4>3, Zenon
    <3>2. Len(bytes) = Len(next)
      BY <1>9, <2>3, Zenon
    <3> QED BY <1>1, <2>4, <3>1, <3>2, SeqEqual, Zenon
  <2>11. Unread' = pipe'
    <3>1. Unread' = <<>> \o <<>> \o pipe'
      BY <2>1, Zenon DEF Unread
    <3>2. <<>> \o <<>> = <<>> /\ <<>> \o pipe' = pipe'
      BY <1>1
    <3> QED BY <3>1, <3>2, Zenon
  <2>12. /\ Partial(Frames, r + 1, pipe')
         /\ up => Whole(Frames, r + 1, pipe', Unwritten)
    <3>1. Unwritten \in Seq(Byte)
      <4>1. <<>> \in Seq(Byte)
        OBVIOUS
      <4>2. \A s \in Senders : left[s] \in Seq(Byte)
        BY DEF TypeOK
      <4> QED BY <4>1, <4>2, Zenon DEF Unwritten, TypeOK
    <3>2. /\ Len(Unread) = Len(Frames[r + 1]) + Len(pipe')
          /\ \A i \in 1..Len(pipe') : pipe'[i] = Unread[Len(Frames[r + 1]) + i]
      BY <2>4, <2>6, <2>7, Zenon
    <3>3. r + 1 \in 1..Len(Frames)
      BY <1>4, <2>3, Zenon
    <3>4. /\ Partial(Frames, r, Unread) => Partial(Frames, r + 1, pipe')
          /\ Whole(Frames, r, Unread, Unwritten) => Whole(Frames, r + 1, pipe', Unwritten)
      BY <1>1, <1>4, <3>1, <3>2, <3>3, BothGoOn
    <3> QED BY <3>4, Zenon DEF StreamInv
  <2>13. /\ Len(received') = r + 1 /\ received' \in Seq(Seq(Byte))
         /\ received'[r + 1] = bytes /\ \A i \in 1..r : received'[i] = received[i]
    BY <1>1, <1>2, <2>1
  <2>14. TypeOK'
    <3>1. <<>> \in Seq(Byte) /\ Len(<<>>) = 0 /\ 0 < PrefixBytes
      BY DEF PrefixBytes
    <3> QED BY <1>6, <2>1, <2>13, <3>1, Zenon
  <2>15. ReadInv'
    <3>1. Len(received') <= Len(started')
      <4>1. Len(started) \in Nat
        BY <1>2
      <4>2. r + 1 <= Len(started)
        BY <2>3, <4>1
      <4> QED BY <1>1, <2>13, <4>2, Zenon
    <3>2. ASSUME NEW i \in 1..(r + 1) PROVE received'[i] = Encoded[msg[started[i]]]
      <4>1. CASE i = r + 1
        BY <2>10, <2>13, <4>1, Zenon DEF next
      <4>2. CASE i # r + 1
        <5>1. i \in 1..r
          BY <2>3, <4>2
        <5> QED BY <2>13, <5>1, Zenon DEF ReadInv
      <4> QED BY <4>1, <4>2
    <3> QED BY <1>1, <2>13, <3>1, <3>2, Zenon DEF ReadInv
  <2>16. BodyInv'
    BY <2>1, Zenon DEF BodyInv
  <2>17. StreamInv'
    BY <1>1, <1>3, <2>11, <2>12, <2>13, Zenon DEF StreamInv
  <2> QED BY <1>3, <2>14, <2>15, <2>16, <2>17
<1> QED BY <1>2, <1>7, <1>8, <1>9

\* Every step of the threads, of the reader and of the network keeps the invariant.
LEMMA NextKeeps ==
    ASSUME IInv, [Next]_vars
    PROVE  IInv'
<1>1. ASSUME NEW s \in Senders, WriteStep(s) PROVE IInv'
  <2>1. CASE Begin(s)
    BY <2>1, BeginKeeps, Zenon
  <2>2. CASE Refused(s)
    BY <2>2, RefusedKeeps, Zenon
  <2>3. CASE WriteFails(s)
    BY <2>3, WriteFailsKeeps, Zenon
  <2>4. CASE \E k \in Pieces(Len(left[s])) : Write(s, k)
    BY <2>4, WriteKeeps, Zenon
  <2> QED BY <1>1, <2>1, <2>2, <2>3, <2>4, Zenon DEF WriteStep
<1>2. CASE ReadStep
  BY <1>2, ReceiveKeeps, Zenon DEF ReadStep
<1>3. CASE Reconnect
  BY <1>3, ReconnectKeeps, Zenon
<1>4. CASE Drop
  BY <1>4, DropKeeps, Zenon
<1>5. CASE UNCHANGED vars
  <2>1. UNCHANGED <<msg, pc, left, link, lock, up, drops, pipe, phase, need, chunks, started,
                    received>>
    BY <1>5, Zenon DEF vars, senderVars, readerVars
  <2>2. Frames' = Frames /\ Unread' = Unread /\ Unwritten' = Unwritten
    BY <2>1, Zenon DEF Frames, Unread, Unwritten
  <2>3. TypeOK'
    BY <2>1, Zenon DEF IInv, TypeOK
  <2>4. LockInv' /\ LinkInv' /\ BodyInv' /\ ReadInv'
    BY <2>1, Zenon DEF IInv, LockInv, LinkInv, BodyInv, ReadInv
  <2>5. StreamInv'
    BY <2>1, <2>2, Zenon DEF IInv, StreamInv
  <2> QED BY <2>3, <2>4, <2>5, Zenon DEF IInv
<1> QED BY <1>1, <1>2, <1>3, <1>4, <1>5, Zenon DEF Next

\* The invariant that the next two results need: where every byte of every frame is.
THEOREM IInvHolds == Spec => []IInv
<1>1. IInv /\ [Next]_vars => IInv'
  BY NextKeeps, Zenon
<1> QED BY <1>1, InitHolds, PTL DEF Spec

\* In every state the variables have the values their declarations announce; a thread
\* that is in sendall() has something left to write, and no other has.
THEOREM TypeCorrect == Spec => []TypeOK
<1>1. IInv => TypeOK
  BY Zenon DEF IInv
<1> QED BY <1>1, IInvHolds, PTL

-----------------------------------------------------------------------------
(* What is read is what was sent *)

\* Whatever the threads, their messages, the pieces TCP makes of them and the
\* connections that break: what was handed to parse_message on a connection are
\* the messages that were begun on it, whole, in that order, with every field's value.
THEOREM ReadInOrder == Spec => []InOrder
<1>1. ASSUME IInv PROVE InOrder
  <2>1. /\ Len(received) <= Len(started)
        /\ \A i \in 1..Len(received) : received[i] = Encoded[msg[started[i]]]
    BY <1>1, Zenon DEF IInv, ReadInv
  <2>2. ASSUME NEW i \in 1..Len(received) PROVE ParseMessage(received[i]) = Normal(msg[started[i]])
    <3>1. i \in 1..Len(started)
      <4>1. Len(received) \in Nat /\ Len(started) \in Nat
        BY <1>1 DEF IInv, TypeOK
      <4> QED BY <2>1, <4>1
    <3>2. msg[started[i]] \in Messages
      BY <1>1, <3>1, FramesTyped, Zenon DEF IInv
    <3> QED BY <2>1, <3>2, EncodedBytes, Zenon
  <2> QED BY <2>1, <2>2, Zenon DEF InOrder
<1> QED BY <1>1, IInvHolds, PTL

-----------------------------------------------------------------------------
(* The answer finds its request *)

\* The entries of the elements that are looked up, and of those the host sets.
LEMMA RowsLookedUp ==
    ASSUME NEW s \in FieldSpecs
    PROVE  /\ 11 \in s.des => s.lengthType = "FIXED" /\ s.coding = "bcd" /\ s.length = 6
           /\ 90 \in s.des => s.lengthType = "FIXED" /\ s.coding = "bcd" /\ s.length = 42
           /\ 38 \in s.des => s.coding = "text" /\ s.length = 6
           /\ 39 \in s.des => s.coding = "text" /\ s.length = 2
<1>1. 11 \in s.des => s.lengthType = "FIXED" /\ s.coding = "bcd" /\ s.length = 6
  BY SMTT(90) DEF FieldSpecs, FieldSpec
<1>2. 90 \in s.des => s.lengthType = "FIXED" /\ s.coding = "bcd" /\ s.length = 42
  BY SMTT(90) DEF FieldSpecs, FieldSpec
<1>3. 38 \in s.des => s.coding = "text" /\ s.length = 6
  BY SMTT(90) DEF FieldSpecs, FieldSpec
<1>4. 39 \in s.des => s.coding = "text" /\ s.length = 2
  BY SMTT(90) DEF FieldSpecs, FieldSpec
<1> QED BY <1>1, <1>2, <1>3, <1>4, Zenon

LEMMA SpecsLookedUp ==
    /\ {11, 37, 38, 39, 70, 90} \subseteq DataElements
    /\ SpecOf[11].lengthType = "FIXED" /\ SpecOf[11].coding = "bcd" /\ SpecOf[11].length = 6
    /\ SpecOf[90].lengthType = "FIXED" /\ SpecOf[90].coding = "bcd" /\ SpecOf[90].length = 42
    /\ SpecOf[38].coding = "text" /\ SpecOf[38].length = 6
    /\ SpecOf[39].coding = "text" /\ SpecOf[39].length = 2
<1>1. {11, 37, 38, 39, 70, 90} \subseteq DataElements
  BY Catalogue
<1>2. ASSUME NEW de \in DataElements PROVE SpecOf[de] \in FieldSpecs /\ de \in SpecOf[de].des
  <2>1. \E s \in FieldSpecs : de \in s.des
    BY DEF DataElements
  <2> QED BY <2>1 DEF SpecOf
<1>3. 11 \in DataElements /\ 90 \in DataElements /\ 38 \in DataElements /\ 39 \in DataElements
  BY <1>1
<1> QED BY <1>1, <1>2, <1>3, RowsLookedUp, Zenon

\* What the parser makes of a value fits the field it came from.
LEMMA NormalFits ==
    ASSUME NEW de \in DataElements, NEW v, Fits(de, v)
    PROVE  Fits(de, NormalValue(de, v))
<1> DEFINE spec == SpecOf[de]
           n == spec.length
           l == Len(v)
<1>1. n \in Nat /\ spec.lengthType \in {"FIXED", "LLVAR", "LLLVAR"}
      /\ spec.coding \in {"bcd", "text", "binary"}
  BY SpecsAreTyped
<1>2. l <= n
  BY Zenon DEF Fits
<1>3. CASE spec.lengthType # "FIXED"
  BY <1>3 DEF NormalValue
<1>4. CASE spec.lengthType = "FIXED" /\ spec.coding = "bcd"
  <2> DEFINE d == [i \in 1..n |-> IF i > n - l THEN v[i - (n - l)] ELSE 0]
  <2>1. v \in Seq(Digit) /\ l \in Nat
    BY <1>4 DEF Fits
  <2>2. NormalValue(de, v) = d
    BY <1>4 DEF NormalValue
  <2>3. \A i \in 1..n : (IF i > n - l THEN v[i - (n - l)] ELSE 0) \in Digit
    <3>1. \A i \in 1..l : v[i] \in Digit
      BY <2>1
    <3> HIDE DEF n, l
    <3>2. \A i \in 1..n : i > n - l => i - (n - l) \in 1..l
      BY <1>1, <1>2, <2>1
    <3>3. 0 \in Digit
      BY DEF Digit
    <3> QED BY <3>1, <3>2, <3>3, Zenon
  <2>4. d \in [1..n -> Digit]
    BY <2>3, Zenon
  <2> HIDE DEF d
  <2>5. d \in Seq(Digit) /\ Len(d) = n
    BY <1>1, <2>4, DigitsAreSeq, Zenon
  <2> QED BY <1>1, <1>4, <2>2, <2>5 DEF Fits
<1>5. CASE spec.lengthType = "FIXED" /\ spec.coding = "text"
  <2>1. v \in Seq(Byte)
    BY <1>5 DEF Fits
  <2>2. NormalValue(de, v) = Stripped(spec, v)
    BY <1>5 DEF NormalValue
  <2> DEFINE kept == {i \in 1..Len(v) : v[i] \notin Whitespace}
             m == Max(kept)
  <2>3. Stripped(spec, v) = IF kept = {} THEN <<>> ELSE SubSeq(v, 1, m)
    BY <1>5, Zenon DEF Stripped
  <2>4. kept # {} => m \in 1..l
    <3>1. l \in Nat /\ kept \in SUBSET (1..l)
      BY <2>1
    <3> HIDE DEF kept, l
    <3> QED BY <3>1, LastExists
  <2> HIDE DEF kept, m
  <2>5. kept # {} => SubSeq(v, 1, m) \in Seq(Byte) /\ Len(SubSeq(v, 1, m)) <= l
    BY <2>1, <2>4
  <2>6. <<>> \in Seq(Byte) /\ Len(<<>>) = 0
    OBVIOUS
  <2>7. Stripped(spec, v) \in Seq(Byte) /\ Len(Stripped(spec, v)) <= l
    <3>1. l \in Nat
      BY <2>1
    <3> QED BY <2>3, <2>5, <2>6, <3>1
  <2>8. Len(Stripped(spec, v)) <= n
    <3>1. l \in Nat /\ Len(Stripped(spec, v)) \in Nat
      BY <2>1, <2>7
    <3> HIDE DEF l, n
    <3> QED BY <1>1, <1>2, <2>7, <3>1
  <2> QED BY <1>5, <2>2, <2>7, <2>8 DEF Fits
<1>6. CASE spec.lengthType = "FIXED" /\ spec.coding = "binary"
  <2> DEFINE d == [i \in 1..n |-> IF i <= l THEN v[i] ELSE Space]
  <2>1. v \in Seq(Byte) /\ l \in Nat
    BY <1>6 DEF Fits
  <2>2. NormalValue(de, v) = d
    BY <1>6 DEF NormalValue
  <2>3. d \in Seq(Byte) /\ Len(d) = n
    <3>1. \A i \in 1..n : (IF i <= l THEN v[i] ELSE Space) \in Byte
      <4>1. \A i \in 1..l : v[i] \in Byte
        BY <2>1
      <4>2. Space \in Byte
        BY DEF Space, Byte
      <4> HIDE DEF n, l
      <4>3. \A i \in 1..n : i <= l => i \in 1..l
        BY <1>1, <2>1
      <4> QED BY <4>1, <4>2, <4>3, Zenon
    <3>2. d \in [1..n -> Byte]
      BY <3>1, Zenon
    <3> HIDE DEF d, n
    <3> QED BY <1>1, <3>2
  <2> HIDE DEF d
  <2> QED BY <1>1, <1>6, <2>2, <2>3 DEF Fits
<1> QED BY <1>1, <1>3, <1>4, <1>5, <1>6

\* A number that fills its field is read as it was written.
LEMMA WholeIsNormal ==
    ASSUME NEW de \in DataElements, NEW v, Fits(de, v), SpecOf[de].lengthType = "FIXED",
           SpecOf[de].coding = "bcd", Len(v) = SpecOf[de].length
    PROVE  NormalValue(de, v) = v
<1> DEFINE n == SpecOf[de].length
<1>1. v \in Seq(Digit) /\ Len(v) = n /\ n \in Nat
  BY SpecsAreTyped DEF Fits
<1>2. NormalValue(de, v) = [i \in 1..n |-> IF i > n - Len(v) THEN v[i - (n - Len(v))] ELSE 0]
  BY DEF NormalValue
<1> HIDE DEF n
<1>3. \A i \in 1..n : i > n - Len(v) /\ i - (n - Len(v)) = i
  BY <1>1
<1>4. NormalValue(de, v) = [i \in 1..n |-> v[i]]
  BY <1>2, <1>3, Zenon
<1>5. v = [i \in 1..n |-> v[i]]
  BY <1>1
<1> QED BY <1>4, <1>5, Zenon

LEMMA NormalIs ==
    ASSUME NEW m
    PROVE  /\ Normal(m).mti = m.mti /\ DOMAIN Normal(m).fields = DOMAIN m.fields
           /\ \A de \in DOMAIN m.fields : Normal(m).fields[de] = NormalValue(de, m.fields[de])
  BY DEF Normal

LEMMA AnswerIs ==
    ASSUME NEW m
    PROVE  /\ Answer(m).mti = [m.mti EXCEPT ![3] = 1]
           /\ DOMAIN Answer(m).fields = AnswerFields(m.mti)
           /\ \A de \in AnswerFields(m.mti) :
                 /\ de = 38 => Answer(m).fields[de] = <<65, 49, 56, 48, 48, 56>>
                 /\ de = 39 => Answer(m).fields[de] = <<48, 48>>
                 /\ de # 38 /\ de # 39 => Answer(m).fields[de] = m.fields[de]
  BY DEF Answer

LEMMA AnswerFieldsAre ==
    ASSUME NEW mti, mti \in {<<0, 8, 0, 0>>, <<0, 2, 0, 0>>, <<0, 4, 0, 0>>}
    PROVE  11 \in AnswerFields(mti) /\ AnswerFields(mti) \subseteq {11, 37, 38, 39, 70}
<1>1. /\ <<0, 2, 0, 0>> # <<0, 8, 0, 0>> /\ <<0, 4, 0, 0>> # <<0, 8, 0, 0>>
      /\ <<0, 2, 0, 0>> # <<0, 4, 0, 0>>
  OBVIOUS
<1>2. AnswerFields(mti) \in {{11, 70}, {11, 37, 38, 39}, {11, 39}}
  BY <1>1 DEF AnswerFields
<1> QED BY <1>2

\* The host's answer to what it has read of a request can be sent in turn, and
\* the STAN in it is still the request's when it has been read.
LEMMA AnswerReturns ==
    ASSUME NEW m, WellFormed(m), Answerable(m), IsRequest(m)
    PROVE  ParseMessage(BuildMessage(Answer(Normal(m)))).fields[11] = m.fields[11]
<1> DEFINE read == Normal(m)
           answer == Answer(read)
<1>1. /\ m.mti \in {<<0, 8, 0, 0>>, <<0, 2, 0, 0>>, <<0, 4, 0, 0>>}
      /\ AnswerFields(m.mti) \ {38, 39} \subseteq DOMAIN m.fields /\ Len(m.fields[11]) = 6
  BY Zenon DEF Answerable
<1>2. 11 \in AnswerFields(m.mti) /\ AnswerFields(m.mti) \subseteq {11, 37, 38, 39, 70}
  BY <1>1, AnswerFieldsAre, Zenon
<1>3. /\ m.mti \in [1..4 -> Digit] /\ DOMAIN m.fields \subseteq DataElements
      /\ \A de \in DOMAIN m.fields : Fits(de, m.fields[de])
  BY Zenon DEF WellFormed
<1>4. /\ read.mti = m.mti /\ DOMAIN read.fields = DOMAIN m.fields
      /\ \A de \in DOMAIN m.fields : read.fields[de] = NormalValue(de, m.fields[de])
  BY NormalIs, Zenon
<1> HIDE DEF read
<1>5. /\ answer.mti = [m.mti EXCEPT ![3] = 1] /\ DOMAIN answer.fields = AnswerFields(m.mti)
      /\ \A de \in AnswerFields(m.mti) :
            /\ de = 38 => answer.fields[de] = <<65, 49, 56, 48, 48, 56>>
            /\ de = 39 => answer.fields[de] = <<48, 48>>
            /\ de # 38 /\ de # 39 => answer.fields[de] = read.fields[de]
  <2>1. /\ answer.mti = [read.mti EXCEPT ![3] = 1]
        /\ DOMAIN answer.fields = AnswerFields(read.mti)
        /\ \A de \in AnswerFields(read.mti) :
              /\ de = 38 => answer.fields[de] = <<65, 49, 56, 48, 48, 56>>
              /\ de = 39 => answer.fields[de] = <<48, 48>>
              /\ de # 38 /\ de # 39 => answer.fields[de] = read.fields[de]
    BY AnswerIs, Zenon
  <2> HIDE DEF answer
  <2> QED BY <1>4, <2>1, Zenon
<1> HIDE DEF answer
<1>6. 11 \in DOMAIN m.fields /\ 11 \in DataElements
  <2>1. 11 \notin {38, 39}
    OBVIOUS
  <2> QED BY <1>1, <1>2, <1>3, <2>1, Zenon
<1>7. NormalValue(11, m.fields[11]) = m.fields[11] /\ read.fields[11] = m.fields[11]
  <2>1. Fits(11, m.fields[11]) /\ Len(m.fields[11]) = SpecOf[11].length
    BY <1>1, <1>3, <1>6, SpecsLookedUp, Zenon
  <2>2. NormalValue(11, m.fields[11]) = m.fields[11]
    BY <1>6, <2>1, SpecsLookedUp, WholeIsNormal, Zenon
  <2> QED BY <1>4, <1>6, <2>2, Zenon
<1>8. answer.fields[11] = m.fields[11]
  <2>1. 11 # 38 /\ 11 # 39
    OBVIOUS
  <2> QED BY <1>2, <1>5, <1>7, <2>1, Zenon
<1>9. WellFormed(answer)
  <2>1. [m.mti EXCEPT ![3] = 1] \in [1..4 -> Digit]
    <3>1. 1 \in Digit
      BY DEF Digit
    <3> QED BY <1>3, <3>1
  <2>2. AnswerFields(m.mti) \subseteq DataElements
    <3>1. {11, 37, 38, 39, 70} \subseteq {11, 37, 38, 39, 70, 90}
      OBVIOUS
    <3> QED BY <1>2, <3>1, SpecsLookedUp, Zenon
  <2>3. ASSUME NEW de \in AnswerFields(m.mti) PROVE Fits(de, answer.fields[de])
    <3>1. CASE de = 38
      <4> DEFINE code == <<65, 49, 56, 48, 48, 56>>
      <4>1. code \in Seq(Byte) /\ Len(code) = 6
        BY DEF Byte
      <4>2. answer.fields[de] = code
        BY <1>5, <3>1, Zenon
      <4> HIDE DEF code
      <4>3. Fits(38, code)
        BY <4>1, SpecsLookedUp DEF Fits
      <4> QED BY <3>1, <4>2, <4>3, Zenon
    <3>2. CASE de = 39
      <4> DEFINE code == <<48, 48>>
      <4>1. code \in Seq(Byte) /\ Len(code) = 2
        BY DEF Byte
      <4>2. de # 38
        BY <3>2
      <4>3. answer.fields[de] = code
        BY <1>5, <3>2, <4>2, Zenon
      <4> HIDE DEF code
      <4>4. Fits(39, code)
        BY <4>1, SpecsLookedUp DEF Fits
      <4> QED BY <3>2, <4>3, <4>4, Zenon
    <3>3. CASE de # 38 /\ de # 39
      <4>1. de \in DOMAIN m.fields
        <5>1. de \notin {38, 39}
          BY <3>3
        <5> QED BY <1>1, <5>1, Zenon
      <4>2. answer.fields[de] = read.fields[de]
        BY <1>5, <3>3, Zenon
      <4>3. Fits(de, NormalValue(de, m.fields[de]))
        BY <1>3, <4>1, NormalFits, Zenon
      <4> QED BY <1>4, <4>1, <4>2, <4>3, Zenon
    <3> QED BY <3>1, <3>2, <3>3, Zenon
  <2> QED BY <1>5, <2>1, <2>2, <2>3, Zenon DEF WellFormed
<1>10. ParseMessage(BuildMessage(answer)) = Normal(answer)
  BY <1>9, CodecReturns, Zenon
<1>11. Normal(answer).fields[11] = NormalValue(11, m.fields[11])
  <2>1. 11 \in DOMAIN answer.fields
    BY <1>2, <1>5, Zenon
  <2>2. Normal(answer).fields[11] = NormalValue(11, answer.fields[11])
    BY <2>1, NormalIs, Zenon
  <2> QED BY <1>8, <2>2, Zenon
<1>12. ParseMessage(BuildMessage(answer)).fields[11] = m.fields[11]
  BY <1>7, <1>10, <1>11, Zenon
<1> QED BY <1>12, Zenon DEF answer, read

\* Whatever was sent, in whatever pieces it came: the STAN that the client
\* registered is the one in the answer to what was read, and the one that
\* a reversal carries in its DE 90 is the one of the purchase.
THEOREM StanReturns == Spec => []AnswerFindsItsRequest
<1>1. ASSUME IInv PROVE AnswerFindsItsRequest
  <2> SUFFICES ASSUME NEW i \in 1..Len(received)
               PROVE  LET sent == msg[started[i]]
                          read == ParseMessage(received[i])
                      IN /\ IsRequest(sent) =>
                               ParseMessage(BuildMessage(Answer(read))).fields[11]
                                  = sent.fields[11]
                         /\ 90 \in DOMAIN sent.fields =>
                               Slice(read.fields[90], 4, 6) = Slice(sent.fields[90], 4, 6)
    BY DEF AnswerFindsItsRequest
  <2> DEFINE sent == msg[started[i]]
             read == ParseMessage(received[i])
  <2>1. sent \in Messages /\ read = Normal(sent)
    <3>1. Len(received) <= Len(started) /\ received[i] = Encoded[msg[started[i]]]
      BY <1>1, Zenon DEF IInv, ReadInv
    <3>2. i \in 1..Len(started)
      <4>1. Len(received) \in Nat /\ Len(started) \in Nat
        BY <1>1 DEF IInv, TypeOK
      <4> QED BY <3>1, <4>1
    <3>3. msg[started[i]] \in Messages
      BY <1>1, <3>2, FramesTyped, Zenon DEF IInv
    <3> QED BY <3>1, <3>3, EncodedBytes, Zenon
  <2>2. WellFormed(sent) /\ Answerable(sent)
    BY <2>1, MessagesAssumption, Zenon
  <2> HIDE DEF sent, read
  <2>3. IsRequest(sent) => ParseMessage(BuildMessage(Answer(read))).fields[11] = sent.fields[11]
    BY <2>1, <2>2, AnswerReturns, Zenon
  <2>4. 90 \in DOMAIN sent.fields => read.fields[90] = sent.fields[90]
    <3> SUFFICES ASSUME 90 \in DOMAIN sent.fields PROVE read.fields[90] = sent.fields[90]
      OBVIOUS
    <3>1. 90 \in DataElements /\ Fits(90, sent.fields[90])
      BY <2>2, WellFormedParts, Zenon
    <3>2. Len(sent.fields[90]) = SpecOf[90].length
      BY <2>2, SpecsLookedUp, Zenon DEF Answerable
    <3>3. NormalValue(90, sent.fields[90]) = sent.fields[90]
      BY <3>1, <3>2, SpecsLookedUp, WholeIsNormal, Zenon
    <3> QED BY <2>1, <3>3, NormalIs, Zenon
  <2> QED BY <2>3, <2>4, Zenon DEF sent, read
<1> QED BY <1>1, IInvHolds, PTL
=============================================================================
