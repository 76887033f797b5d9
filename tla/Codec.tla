-------------------------------- MODULE Codec -------------------------------
(***************************************************************************)
(* iso8583/parser.py: messages to bytes and back.  A byte is a number      *)
(* below 256, a decimal digit one below 10, a character its latin-1 code.  *)
(* A message has an MTI of four digits and, for some data elements (DE), a *)
(* value that is a sequence of digits or of characters.                    *)
(***************************************************************************)
EXTENDS Integers, Sequences, FiniteSetsExt

Digit == 0..9
Byte == 0..255
Filler == 15
Space == 32

\* The characters str.rstrip() takes for white space.
Whitespace == (9..13) \cup (28..32) \cup {133, 160}

Smaller(a, b) == IF a < b THEN a ELSE b

\* s[from : from + n]
Slice(s, from, n) == SubSeq(s, from + 1, Smaller(from + n, Len(s)))

Zeros(n) == [i \in 1..n |-> 0]

-----------------------------------------------------------------------------
(* BCD: two digits per byte, an odd one is followed by a filler            *)

BcdByteLen(n) == (n + 1) \div 2

BcdEncode(d) ==
    [i \in 1..BcdByteLen(Len(d)) |->
        16 * d[2 * i - 1] + (IF 2 * i <= Len(d) THEN d[2 * i] ELSE Filler)]

Nibble(b, j) == IF j % 2 = 1 THEN b[(j + 1) \div 2] \div 16 ELSE b[j \div 2] % 16

BcdDecode(b, n) == [j \in 1..Smaller(n, 2 * Len(b)) |-> Nibble(b, j)]

\* f"{n:02d}" and f"{n:04d}" of a length that has no more digits, and int().
LengthPrefix(n, digits) ==
    IF digits = 2 THEN <<n \div 10, n % 10>>
    ELSE <<n \div 1000, (n \div 100) % 10, (n \div 10) % 10, n % 10>>

Number(d) ==
    IF Len(d) = 2 THEN 10 * d[1] + d[2] ELSE 1000 * d[1] + 100 * d[2] + 10 * d[3] + d[4]

-----------------------------------------------------------------------------
(* FIELD_SPECS: the data elements of each length and coding                *)

FieldSpec(lengthType, length, coding, des) ==
    [lengthType |-> lengthType, length |-> length, coding |-> coding, des |-> des]

FieldSpecs ==
    {FieldSpec("FIXED", row[1], "bcd", row[2]) : row \in {
        <<1, {27, 66}>>, <<2, {25, 26, 67, 92}>>, <<3, (19..24) \cup (49..51) \cup (68..70)>>,
        <<4, (13..18) \cup {71, 72}>>, <<5, {93}>>, <<6, {3, 11, 12, 73}>>, <<8, 8..10>>,
        <<10, {7} \cup (74..81)>>, <<12, (4..6) \cup (82..85)>>, <<15, 86..89>>,
        <<16, {53}>>, <<42, {90}>>}}
    \cup {FieldSpec("FIXED", row[1], "text", row[2]) : row \in {
        <<1, {91}>>, <<2, {39}>>, <<3, {40}>>, <<6, {38}>>, <<7, {94}>>, <<8, {41}>>,
        <<9, 28..31>>, <<12, {37}>>, <<15, {42}>>, <<17, {97}>>, <<25, {98}>>,
        <<40, {43}>>, <<42, {95}>>}}
    \cup {FieldSpec("FIXED", 8, "binary", {52, 64, 96, 128})}
    \cup {FieldSpec("LLVAR", row[1], "bcd", row[2]) : row \in {
        <<11, {32, 33, 99, 100}>>, <<19, {2}>>, <<28, {34}>>}}
    \cup {FieldSpec("LLVAR", row[1], "text", row[2]) : row \in {
        <<17, {101}>>, <<28, {102, 103}>>, <<37, {35}>>, <<76, {45}>>}}
    \cup {FieldSpec("LLVAR", 25, "binary", {44})}
    \cup {FieldSpec("LLLVAR", row[1], "text", row[2]) : row \in {
        <<100, {104}>>, <<104, {36}>>, <<120, {54}>>, <<255, {55}>>,
        <<999, (46..48) \cup (57..63) \cup (105..119) \cup (121..127)>>}}
    \cup {FieldSpec("LLLVAR", 999, "binary", {56, 120})}

DataElements == UNION {s.des : s \in FieldSpecs}

\* DE 1 flags the second half of the bitmap; DE 65 has no entry.
ASSUME Catalogue == DataElements = (2..128) \ {65}

SpecOf == [de \in DataElements |-> CHOOSE s \in FieldSpecs : de \in s.des]

-----------------------------------------------------------------------------
(* The bitmap                                                              *)

BitValue(n) == 2 ^ (7 - ((n - 1) % 8))

\* One byte flags eight elements, the first of them in its highest bit.
BuildBitmap(des) ==
    LET secondary == \E n \in des : n > 64
        flagged == des \cup (IF secondary THEN {1} ELSE {})
        Bit(n) == IF n \in flagged THEN BitValue(n) ELSE 0
    IN [k \in 1..(IF secondary THEN 16 ELSE 8) |->
           Bit(8 * k - 7) + Bit(8 * k - 6) + Bit(8 * k - 5) + Bit(8 * k - 4)
           + Bit(8 * k - 3) + Bit(8 * k - 2) + Bit(8 * k - 1) + Bit(8 * k)]

BitmapLen(raw, pos) == IF raw[pos + 1] \div 128 = 1 THEN 16 ELSE 8

ReadBitmap(raw, pos) ==
    {n \in 2..8 * BitmapLen(raw, pos) :
        (raw[pos + 1 + (n - 1) \div 8] \div BitValue(n)) % 2 = 1}

-----------------------------------------------------------------------------
(* Fields.  build_message() pads and, text only, cuts a FIXED value, and   *)
(* puts the length in front of the others                                  *)

LengthDigits(spec) ==
    CASE spec.lengthType = "FIXED" -> 0 [] spec.lengthType = "LLVAR" -> 2 [] spec.lengthType = "LLLVAR" -> 4

PadLeft(v, n) == Zeros(n - Len(v)) \o v

PadRight(v, n) == v \o [i \in 1..(n - Len(v)) |-> Space]

BuildField(de, v) ==
    LET spec == SpecOf[de] IN
    IF spec.lengthType = "FIXED"
    THEN IF spec.coding = "bcd" THEN BcdEncode(PadLeft(v, spec.length))
                                ELSE Slice(PadRight(v, spec.length), 0, spec.length)
    ELSE BcdEncode(LengthPrefix(Len(v), LengthDigits(spec)))
         \o (IF spec.coding = "bcd" THEN BcdEncode(v) ELSE v)

\* rstrip() for a FIXED text; a PIN block or a MAC may end in any byte.
Stripped(spec, v) ==
    IF spec.lengthType = "FIXED" /\ spec.coding = "text"
    THEN LET kept == {i \in 1..Len(v) : v[i] \notin Whitespace}
         IN IF kept = {} THEN <<>> ELSE SubSeq(v, 1, Max(kept))
    ELSE v

\* The value of one field at pos, and where the next one begins.
ReadField(raw, pos, de) ==
    LET spec    == SpecOf[de]
        header  == LengthDigits(spec) \div 2
        length  == IF header = 0 THEN spec.length
                   ELSE Number(BcdDecode(Slice(raw, pos, header), 2 * header))
        size    == IF spec.coding = "bcd" THEN BcdByteLen(length) ELSE length
        content == Slice(raw, pos + header, size)
    IN [value |-> IF spec.coding = "bcd" THEN BcdDecode(content, length)
                                         ELSE Stripped(spec, content),
        next  |-> pos + header + size]

-----------------------------------------------------------------------------
(* Messages                                                                *)

\* The message up to each data element, in ascending order.
BuiltUpTo(m) ==
    LET out[de \in 1..128] ==
            IF de = 1 THEN BcdEncode(m.mti) \o BuildBitmap(DOMAIN m.fields)
            ELSE IF de \in DOMAIN m.fields THEN out[de - 1] \o BuildField(de, m.fields[de])
            ELSE out[de - 1]
    IN out

BuildMessage(m) == BuiltUpTo(m)[128]

\* Where each data element of those present begins, or would.
FieldStarts(raw, present) ==
    LET pos[de \in 2..128] ==
            IF de = 2 THEN 2 + BitmapLen(raw, 2)
            ELSE IF de - 1 \in present THEN ReadField(raw, pos[de - 1], de - 1).next
            ELSE pos[de - 1]
    IN pos

ParseMessage(raw) ==
    LET present == ReadBitmap(raw, 2)
        starts  == FieldStarts(raw, present)
    IN [mti    |-> BcdDecode(Slice(raw, 0, 2), 4),
        fields |-> [de \in present |-> ReadField(raw, starts[de], de).value]]

-----------------------------------------------------------------------------
(* What a receiver should make of a message                                *)

\* A value its field has room for.
Fits(de, v) ==
    /\ v \in Seq(IF SpecOf[de].coding = "bcd" THEN Digit ELSE Byte)
    /\ Len(v) <= SpecOf[de].length

WellFormed(m) ==
    /\ m.mti \in [1..4 -> Digit]
    /\ DOMAIN m.fields \subseteq DataElements
    /\ \A de \in DOMAIN m.fields : Fits(de, m.fields[de])

\* Digits are right-aligned in their field, a text has no trailing blanks,
\* binary data fills its field, and a variable field is what was sent.
NormalValue(de, v) ==
    LET spec == SpecOf[de] IN
    CASE spec.lengthType # "FIXED" -> v
      [] spec.lengthType = "FIXED" /\ spec.coding = "bcd" ->
            LET pad == spec.length - Len(v)
            IN [i \in 1..spec.length |-> IF i > pad THEN v[i - pad] ELSE 0]
      [] spec.lengthType = "FIXED" /\ spec.coding = "text" -> Stripped(spec, v)
      [] spec.lengthType = "FIXED" /\ spec.coding = "binary" ->
            [i \in 1..spec.length |-> IF i <= Len(v) THEN v[i] ELSE Space]

Normal(m) ==
    [mti |-> m.mti, fields |-> [de \in DOMAIN m.fields |-> NormalValue(de, m.fields[de])]]
=============================================================================
