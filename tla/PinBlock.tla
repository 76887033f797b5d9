------------------------------ MODULE PinBlock ------------------------------
(***************************************************************************)
(* security/pin_block.py: ISO 9564 format 0, on sequences of hexadecimal   *)
(* digits (fields) and bytes (blocks).  PINs have 4 to 6 digits and cards  *)
(* at least 12, as the request schemas demand.                             *)
(***************************************************************************)
EXTENDS Integers, Bitwise, SequencesExt

FieldDigits == 16

\* build_pin_field(): control nibble, length, PIN, and F up to 16 digits.
BuildPinField(pin) ==
    LET field == <<0, Len(pin)>> \o pin IN
    field \o [i \in 1..(FieldDigits - Len(field)) |-> 15]

\* build_pan_field(): the last 12 digits without the check digit, behind as
\* many zeros as are missing.
BuildPanField(pan) ==
    LET digits == SubSeq(pan, IF Len(pan) > 13 THEN Len(pan) - 12 ELSE 1, Len(pan) - 1) IN
    [i \in 1..(FieldDigits - Len(digits)) |-> 0] \o digits

\* build_iso0_pin_block(): XOR of the two, two digits per byte.
BuildIso0PinBlock(pin, pan) ==
    LET a == BuildPinField(pin)
        b == BuildPanField(pan)
        digit(i) == a[i] ^^ b[i]
    IN  [i \in 1..(FieldDigits \div 2) |-> 16 * digit(2 * i - 1) + digit(2 * i)]

\* recover_pin(): the same XOR again; the length is its second digit.
RecoverPin(block, pan) ==
    LET b == BuildPanField(pan)
        nibble(i) == IF i % 2 = 1 THEN block[(i + 1) \div 2] \div 16 ELSE block[i \div 2] % 16
        field == [i \in 1..FieldDigits |-> nibble(i) ^^ b[i]]
    IN  SubSeq(field, 3, 2 + field[2])
=============================================================================
