------------------------------- MODULE MCWire -------------------------------
(* Messages as the program sends them, and one field of each kind at its    *)
(* shortest and longest.                                                    *)
EXTENDS Wire

CONSTANTS s1, s2

MCSenders == {s1, s2}

Decimal(n, width) == [i \in 1..width |-> (n \div 10 ^ (width - i)) % 10]

Digits(n) == [i \in 1..n |-> i % 10]

Text(n) == [i \in 1..n |-> IF i = 3 THEN Space ELSE 64 + (i % 26)]

\* Encrypted PIN blocks may end in a byte that is a blank.
PinBlock == <<7, 200, 0, 255, 13, 64, 160, 32>>

Transfer ==
    Authorization(Decimal(999999, 6), Digits(19), <<4, 0, 0, 0, 0, 0>>, Zeros(7) \o Digits(5),
                  <<0, 1>>, Text(12), PinBlock, <<7>>, Text(10))

Purchase ==
    Authorization(Zeros(6), Digits(16), Zeros(6), Digits(12), <<0, 5, 1>>, Text(12), PinBlock,
                  Digits(10), <<>>)

Echo == NetworkMessage(Decimal(1, 6), <<3, 0, 1>>)

Undo == Reversal(Zeros(6), Decimal(999999, 6))

MCMessages == {Transfer, Echo, Undo, Answer(Transfer)}

Sample(de, n) ==
    [mti |-> <<0, 8, 0, 0>>,
     fields |-> (de :> IF SpecOf[de].coding = "bcd" THEN Digits(n) ELSE Text(n))]

ASSUME PurchaseReturns == ParseMessage(BuildMessage(Purchase)) = Normal(Purchase)

\* Every data element of the catalogue, empty, short and full.
ASSUME EveryFieldReturns ==
    \A de \in DataElements : \A n \in {0, 1, SpecOf[de].length} :
        LET m == Sample(de, n) IN ParseMessage(BuildMessage(m)) = Normal(m)
=============================================================================
