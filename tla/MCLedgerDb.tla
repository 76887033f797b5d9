----------------------------- MODULE MCLedgerDb -----------------------------
(* Two sessions race on two rrns and two accounts.  One call is a payment  *)
(* to oneself, two calls share an rrn and differ in everything else.       *)
EXTENDS LedgerDb, TLC

CONSTANTS s1, s2, a1, a2, r1, r2

MCSessions == {s1, s2}
MCAccounts == {a1, a2}
MCRrns == {r1, r2}
MCAmounts == {1, 3}
MCCalls == {[rrn |-> r1, debit |-> a1, credit |-> a2, amount |-> 1],
            [rrn |-> r1, debit |-> a2, credit |-> a2, amount |-> 3],
            [rrn |-> r2, debit |-> a2, credit |-> a1, amount |-> 3]}
=============================================================================
