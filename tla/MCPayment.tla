----------------------------- MODULE MCPayment ------------------------------
(* Two requests over two keys, two accounts, two bodies.                   *)
EXTENDS Payment

CONSTANTS q1, q2, k1, k2, alice, shop, n1, n2

MCRequests == {q1, q2}
MCTwoKeys == {k1, k2}
MCAccounts == {alice, shop}
MCRrns == {n1, n2}
MCAmounts == {1, 2}
MCResponses == Response

Pay(from, to, amount) == [sender |-> from, receiver |-> to, amount |-> amount]

\* A payment, and another the other way over another amount.
MCBodies == {Pay(alice, shop, 1), Pay(shop, alice, 2)}
MCOwner == {"owner"}
MCAnyone == {"owner", "stranger"}
MCAlice == {alice}
MCStores == {"memory", "redis"}
MCRedis == {"redis"}
MCDirect == {"direct"}
MCAce == {"ace"}
MCSwitchFaults == {"SWITCH_TIMEOUT", "SWITCH_DOWN"}
MCAllFaults == MCSwitchFaults \cup {"INTERNAL_ERROR"}
=============================================================================
