----------------------------- MODULE MCIdentity -----------------------------
(* Two replicas, two persons, one of them possibly from before passwords.  *)
EXTENDS Identity, TLC

CONSTANTS d1, d2, alice, bob, m1, m2, s1, s2, u1, u2, u3, c1, c2

MCReplicas == {d1, d2}
MCCnics == {alice, bob}
MCCards == {m1, m2}
MCPasswords == {s1, s2}
MCIds == {u1, u2, u3}
MCCallers == {c1, c2}
MCLegacy == {[id |-> u1, cnic |-> alice, card |-> m1, password |-> NoPassword]}
MCSymmetry == Permutations(MCReplicas) \cup Permutations(MCPasswords)
                  \cup Permutations({u2, u3}) \cup Permutations(MCCallers)
=============================================================================
