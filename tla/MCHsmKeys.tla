----------------------------- MODULE MCHsmKeys ------------------------------
(* Three starts of the service and three payments; PIN blocks of short and *)
(* long PINs and cards come back as the PIN they were built from.          *)
EXTENDS HsmKeys, PinBlock, TLC

CONSTANTS p1, p2, p3, q1, q2, q3, m1, m2

MCProcesses == {p1, p2, p3}
MCRequests == {q1, q2, q3}
MCMasters == {m1, m2}
MCSymmetry == Permutations(MCProcesses) \cup Permutations(MCRequests) \cup Permutations(MCMasters)

Pins == {<<1, 2, 3, 4>>, <<0, 0, 0, 0>>, <<9, 8, 7, 6, 5>>, <<9, 9, 9, 9, 9, 9>>}
Pans == {[i \in 1..n |-> (3 * i + n) % 10] : n \in 12..19}

ASSUME PinReturns ==
    \A pin \in Pins, pan \in Pans :
        /\ Len(BuildIso0PinBlock(pin, pan)) = 8
        /\ RecoverPin(BuildIso0PinBlock(pin, pan), pan) = pin

\* "the same PIN encrypted for two different cards" gives different blocks,
\* if the cards differ in the twelve digits before the check digit.
ASSUME PanMatters ==
    \A pin \in Pins, pan, other \in Pans :
        BuildIso0PinBlock(pin, pan) = BuildIso0PinBlock(pin, other)
            => BuildPanField(pan) = BuildPanField(other)
=============================================================================
