--------------------------- MODULE MCCorrelation ----------------------------
(* One or two callers, the connection thread and its heartbeats.            *)
EXTENDS Correlation, TLC

CONSTANTS c1, c2, h1, h2

MCOneCaller == {c1}
MCCallers == {c1, c2}
MCOneHeart == {h1}
MCHearts == {h1, h2}

Symmetry == Permutations(MCCallers)
=============================================================================
