----------------------------- MODULE MCVelocity -----------------------------
(* Four attempts with one card, limits of one and two.                     *)
EXTENDS Velocity, TLC

CONSTANTS a1, a2, a3, a4

MCAttempts == {a1, a2, a3, a4}
MCBackends == {"memory", "redis"}
MCSymmetry == Permutations(MCAttempts)

Order(amount, mode) == [amount |-> amount, mode |-> mode]

\* A small chip payment, and one that is refused whatever the count.
MCOrders == {Order(5000, "05"), Order(1000001, "05")}

\* All amounts at the edges of the rules.
EdgeAmounts == {0, 50000, 50001, 200000, 200001, 1000000, 1000001}

\* More attempts, more money or a keyed entry never make the outcome milder.
ASSUME RulesAreMonotone ==
    \A n, m \in 0..(DeclineCount + 1), x, y \in EdgeAmounts, mode \in {"01", "05"} :
        n <= m /\ x <= y =>
            Severity[Evaluate(n, Order(x, mode))] <= Severity[Evaluate(m, Order(y, "01"))]
=============================================================================
