------------------------------ MODULE Velocity ------------------------------
(***************************************************************************)
(* RiskEngine.evaluate() and the tracker it counts attempts with, for one  *)
(* card: windows of cards do not meet.  An attempt takes its time first    *)
(* and is recorded later, under the lock or as one MULTI of Redis; in      *)
(* between other attempts are recorded.  Replicas read clocks of their own.*)
(***************************************************************************)
EXTENDS Integers, FiniteSets, FiniteSetsExt

CONSTANTS
    Attempts,      \* requests with this card that reach the risk engine
    Backends,      \* trackers it may run with: "memory", "redis"
    Window,        \* velocity_window_seconds
    ReviewCount,   \* velocity_review_count
    DeclineCount,  \* velocity_decline_count
    Slack,         \* what EXPIRE adds to the window
    Delay,         \* how late after its time an attempt is recorded (bound)
    Skew,          \* how far replicas' clocks are apart (bound)
    Orders,        \* amount and entry mode of a request
    MaxTime, MaxRestarts  \* bounds

ASSUME TimesAssumption ==
    /\ {Window, Slack, Delay, Skew, MaxTime, MaxRestarts} \subseteq Nat
    /\ Skew + Delay <= Slack
ASSUME CountsAssumption == ReviewCount \in Nat /\ DeclineCount \in Nat

VARIABLES
    backend,   \* which tracker this run has
    now,       \* real time
    pc,        \* attempt -> where it is in record_and_count_recent()
    stamp,     \* attempt -> the time it took, by its replica's clock
    window,    \* attempts in the list or sorted set
    expiry,    \* when Redis drops the sorted set
    recorded,  \* attempts recorded since the store was last emptied
    count,     \* attempt -> what record_and_count_recent() returned
    outcome,   \* attempt -> what evaluate() returned
    restarts

velocityVars == <<backend, now, pc, stamp, window, expiry, recorded, count, outcome, restarts>>

-----------------------------------------------------------------------------
(* The rules *)

Severity == [approve |-> 0, review |-> 1, decline |-> 2]

\* What the rules escalate to, each on its own.
Escalations(recent, order) ==
    {o \in {"decline", "review"} :
        \/ recent > (IF o = "decline" THEN DeclineCount ELSE ReviewCount)
        \/ order.amount > (IF o = "decline" THEN 1000000 ELSE 200000)
        \/ o = "review" /\ order.mode = "01" /\ order.amount > 50000}

\* The outcome is whichever rule pushed hardest.
Evaluate(recent, order) ==
    CHOOSE o \in Escalations(recent, order) \cup {"approve"} :
        \A e \in Escalations(recent, order) : Severity[e] <= Severity[o]

-----------------------------------------------------------------------------
(* Types *)

VelocityTypes ==
    /\ backend \in Backends
    /\ now \in 0..MaxTime
    /\ pc \in [Attempts -> {"new", "stamped", "answered", "lost"}]
    /\ stamp \in [Attempts -> Nat]
    /\ window \subseteq recorded
    /\ expiry \in Nat
    /\ recorded \subseteq Attempts
    /\ count \in [Attempts -> Nat]
    /\ outcome \in [Attempts -> DOMAIN Severity]
    /\ restarts \in 0..MaxRestarts

VelocityInit ==
    /\ backend \in Backends
    /\ now = 0
    /\ pc = [a \in Attempts |-> "new"]
    /\ stamp = [a \in Attempts |-> 0]
    /\ window = {}
    /\ expiry = 0
    /\ recorded = {}
    /\ count = [a \in Attempts |-> 0]
    /\ outcome = [a \in Attempts |-> "approve"]
    /\ restarts = 0

-----------------------------------------------------------------------------
(* record_and_count_recent() *)

\* now = time.monotonic() before the lock, or time.time() of some replica.
TakeTime(a, ahead) ==
    /\ pc[a] = "new"
    /\ backend = "memory" => ahead = 0
    /\ stamp' = [stamp EXCEPT ![a] = now + ahead]
    /\ pc' = [pc EXCEPT ![a] = "stamped"]
    /\ UNCHANGED <<backend, now, window, expiry, recorded, count, outcome, restarts>>

\* Whether an attempt is kept by one of time t: the list keeps what is exactly
\* at the cutoff, ZREMRANGEBYSCORE is inclusive and removes it.
Inside(b, t) ==
    IF backend = "memory" THEN stamp[b] >= t - Window ELSE stamp[b] > t - Window

\* What is left in the window when a is recorded there.
Kept(a, before) == {b \in before \cup {a} : Inside(b, stamp[a])}

\* Recorded, pruned and counted in one step; evaluate() applies its rules.
Record(a, order, before) ==
    /\ pc[a] = "stamped"
    /\ window' = Kept(a, before)
    /\ recorded' = recorded \cup {a}
    /\ count' = [count EXCEPT ![a] = Cardinality(Kept(a, before))]
    /\ outcome' = [outcome EXCEPT ![a] = Evaluate(count'[a], order)]
    /\ pc' = [pc EXCEPT ![a] = "answered"]
    /\ UNCHANGED <<backend, now, stamp, restarts>>

RecordInMemory(a, order) ==
    /\ backend = "memory"
    /\ Record(a, order, window)
    /\ UNCHANGED expiry

\* Mutant: a refused attempt is not kept, "it did not happen".
MutRefusedForgotten(a, order) ==
    /\ backend = "redis"
    /\ LET before == IF now >= expiry THEN {} ELSE window IN
       Record(a, order, {b \in before : outcome[b] # "decline"})
    /\ expiry' = now + Window + Slack

\* Mutant: the key expires with the first attempt's window, as SET EX would.
MutExpiresEarly(a, order) ==
    /\ backend = "redis"
    /\ Record(a, order, IF now >= expiry THEN {} ELSE window)
    /\ expiry' = IF now >= expiry THEN now + Window ELSE expiry

\* ZADD, ZREMRANGEBYSCORE, ZCARD and EXPIRE; an expired key is not there.
RecordInRedis(a, order) ==
    /\ backend = "redis"
    /\ Record(a, order, IF now >= expiry THEN {} ELSE window)
    /\ expiry' = now + Window + Slack

-----------------------------------------------------------------------------
(* The rest of the world *)

\* Time passes; an attempt is recorded at most Delay after the time it took.
Tick ==
    /\ now < MaxTime
    /\ \A a \in Attempts : pc[a] = "stamped" => now < stamp[a] + Delay
    /\ now' = now + 1
    /\ UNCHANGED <<backend, pc, stamp, window, expiry, recorded, count, outcome, restarts>>

\* The process dies with its list and its threads; or Redis restarts, empty.
Restart ==
    /\ restarts < MaxRestarts
    /\ restarts' = restarts + 1
    /\ window' = {}
    /\ recorded' = {}
    /\ pc' = [a \in Attempts |->
                 IF backend = "memory" /\ pc[a] = "stamped" THEN "lost" ELSE pc[a]]
    /\ UNCHANGED <<backend, now, stamp, expiry, count, outcome>>

VelocityNext ==
    \/ \E a \in Attempts :
          \/ \E ahead \in 0..Skew : TakeTime(a, ahead)
          \/ \E order \in Orders : RecordInMemory(a, order) \/ RecordInRedis(a, order)
    \/ Tick
    \/ Restart

VelocitySpec == VelocityInit /\ [][VelocityNext]_velocityVars

-----------------------------------------------------------------------------
(* Properties *)

\* "how many attempts fall within the window": the count has every attempt
\* within a window of the latest one recorded, and none that is outside the
\* caller's own, although attempts are recorded in another order than the one
\* they took their times in, and the key may expire in between.
CountIsTrue ==
    [][\A a \in Attempts : pc[a] = "stamped" /\ pc'[a] = "answered" =>
          LET all == recorded \cup {a}
              latest == Max({stamp[b] : b \in all})
          IN  count'[a] \in Cardinality({b \in all : Inside(b, latest)})
                            .. Cardinality({b \in all : Inside(b, stamp[a])})]_velocityVars

\* Within less than the window, shortened by how far times and recordings may
\* be apart, at most velocity_review_count attempts are approved and at most
\* velocity_decline_count are not declined, whichever replicas they reach.
LimitHolds ==
    \A first \in recorded :
        LET burst == {a \in recorded :
                         stamp[a] \in stamp[first]..(stamp[first] + Window - Delay - Skew - 1)}
        IN  /\ Cardinality({a \in burst : outcome[a] = "approve"}) <= ReviewCount
            /\ Cardinality({a \in burst : outcome[a] # "decline"}) <= DeclineCount
=============================================================================
