--------------------------- MODULE ClaimProtocol ----------------------------
(***************************************************************************)
(* Callers of the idempotency store: every handler claims before it does   *)
(* anything, processes only what it won, and stores the result at the end  *)
(* unless an exception ends it first.  This is the contract of the store's *)
(* docstring; the in-memory backend satisfies it as it stands.             *)
(***************************************************************************)
EXTENDS IdempotencyStore, Integers

CONSTANTS
    Callers,       \* concurrent requests
    Result(_, _),  \* the response a caller computes for a body hash
    MaxExpiries,   \* entries that outlive their TTL (bound)
    MaxClears      \* calls of clear_all() (bound)

VARIABLES
    caller,    \* what each caller is doing: its phase, key, hash and answer
    expiries,
    clears

vars == <<store, caller, expiries, clears>>

-----------------------------------------------------------------------------
(* Types *)

Outcomes == {"new", "duplicate", "mismatch", "in_progress"}

\* idle: not asking.  asking: inside claim().  working: won the claim.
\* told: claim() answered something else, with the cached response if any.
Phases == {"idle", "asking", "working", "told"}

CallerState(phase, k, h, outcome, response) ==
    [phase |-> phase, key |-> k, hash |-> h, outcome |-> outcome, response |-> response]

TypeOK ==
    /\ StoreTypeOK
    /\ caller \in [Callers -> [phase : Phases, key : Keys, hash : Hashes,
                               outcome : Outcomes, response : Responses \cup {NoResponse}]]
    /\ expiries \in 0..MaxExpiries
    /\ clears \in 0..MaxClears

Init ==
    /\ StoreInit
    /\ \E k \in Keys, h \in Hashes :
          caller = [c \in Callers |-> CallerState("idle", k, h, "new", NoResponse)]
    /\ expiries = 0
    /\ clears = 0

-----------------------------------------------------------------------------
(* Steps *)

Become(c, phase, outcome, response) ==
    caller' = [caller EXCEPT ![c] =
                  CallerState(phase, caller[c].key, caller[c].hash, outcome, response)]

Ask(c, k, h) ==
    /\ caller[c].phase \in {"idle", "told"}
    /\ caller' = [caller EXCEPT ![c] = CallerState("asking", k, h, "new", NoResponse)]
    /\ UNCHANGED <<store, expiries, clears>>

Win(c) ==
    LET k == caller[c].key  h == caller[c].hash IN
    /\ caller[c].phase = "asking"
    /\ ClaimOutcome(k, h) = "new"
    /\ Claim(k, h)
    /\ Become(c, "working", "new", NoResponse)
    /\ UNCHANGED <<expiries, clears>>

\* duplicate, mismatch or in_progress: the handler answers and is done.
Lose(c) ==
    LET k == caller[c].key  h == caller[c].hash  outcome == ClaimOutcome(k, h) IN
    /\ caller[c].phase = "asking"
    /\ outcome # "new"
    /\ Claim(k, h)
    /\ Become(c, "told", outcome,
              IF outcome = "duplicate" THEN store[k].response ELSE NoResponse)
    /\ UNCHANGED <<expiries, clears>>

\* Processing finished: store_response() with this caller's result.
Finish(c) ==
    /\ caller[c].phase = "working"
    /\ StoreResponse(caller[c].key, Result(c, caller[c].hash))
    /\ Become(c, "idle", "new", NoResponse)
    /\ UNCHANGED <<expiries, clears>>

\* An exception ends the handler: nothing is stored, nothing is released.
Fail(c) ==
    /\ caller[c].phase = "working"
    /\ Become(c, "idle", "new", NoResponse)
    /\ UNCHANGED <<store, expiries, clears>>

Working(k) == {c \in Callers : caller[c].phase = "working" /\ caller[c].key = k}

\* The TTL is a day and a handler takes seconds: an entry does not expire
\* under a caller that is still working on it.
TtlExpires(k) ==
    /\ expiries < MaxExpiries
    /\ Working(k) = {}
    /\ Expire(k)
    /\ expiries' = expiries + 1
    /\ UNCHANGED <<caller, clears>>

\* POST /ledger/reset ends with clear_all(): any user may call it at any time.
Clear ==
    /\ clears < MaxClears
    /\ ClearAll
    /\ clears' = clears + 1
    /\ UNCHANGED <<caller, expiries>>

Next ==
    \/ \E c \in Callers :
          \/ \E k \in Keys, h \in Hashes : Ask(c, k, h)
          \/ Win(c) \/ Lose(c) \/ Finish(c) \/ Fail(c)
    \/ \E k \in Keys : TtlExpires(k)
    \/ Clear

Spec == Init /\ [][Next]_vars

-----------------------------------------------------------------------------
(* Properties *)

\* Of all callers with one key at most one is past the claim.
OneWorker ==
    \A c, d \in Callers :
        /\ caller[c].phase = "working" /\ caller[d].phase = "working"
        /\ caller[c].key = caller[d].key
        => c = d
=============================================================================
