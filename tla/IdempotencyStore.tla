-------------------------- MODULE IdempotencyStore --------------------------
(***************************************************************************)
(* The table behind claim(), store_response() and clear_all() of           *)
(* cache/idempotency_store.py, with each call as one indivisible change:   *)
(* what InMemoryIdempotencyStore does under its lock.  ClaimProtocol adds  *)
(* the callers, RedisStore the backend that needs several commands for it, *)
(* Payment the request handlers.                                           *)
(***************************************************************************)

CONSTANTS
    Keys,        \* idempotency keys
    Hashes,      \* SHA-256 of request bodies
    Responses,   \* cached responses
    NoResponse,  \* "response": None
    Unclaimed    \* no entry for the key

ASSUME NoResponseAssumption == NoResponse \notin Responses

VARIABLE store   \* key -> its entry, or Unclaimed

EntryFor(h, response) == [hash |-> h, response |-> response]

Entries == [hash : Hashes, response : Responses \cup {NoResponse}]

ASSUME UnclaimedAssumption == Unclaimed \notin Entries

StoreTypeOK == store \in [Keys -> Entries \cup {Unclaimed}]

StoreInit == store = [k \in Keys |-> Unclaimed]

ClaimOutcome(k, h) ==
    IF store[k] = Unclaimed THEN "new"
    ELSE IF store[k].hash # h THEN "mismatch"
    ELSE IF store[k].response # NoResponse THEN "duplicate" ELSE "in_progress"

\* claim(): check and claim in one step.
Claim(k, h) ==
    store' = IF ClaimOutcome(k, h) = "new"
             THEN [store EXCEPT ![k] = EntryFor(h, NoResponse)] ELSE store

\* store_response(): into whatever entry the key has now.
StoreResponse(k, response) ==
    store' = IF store[k] = Unclaimed THEN store
             ELSE [store EXCEPT ![k] = EntryFor(store[k].hash, response)]

\* _prune_expired() drops entries older than the TTL.
Expire(k) ==
    /\ store[k] # Unclaimed
    /\ store' = [store EXCEPT ![k] = Unclaimed]

ClearAll == store' = [k \in Keys |-> Unclaimed]
=============================================================================
