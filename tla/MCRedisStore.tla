---------------------------- MODULE MCRedisStore ----------------------------
(* Two callers that ask again and again, two bodies, one idempotency key.  *)
EXTENDS RedisStore

CONSTANTS c1, c2, k1, h1, h2

MCCallers == {c1, c2}
MCKeys == {k1}
MCHashes == {h1, h2}
MCResult(c, h) == <<c, h>>
MCResponses == MCCallers \X MCHashes
=============================================================================
