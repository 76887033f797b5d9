----------------------------- MODULE RedisStore -----------------------------
(***************************************************************************)
(* RedisIdempotencyStore: the same contract with two Redis keys per        *)
(* idempotency key and one Redis command per step.  Redis is external: a   *)
(* command is atomic, other callers' commands come between, and a key      *)
(* disappears when its own TTL is over.                                    *)
(***************************************************************************)
EXTENDS Integers

CONSTANTS
    Keys, Hashes, Responses, NoResponse, Unclaimed,
    Callers, Result(_, _), MaxExpiries, MaxClears,
    NoHash   \* GET of the hash key answers nil

ASSUME NoHashAssumption == NoHash \notin Hashes
ASSUME NoResponseAssumption == NoResponse \notin Responses
ASSUME UnclaimedAssumption ==
    Unclaimed \notin [hash : Hashes, response : Responses \cup {NoResponse}]
ASSUME ResultAssumption ==
    \A c \in Callers, h \in Hashes : Result(c, h) \in Responses
ASSUME BoundsAssumption == MaxExpiries \in Nat /\ MaxClears \in Nat

VARIABLES
    hashKey,      \* idempotency:<key>:hash, or NoHash
    responseKey,  \* idempotency:<key>:response, or NoResponse
    outlived,     \* keys whose response is left from an expired claim
    caller,       \* as in ClaimProtocol, with claim() opened into commands
    scan,         \* Redis keys the SCAN of clear_all() has not passed yet
    scanning,     \* clear_all() is running
    expiries,
    clears

redis == <<hashKey, responseKey, outlived>>
counts == <<expiries, clears>>
vars == <<redis, caller, scan, scanning, counts>>

-----------------------------------------------------------------------------
(* Types *)

Commands == {"set_nx", "get_hash", "get_response"}
Outcomes == {"new", "duplicate", "mismatch", "in_progress"}

RedisKeys == {"hash", "response"} \X Keys

CallerState(phase, k, h, outcome, response) ==
    [phase |-> phase, key |-> k, hash |-> h, outcome |-> outcome, response |-> response]

TypeOK ==
    /\ hashKey \in [Keys -> Hashes \cup {NoHash}]
    /\ responseKey \in [Keys -> Responses \cup {NoResponse}]
    /\ outlived \subseteq Keys
    /\ caller \in [Callers -> [phase : Commands \cup {"idle", "working", "told"},
                               key : Keys, hash : Hashes, outcome : Outcomes,
                               response : Responses \cup {NoResponse}]]
    /\ scan \subseteq RedisKeys
    /\ scanning \in BOOLEAN
    /\ expiries \in 0..MaxExpiries
    /\ clears \in 0..MaxClears

Init ==
    /\ hashKey = [k \in Keys |-> NoHash]
    /\ responseKey = [k \in Keys |-> NoResponse]
    /\ outlived = {}
    /\ \E k \in Keys, h \in Hashes :
          caller = [c \in Callers |-> CallerState("idle", k, h, "new", NoResponse)]
    /\ scan = {}
    /\ scanning = FALSE
    /\ expiries = 0
    /\ clears = 0

-----------------------------------------------------------------------------
(* claim(), command by command *)

Become(c, phase, outcome, response) ==
    caller' = [caller EXCEPT ![c] =
                  CallerState(phase, caller[c].key, caller[c].hash, outcome, response)]

Quiet == UNCHANGED <<scan, scanning, counts>>

Ask(c, k, h) ==
    /\ caller[c].phase \in {"idle", "told"}
    /\ caller' = [caller EXCEPT ![c] = CallerState("set_nx", k, h, "new", NoResponse)]
    /\ UNCHANGED redis /\ Quiet

\* Mutant: SET without NX.
MutSetWithoutNx(c) ==
    /\ caller[c].phase = "set_nx"
    /\ hashKey' = [hashKey EXCEPT ![caller[c].key] = caller[c].hash]
    /\ Become(c, "working", "new", NoResponse)
    /\ UNCHANGED <<responseKey, outlived>> /\ Quiet

\* SET hash NX EX ttl succeeds: this caller won.
SetNxWins(c) ==
    /\ caller[c].phase = "set_nx"
    /\ hashKey[caller[c].key] = NoHash
    /\ hashKey' = [hashKey EXCEPT ![caller[c].key] = caller[c].hash]
    /\ Become(c, "working", "new", NoResponse)
    /\ UNCHANGED <<responseKey, outlived>> /\ Quiet

\* SET hash NX finds the key taken.
SetNxLoses(c) ==
    /\ caller[c].phase = "set_nx"
    /\ hashKey[caller[c].key] # NoHash
    /\ Become(c, "get_hash", "new", NoResponse)
    /\ UNCHANGED redis /\ Quiet

\* Mutant: an expired claim is read again instead of claimed again.
MutReadsForever(c) ==
    /\ caller[c].phase = "get_hash"
    /\ hashKey[caller[c].key] = NoHash
    /\ Become(c, "get_hash", "new", NoResponse)
    /\ UNCHANGED redis /\ Quiet

\* GET hash answers nil: expired or cleared in between, claim() calls itself.
HashIsGone(c) ==
    /\ caller[c].phase = "get_hash"
    /\ hashKey[caller[c].key] = NoHash
    /\ Become(c, "set_nx", "new", NoResponse)
    /\ UNCHANGED redis /\ Quiet

HashDiffers(c) ==
    /\ caller[c].phase = "get_hash"
    /\ hashKey[caller[c].key] \notin {NoHash, caller[c].hash}
    /\ Become(c, "told", "mismatch", NoResponse)
    /\ UNCHANGED redis /\ Quiet

\* Mutant: the hash read back is not compared.
MutAnyHashMatches(c) ==
    /\ caller[c].phase = "get_hash"
    /\ hashKey[caller[c].key] # NoHash
    /\ Become(c, "get_response", "new", NoResponse)
    /\ UNCHANGED redis /\ Quiet

HashMatches(c) ==
    /\ caller[c].phase = "get_hash"
    /\ hashKey[caller[c].key] = caller[c].hash
    /\ Become(c, "get_response", "new", NoResponse)
    /\ UNCHANGED redis /\ Quiet

GetResponse(c) ==
    LET response == responseKey[caller[c].key] IN
    /\ caller[c].phase = "get_response"
    /\ Become(c, "told", IF response = NoResponse THEN "in_progress" ELSE "duplicate", response)
    /\ UNCHANGED redis /\ Quiet

-----------------------------------------------------------------------------
(* The end of a request *)

\* store_response(): an unconditional SET with a TTL of its own.
Finish(c) ==
    LET k == caller[c].key IN
    /\ caller[c].phase = "working"
    /\ responseKey' = [responseKey EXCEPT ![k] = Result(c, caller[c].hash)]
    /\ outlived' = IF hashKey[k] = NoHash THEN outlived \cup {k} ELSE outlived \ {k}
    /\ Become(c, "idle", "new", NoResponse)
    /\ UNCHANGED hashKey /\ Quiet

Fail(c) ==
    /\ caller[c].phase = "working"
    /\ Become(c, "idle", "new", NoResponse)
    /\ UNCHANGED redis /\ Quiet

-----------------------------------------------------------------------------
(* Expiry *)

Working(k) == {c \in Callers : caller[c].phase = "working" /\ caller[c].key = k}

\* The claim was written first and expires first, a day after its caller is
\* done; a response written later is still there.
HashExpires(k) ==
    /\ expiries < MaxExpiries
    /\ hashKey[k] # NoHash
    /\ Working(k) = {}
    /\ hashKey' = [hashKey EXCEPT ![k] = NoHash]
    /\ outlived' = IF responseKey[k] = NoResponse THEN outlived ELSE outlived \cup {k}
    /\ expiries' = expiries + 1
    /\ UNCHANGED <<responseKey, caller, scan, scanning, clears>>

\* A response expires after the claim it was stored under.
ResponseExpires(k) ==
    /\ k \in outlived
    /\ responseKey' = [responseKey EXCEPT ![k] = NoResponse]
    /\ outlived' = outlived \ {k}
    /\ UNCHANGED <<hashKey, caller, scan, scanning, counts>>

-----------------------------------------------------------------------------
(* clear_all() *)

\* SCAN passes every place of the keyspace once; places are independent, so
\* the order in which it reaches them is open.
BeginClear ==
    /\ ~scanning
    /\ clears < MaxClears
    /\ scanning' = TRUE
    /\ scan' = RedisKeys
    /\ clears' = clears + 1
    /\ UNCHANGED <<redis, caller, expiries>>

\* What SCAN returns is deleted, a key written since clear_all() began as well.
DeleteScanned(x) ==
    /\ x \in scan
    /\ IF x[1] = "hash"
       THEN /\ hashKey' = [hashKey EXCEPT ![x[2]] = NoHash]
            /\ outlived' = IF responseKey[x[2]] = NoResponse THEN outlived
                           ELSE outlived \cup {x[2]}
            /\ UNCHANGED responseKey
       ELSE /\ responseKey' = [responseKey EXCEPT ![x[2]] = NoResponse]
            /\ outlived' = outlived \ {x[2]}
            /\ UNCHANGED hashKey
    /\ scan' = scan \ {x}
    /\ UNCHANGED <<caller, scanning, counts>>

EndClear ==
    /\ scanning
    /\ scan = {}
    /\ scanning' = FALSE
    /\ UNCHANGED <<redis, caller, scan, counts>>

-----------------------------------------------------------------------------

ClaimStep(c) ==
    SetNxWins(c) \/ SetNxLoses(c) \/ HashIsGone(c) \/ HashDiffers(c)
        \/ HashMatches(c) \/ GetResponse(c)

Next ==
    \/ \E c \in Callers :
          \/ \E k \in Keys, h \in Hashes : Ask(c, k, h)
          \/ ClaimStep(c) \/ Finish(c) \/ Fail(c)
    \/ \E k \in Keys : HashExpires(k) \/ ResponseExpires(k)
    \/ BeginClear \/ EndClear
    \/ \E x \in RedisKeys : DeleteScanned(x)

Spec == Init /\ [][Next]_vars

\* A thread inside claim() keeps issuing its commands.
FairSpec == Spec /\ \A c \in Callers : WF_vars(ClaimStep(c))

-----------------------------------------------------------------------------
(* Properties *)

\* The atomic contract: a claim takes effect at the one command that decides
\* it, the calls of a caller that is still asking are not visible yet.
Contract ==
    INSTANCE ClaimProtocol WITH
        store <- [k \in Keys |-> IF hashKey[k] = NoHash THEN Unclaimed
                                 ELSE [hash |-> hashKey[k], response |-> responseKey[k]]],
        caller <- [c \in Callers |->
                      IF caller[c].phase \in Commands
                      THEN CallerState("asking", caller[c].key, caller[c].hash, "new", NoResponse)
                      ELSE caller[c]]

\* Until a claim expires or clear_all() is called, the separate commands of
\* all callers, in any interleaving, are steps of the atomic contract.
KeepsContract ==
    /\ Contract!Init
    /\ [][expiries' = 0 /\ clears' = 0 => Contract!Next]_(Contract!vars)

\* As long as clear_all() was never called one caller at most works on a key,
\* although the claim, its check and its expiry are separate commands.
OneWorkerUntilCleared == clears = 0 => Contract!OneWorker

\* "here's the cached response": as long as clear_all() was never called, a
\* response that has not outlived its claim was computed for the body that is
\* claimed now, whatever claims expired, were taken again or were abandoned.
ResponseFitsClaim ==
    clears = 0 => \A k \in Keys \ outlived :
        hashKey[k] # NoHash /\ responseKey[k] # NoResponse =>
            \E d \in Callers : responseKey[k] = Result(d, hashKey[k])

\* claim() calls itself when the hash it lost to is gone by the time it reads
\* it; with finitely many expiries and clears it answers all the same.
ClaimAnswers ==
    \A c \in Callers : caller[c].phase \in Commands ~> caller[c].phase \notin Commands
=============================================================================
