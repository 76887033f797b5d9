------------------------- MODULE SharedStoreProofs --------------------------
(***************************************************************************)
(* What replicas share through Redis.                                      *)
(*                                                                         *)
(* Idempotency, for any number of callers, keys, bodies and expiries:      *)
(* until the first clear_all(), a claim is won by one caller and the       *)
(* response behind it belongs to its body.  The invariant ties a working   *)
(* caller to the hash it wrote: the hash is there, so SET NX fails for     *)
(* everybody else.                                                         *)
(*                                                                         *)
(* Velocity, for any number of attempts, replicas' clocks, window, limits  *)
(* and times of recording: the count of an attempt is bounded from both    *)
(* sides, and within a shortened window no more attempts pass than the     *)
(* limits allow.  LimitHolds is not inductive: an attempt that is missing  *)
(* from the window must be too old for the next one, whether another       *)
(* attempt pruned it, by the time of its own replica, or the key expired.  *)
(***************************************************************************)
EXTENDS RedisStore, Velocity, FiniteSetTheorems, TLAPS


-----------------------------------------------------------------------------
(* Idempotency: the inductive invariant *)

AtWork(c) == caller[c].phase = "working"

\* A caller that works wrote the hash that is there.
HoldsClaim == \A c \in Callers : AtWork(c) => hashKey[caller[c].key] = caller[c].hash

OneAtWork == \A c, d \in Callers :
    AtWork(c) /\ AtWork(d) /\ caller[c].key = caller[d].key => c = d

\* A response without a claim is left from an older one.
StaleIsOutlived == \A k \in Keys :
    hashKey[k] = NoHash /\ responseKey[k] # NoResponse => k \in outlived

FitsClaim == \A k \in Keys \ outlived :
    hashKey[k] # NoHash /\ responseKey[k] # NoResponse =>
        \E d \in Callers : responseKey[k] = Result(d, hashKey[k])

ClaimInv == scan = {} /\ HoldsClaim /\ OneAtWork /\ StaleIsOutlived /\ FitsClaim

IInv == TypeOK /\ (clears = 0 => ClaimInv)

-----------------------------------------------------------------------------
(* Types *)

\* A caller keeps its key and hash; only the rest of its state changes.
LEMMA BecomeIsTyped ==
    ASSUME TypeOK, NEW c \in Callers,
           NEW phase \in Commands \cup {"idle", "working", "told"},
           NEW reply \in Outcomes, NEW response \in Responses \cup {NoResponse},
           Become(c, phase, reply, response)
    PROVE  caller' \in [Callers -> [phase : Commands \cup {"idle", "working", "told"},
                                    key : Keys, hash : Hashes, outcome : Outcomes,
                                    response : Responses \cup {NoResponse}]]
BY DEF Become, CallerState, TypeOK

LEMMA ClaimStepIsTyped ==
    ASSUME TypeOK, NEW c \in Callers, ClaimStep(c)
    PROVE  TypeOK'
<1> DEFINE Answer == responseKey[caller[c].key]
<1>1. caller[c].key \in Keys /\ caller[c].hash \in Hashes
  BY DEF TypeOK
<1>2. Answer \in Responses \cup {NoResponse}
  BY <1>1 DEF TypeOK
<1>3. caller' \in [Callers -> [phase : Commands \cup {"idle", "working", "told"},
                               key : Keys, hash : Hashes, outcome : Outcomes,
                               response : Responses \cup {NoResponse}]]
  <2>1. CASE SetNxWins(c)
    BY <2>1, BecomeIsTyped DEF SetNxWins, Commands, Outcomes
  <2>2. CASE SetNxLoses(c)
    BY <2>2, BecomeIsTyped DEF SetNxLoses, Commands, Outcomes
  <2>3. CASE HashIsGone(c)
    BY <2>3, BecomeIsTyped DEF HashIsGone, Commands, Outcomes
  <2>4. CASE HashDiffers(c)
    BY <2>4, BecomeIsTyped DEF HashDiffers, Commands, Outcomes
  <2>5. CASE HashMatches(c)
    BY <2>5, BecomeIsTyped DEF HashMatches, Commands, Outcomes
  <2>6. CASE GetResponse(c)
    <3>1. Become(c, "told", IF Answer = NoResponse THEN "in_progress" ELSE "duplicate", Answer)
      BY <2>6 DEF GetResponse
    <3> HIDE DEF Answer
    <3> QED BY <1>2, <3>1, BecomeIsTyped DEF Outcomes
  <2> QED BY <2>1, <2>2, <2>3, <2>4, <2>5, <2>6 DEF ClaimStep
<1>4. hashKey' \in [Keys -> Hashes \cup {NoHash}]
  BY <1>1 DEF TypeOK, ClaimStep, SetNxWins, SetNxLoses, HashIsGone, HashDiffers,
     HashMatches, GetResponse, redis
<1>5. UNCHANGED <<responseKey, outlived, scan, scanning, counts>>
  BY DEF ClaimStep, SetNxWins, SetNxLoses, HashIsGone, HashDiffers, HashMatches,
     GetResponse, redis, Quiet
<1> QED BY <1>3, <1>4, <1>5 DEF TypeOK, counts

LEMMA CallerStepIsTyped ==
    ASSUME TypeOK, NEW c \in Callers,
           (\E k \in Keys, h \in Hashes : Ask(c, k, h)) \/ Finish(c) \/ Fail(c)
    PROVE  TypeOK'
<1>1. ASSUME NEW k \in Keys, NEW h \in Hashes, Ask(c, k, h)
      PROVE  TypeOK'
  BY <1>1 DEF Ask, CallerState, Commands, Outcomes, redis, Quiet, counts, TypeOK
<1>2. CASE Finish(c)
  <2>1. Become(c, "idle", "new", NoResponse)
    BY <1>2 DEF Finish
  <2>2. caller' \in [Callers -> [phase : Commands \cup {"idle", "working", "told"},
                                 key : Keys, hash : Hashes, outcome : Outcomes,
                                 response : Responses \cup {NoResponse}]]
    BY <2>1, BecomeIsTyped DEF Outcomes
  <2>3. Result(c, caller[c].hash) \in Responses /\ caller[c].key \in Keys
    BY ResultAssumption DEF TypeOK
  <2>4. responseKey' \in [Keys -> Responses \cup {NoResponse}] /\ outlived' \subseteq Keys
    BY <1>2, <2>3 DEF Finish, TypeOK
  <2> QED BY <1>2, <2>2, <2>4 DEF Finish, Quiet, counts, TypeOK
<1>3. CASE Fail(c)
  <2>1. caller' \in [Callers -> [phase : Commands \cup {"idle", "working", "told"},
                                 key : Keys, hash : Hashes, outcome : Outcomes,
                                 response : Responses \cup {NoResponse}]]
    BY <1>3, BecomeIsTyped DEF Fail, Outcomes
  <2> QED BY <1>3, <2>1 DEF Fail, redis, Quiet, counts, TypeOK
<1> QED BY <1>1, <1>2, <1>3

LEMMA RedisStepIsTyped ==
    ASSUME TypeOK,
           \/ \E k \in Keys : HashExpires(k) \/ ResponseExpires(k)
           \/ BeginClear \/ EndClear
           \/ \E x \in RedisKeys : DeleteScanned(x)
    PROVE  TypeOK'
<1>1. ASSUME NEW k \in Keys, HashExpires(k)
      PROVE  TypeOK'
  <2>1. expiries' \in 0..MaxExpiries
    BY <1>1, BoundsAssumption DEF HashExpires, TypeOK
  <2> QED BY <1>1, <2>1 DEF HashExpires, TypeOK
<1>2. ASSUME NEW k \in Keys, ResponseExpires(k)
      PROVE  TypeOK'
  BY <1>2 DEF ResponseExpires, counts, TypeOK
<1>3. CASE BeginClear
  <2>1. clears' \in 0..MaxClears
    BY <1>3, BoundsAssumption DEF BeginClear, TypeOK
  <2> QED BY <1>3, <2>1 DEF BeginClear, redis, TypeOK
<1>4. CASE EndClear
  BY <1>4 DEF EndClear, redis, counts, TypeOK
<1>5. ASSUME NEW x \in RedisKeys, DeleteScanned(x)
      PROVE  TypeOK'
  <2>1. x[2] \in Keys
    BY DEF RedisKeys
  <2>2. CASE x[1] = "hash"
    BY <1>5, <2>1, <2>2 DEF DeleteScanned, counts, TypeOK
  <2>3. CASE x[1] # "hash"
    BY <1>5, <2>1, <2>3 DEF DeleteScanned, counts, TypeOK
  <2> QED BY <2>2, <2>3
<1> QED BY <1>1, <1>2, <1>3, <1>4, <1>5

-----------------------------------------------------------------------------
(* Claims *)

\* A caller that does not take up work leaves the claims of all others alone.
LEMMA OnlyCallerMoves ==
    ASSUME TypeOK, NEW c \in Callers, NEW phase, NEW reply, NEW response,
           Become(c, phase, reply, response)
    PROVE  /\ \A d \in Callers \ {c} : caller'[d] = caller[d]
           /\ caller'[c].phase = phase
           /\ caller'[c].key = caller[c].key /\ caller'[c].hash = caller[c].hash
BY DEF Become, CallerState, TypeOK

\* SET NX succeeds only where no hash is: nobody works on the key, and a
\* response that is there is left from an older claim.
LEMMA WinKeepsClaims ==
    ASSUME TypeOK, ClaimInv, NEW c \in Callers, SetNxWins(c)
    PROVE  ClaimInv'
<1> DEFINE key == caller[c].key
<1>1. key \in Keys /\ caller[c].hash \in Hashes /\ caller[c].hash # NoHash
  BY NoHashAssumption DEF TypeOK
<1>2. hashKey[key] = NoHash /\ hashKey' = [hashKey EXCEPT ![key] = caller[c].hash]
  BY DEF SetNxWins
<1>3. UNCHANGED <<responseKey, outlived, scan>>
  BY DEF SetNxWins, Quiet
<1>4. /\ \A d \in Callers \ {c} : caller'[d] = caller[d]
      /\ caller'[c].key = key /\ caller'[c].hash = caller[c].hash
  BY OnlyCallerMoves DEF SetNxWins
<1>5. \A d \in Callers : AtWork(d) => caller[d].key # key
  BY <1>2, NoHashAssumption DEF ClaimInv, HoldsClaim, TypeOK
<1> HIDE DEF key
<1>6. HoldsClaim'
  BY <1>1, <1>2, <1>4, <1>5 DEF ClaimInv, HoldsClaim, AtWork, TypeOK
<1>7. OneAtWork'
  BY <1>4, <1>5 DEF ClaimInv, OneAtWork, AtWork
<1>8. StaleIsOutlived'
  BY <1>1, <1>2, <1>3 DEF ClaimInv, StaleIsOutlived, TypeOK
<1>9. FitsClaim'
  <2> SUFFICES ASSUME NEW k \in Keys \ outlived, hashKey'[k] # NoHash, responseKey[k] # NoResponse
               PROVE  \E d \in Callers : responseKey[k] = Result(d, hashKey'[k])
    BY <1>3 DEF FitsClaim
  <2>1. k # key
    BY <1>2 DEF ClaimInv, StaleIsOutlived
  <2>2. hashKey'[k] = hashKey[k]
    BY <1>2, <2>1 DEF TypeOK
  <2> QED BY <2>2 DEF ClaimInv, FitsClaim
<1> QED BY <1>3, <1>6, <1>7, <1>8, <1>9 DEF ClaimInv

\* Whatever else a caller does to itself only, it does not take up work.
LEMMA OthersKeepClaims ==
    ASSUME TypeOK, ClaimInv, NEW c \in Callers, UNCHANGED redis, UNCHANGED scan,
           \A d \in Callers \ {c} : caller'[d] = caller[d],
           caller'[c].phase # "working"
    PROVE  ClaimInv'
<1>1. UNCHANGED <<hashKey, responseKey, outlived>>
  BY DEF redis
<1>2. HoldsClaim' /\ OneAtWork'
  BY <1>1 DEF ClaimInv, HoldsClaim, OneAtWork, AtWork
<1>3. StaleIsOutlived' /\ FitsClaim'
  BY <1>1 DEF ClaimInv, StaleIsOutlived, FitsClaim
<1> QED BY <1>2, <1>3 DEF ClaimInv

\* A worker stores the response for the body whose hash it wrote.
LEMMA FinishKeepsClaims ==
    ASSUME TypeOK, ClaimInv, NEW c \in Callers, Finish(c)
    PROVE  ClaimInv'
<1> DEFINE key == caller[c].key
<1>1. key \in Keys /\ caller[c].hash \in Hashes
  BY DEF TypeOK
<1>2. hashKey[key] = caller[c].hash /\ hashKey[key] # NoHash
  BY <1>1, NoHashAssumption DEF Finish, ClaimInv, HoldsClaim, AtWork
<1>3. /\ responseKey' = [responseKey EXCEPT ![key] = Result(c, caller[c].hash)]
      /\ outlived' = outlived \ {key}
      /\ UNCHANGED <<hashKey, scan>>
  BY <1>2 DEF Finish, Quiet
<1>4. (\A d \in Callers \ {c} : caller'[d] = caller[d]) /\ caller'[c].phase = "idle"
  BY OnlyCallerMoves DEF Finish
<1> HIDE DEF key
<1>5. HoldsClaim' /\ OneAtWork'
  BY <1>3, <1>4 DEF ClaimInv, HoldsClaim, OneAtWork, AtWork
<1>6. StaleIsOutlived'
  BY <1>1, <1>2, <1>3 DEF ClaimInv, StaleIsOutlived, TypeOK
<1>7. FitsClaim'
  <2> SUFFICES ASSUME NEW k \in Keys, k \notin outlived \/ k = key,
                      hashKey[k] # NoHash, responseKey'[k] # NoResponse
               PROVE  \E d \in Callers : responseKey'[k] = Result(d, hashKey[k])
    BY <1>3 DEF FitsClaim
  <2>1. CASE k = key
    BY <1>1, <1>2, <1>3, <2>1 DEF TypeOK
  <2>2. CASE k # key
    <3>1. responseKey'[k] = responseKey[k]
      BY <1>3, <2>2 DEF TypeOK
    <3> QED BY <2>2, <3>1 DEF ClaimInv, FitsClaim
  <2> QED BY <2>1, <2>2
<1> QED BY <1>3, <1>5, <1>6, <1>7 DEF ClaimInv

\* A claim expires when its worker is done; its response outlives it.
LEMMA ExpiryKeepsClaims ==
    ASSUME TypeOK, ClaimInv, NEW k \in Keys, HashExpires(k) \/ ResponseExpires(k)
    PROVE  ClaimInv'
<1>1. UNCHANGED <<caller, scan>>
  BY DEF HashExpires, ResponseExpires
<1>2. CASE HashExpires(k)
  <2>1. /\ hashKey' = [hashKey EXCEPT ![k] = NoHash]
        /\ outlived' = IF responseKey[k] = NoResponse THEN outlived ELSE outlived \cup {k}
        /\ responseKey' = responseKey
    BY <1>2 DEF HashExpires
  <2>2. \A d \in Callers : AtWork(d) => caller[d].key # k
    BY <1>2 DEF HashExpires, Working, AtWork
  <2>3. HoldsClaim' /\ OneAtWork'
    BY <1>1, <2>1, <2>2 DEF ClaimInv, HoldsClaim, OneAtWork, AtWork, TypeOK
  <2>4. StaleIsOutlived'
    BY <2>1 DEF ClaimInv, StaleIsOutlived, TypeOK
  <2>5. FitsClaim'
    BY <2>1 DEF ClaimInv, FitsClaim, TypeOK
  <2> QED BY <1>1, <2>3, <2>4, <2>5 DEF ClaimInv
<1>3. CASE ResponseExpires(k)
  <2>1. /\ responseKey' = [responseKey EXCEPT ![k] = NoResponse]
        /\ outlived' = outlived \ {k}
        /\ hashKey' = hashKey
    BY <1>3 DEF ResponseExpires
  <2>2. HoldsClaim' /\ OneAtWork'
    BY <1>1, <2>1 DEF ClaimInv, HoldsClaim, OneAtWork, AtWork
  <2>3. StaleIsOutlived'
    BY <2>1 DEF ClaimInv, StaleIsOutlived, TypeOK
  <2>4. FitsClaim'
    BY <2>1 DEF ClaimInv, FitsClaim, TypeOK
  <2> QED BY <1>1, <2>2, <2>3, <2>4 DEF ClaimInv
<1> QED BY <1>2, <1>3

-----------------------------------------------------------------------------
(* The invariant holds *)

LEMMA InitEstablishesIInv == Init => IInv
<1> SUFFICES ASSUME Init PROVE IInv
  OBVIOUS
<1>1. PICK k \in Keys, h \in Hashes :
          caller = [c \in Callers |-> CallerState("idle", k, h, "new", NoResponse)]
  BY DEF Init
<1>2. TypeOK
  <2>1. caller \in [Callers -> [phase : Commands \cup {"idle", "working", "told"},
                                key : Keys, hash : Hashes, outcome : Outcomes,
                                response : Responses \cup {NoResponse}]]
    BY <1>1 DEF CallerState, Outcomes
  <2>2. expiries \in 0..MaxExpiries /\ clears \in 0..MaxClears
    BY BoundsAssumption DEF Init
  <2> QED BY <2>1, <2>2 DEF Init, TypeOK
<1>3. ClaimInv
  BY <1>1 DEF Init, ClaimInv, HoldsClaim, OneAtWork, AtWork, StaleIsOutlived, FitsClaim, CallerState
<1> QED BY <1>2, <1>3 DEF IInv

\* clear_all() is counted when it begins; nothing lowers the count.
LEMMA ClearsGrow ==
    ASSUME TypeOK, [Next]_vars, clears' = 0
    PROVE  clears = 0 /\ ~BeginClear
BY DEF TypeOK, Next, ClaimStep, Ask, SetNxWins, SetNxLoses, HashIsGone, HashDiffers,
   HashMatches, GetResponse, Finish, Fail, HashExpires, ResponseExpires, BeginClear,
   EndClear, DeleteScanned, Quiet, counts, vars

LEMMA StepPreservesIInv ==
    ASSUME IInv, [Next]_vars
    PROVE  IInv'
<1> USE DEF IInv
<1>1. TypeOK'
  <2>1. CASE UNCHANGED vars
    BY <2>1 DEF vars, redis, counts, TypeOK
  <2> QED BY <2>1, ClaimStepIsTyped, CallerStepIsTyped, RedisStepIsTyped DEF Next
<1>2. ASSUME clears' = 0 PROVE ClaimInv'
  <2>1. ClaimInv /\ ~BeginClear
    BY <1>2, ClearsGrow
  <2>2. ASSUME NEW c \in Callers, NEW k \in Keys, NEW h \in Hashes, Ask(c, k, h)
        PROVE  ClaimInv'
    <3>1. /\ \A d \in Callers \ {c} : caller'[d] = caller[d]
          /\ caller'[c].phase = "set_nx"
      BY <2>2 DEF Ask, CallerState, TypeOK
    <3> QED BY <2>1, <2>2, <3>1, OthersKeepClaims DEF Ask, Quiet
  <2>3. ASSUME NEW c \in Callers, ClaimStep(c) \/ Finish(c) \/ Fail(c)
        PROVE  ClaimInv'
    <3>1. CASE SetNxWins(c)
      BY <2>1, <3>1, WinKeepsClaims
    <3>2. CASE Finish(c)
      BY <2>1, <3>2, FinishKeepsClaims
    <3>3. CASE ~(SetNxWins(c) \/ Finish(c))
      <4>1. \E phase \in Commands \cup {"idle", "told"}, reply \in Outcomes,
               response \in Responses \cup {NoResponse} : Become(c, phase, reply, response)
        <5>1. responseKey[caller[c].key] \in Responses \cup {NoResponse}
          BY DEF TypeOK
        <5> QED BY <2>3, <3>3, <5>1 DEF ClaimStep, SetNxLoses, HashIsGone, HashDiffers,
                HashMatches, GetResponse, Fail, Commands, Outcomes
      <4>2. UNCHANGED redis /\ UNCHANGED scan
        BY <2>3, <3>3 DEF ClaimStep, SetNxLoses, HashIsGone, HashDiffers, HashMatches,
           GetResponse, Fail, Quiet
      <4>3. (\A d \in Callers \ {c} : caller'[d] = caller[d]) /\ caller'[c].phase # "working"
        BY <4>1, OnlyCallerMoves DEF Commands
      <4> QED BY <2>1, <4>2, <4>3, OthersKeepClaims
    <3> QED BY <3>1, <3>2, <3>3
  <2>4. ASSUME NEW k \in Keys, HashExpires(k) \/ ResponseExpires(k)
        PROVE  ClaimInv'
    BY <2>1, <2>4, ExpiryKeepsClaims
  <2>5. ASSUME NEW x \in RedisKeys, DeleteScanned(x)
        PROVE  ClaimInv'
    BY <2>1, <2>5 DEF DeleteScanned, ClaimInv
  <2>6. CASE EndClear \/ UNCHANGED vars
    <3>1. UNCHANGED <<hashKey, responseKey, outlived, caller, scan>>
      BY <2>6 DEF EndClear, vars, redis
    <3> QED BY <2>1, <3>1 DEF ClaimInv, HoldsClaim, OneAtWork, AtWork, StaleIsOutlived, FitsClaim
  <2> QED BY <2>1, <2>2, <2>3, <2>4, <2>5, <2>6 DEF Next
<1> QED BY <1>1, <1>2

LEMMA Invariance == Spec => []IInv
<1>1. IInv /\ [Next]_vars => IInv'
  BY StepPreservesIInv
<1> QED BY InitEstablishesIInv, <1>1, PTL DEF Spec

\* Until the first clear_all(), at most one caller at a time is past the claim
\* of a key, for any number of callers, keys, bodies and expiries.
THEOREM OneWorkerAtATime == Spec => []OneWorkerUntilCleared
<1>1. IInv => OneWorkerUntilCleared
  <2> SUFFICES ASSUME OneAtWork, TypeOK PROVE Contract!OneWorker
    BY DEF IInv, ClaimInv, OneWorkerUntilCleared
  <2> QED BY DEF Contract!OneWorker, OneAtWork, AtWork, Commands, CallerState, TypeOK
<1> QED BY Invariance, <1>1, PTL

\* Until the first clear_all(), the response a duplicate is answered with was
\* computed for the body that holds the claim, unless it outlived its own.
THEOREM CachedResponseFits == Spec => []ResponseFitsClaim
<1>1. IInv => ResponseFitsClaim
  BY DEF IInv, ClaimInv, FitsClaim, ResponseFitsClaim
<1> QED BY Invariance, <1>1, PTL

-----------------------------------------------------------------------------
(* The atomic contract *)

\* Until something expires or is cleared: what a caller read is still so.
ReadIsSo ==
    /\ outlived = {}
    /\ \A c \in Callers :
          /\ caller[c].phase = "get_hash" => hashKey[caller[c].key] # NoHash
          /\ caller[c].phase = "get_response" => hashKey[caller[c].key] = caller[c].hash

Undisturbed == expiries = 0 /\ clears = 0

RefInv == IInv /\ (Undisturbed => ReadIsSo)

\* The store and the callers as the contract sees them.
AbsStore == [k \in Keys |-> IF hashKey[k] = NoHash THEN Unclaimed
                            ELSE [hash |-> hashKey[k], response |-> responseKey[k]]]
AbsCaller == [c \in Callers |->
                 IF caller[c].phase \in Commands
                 THEN CallerState("asking", caller[c].key, caller[c].hash, "new", NoResponse)
                 ELSE caller[c]]

LEMMA CountsGrow ==
    ASSUME TypeOK, [Next]_vars, Undisturbed'
    PROVE  Undisturbed /\ ~BeginClear /\ \A k \in Keys : ~HashExpires(k)
BY DEF Undisturbed, TypeOK, Next, ClaimStep, Ask, SetNxWins, SetNxLoses, HashIsGone,
   HashDiffers, HashMatches, GetResponse, Finish, Fail, HashExpires, ResponseExpires,
   BeginClear, EndClear, DeleteScanned, Quiet, counts, vars

\* In an undisturbed step hashes only appear, and what is left of an older
\* claim does not.
LEMMA HashesStay ==
    ASSUME IInv, ReadIsSo, Undisturbed, [Next]_vars, Undisturbed'
    PROVE  /\ outlived' = {}
           /\ \A k \in Keys : hashKey[k] # NoHash => hashKey'[k] = hashKey[k]
<1>1. ClaimInv /\ TypeOK
  BY DEF IInv, Undisturbed
<1>2. ~BeginClear /\ (\A k \in Keys : ~HashExpires(k) /\ ~ResponseExpires(k))
      /\ (\A x \in RedisKeys : ~DeleteScanned(x))
  BY <1>1, CountsGrow DEF ReadIsSo, ResponseExpires, DeleteScanned, ClaimInv
<1>3. ASSUME NEW c \in Callers, SetNxWins(c)
      PROVE  /\ outlived' = {}
             /\ \A k \in Keys : hashKey[k] # NoHash => hashKey'[k] = hashKey[k]
  BY <1>1, <1>3 DEF SetNxWins, ReadIsSo, TypeOK
<1>4. ASSUME NEW c \in Callers, Finish(c)
      PROVE  outlived' = {} /\ hashKey' = hashKey
  <2>1. caller[c].hash \in Hashes
    BY <1>1 DEF TypeOK
  <2>2. hashKey[caller[c].key] # NoHash
    BY <1>1, <1>4, <2>1, NoHashAssumption DEF Finish, ClaimInv, HoldsClaim, AtWork
  <2> QED BY <1>4, <2>2 DEF Finish, ReadIsSo
<1>5. ASSUME ~\E c \in Callers : SetNxWins(c) \/ Finish(c)
      PROVE  outlived' = {} /\ hashKey' = hashKey
  BY <1>2, <1>5 DEF Next, Ask, ClaimStep, SetNxLoses, HashIsGone, HashDiffers,
     HashMatches, GetResponse, Fail, EndClear, vars, redis, ReadIsSo
<1> QED BY <1>3, <1>4, <1>5

\* A caller that begins to wait for the hash or the response saw the hash.
LEMMA CallersReadOn ==
    ASSUME TypeOK, [Next]_vars, NEW c \in Callers
    PROVE  /\ caller'[c].phase = "get_hash" /\ caller[c].phase # "get_hash"
                => /\ hashKey[caller[c].key] # NoHash
                   /\ caller'[c].key = caller[c].key /\ hashKey' = hashKey
           /\ caller'[c].phase = "get_response" /\ caller[c].phase # "get_response"
                => /\ hashKey[caller[c].key] = caller[c].hash /\ hashKey' = hashKey
                   /\ caller'[c].key = caller[c].key /\ caller'[c].hash = caller[c].hash
           /\ caller'[c].phase = caller[c].phase /\ caller[c].phase \in {"get_hash", "get_response"}
                => caller'[c].key = caller[c].key /\ caller'[c].hash = caller[c].hash
<1>1. CASE caller'[c] = caller[c]
  BY <1>1
<1>2. ASSUME NEW d \in Callers, NEW k \in Keys, NEW h \in Hashes, Ask(d, k, h), c = d
      PROVE  caller'[c].phase = "set_nx"
  BY <1>2 DEF Ask, CallerState, TypeOK
<1>3. CASE ClaimStep(c) \/ Finish(c) \/ Fail(c)
  BY <1>3 DEF ClaimStep, SetNxWins, SetNxLoses, HashIsGone, HashDiffers, HashMatches,
     GetResponse, Finish, Fail, Become, CallerState, redis, TypeOK
<1>4. \/ caller'[c] = caller[c] \/ ClaimStep(c) \/ Finish(c) \/ Fail(c)
      \/ \E k \in Keys, h \in Hashes : Ask(c, k, h)
  BY DEF Next, Ask, ClaimStep, SetNxWins, SetNxLoses, HashIsGone, HashDiffers, HashMatches,
     GetResponse, Finish, Fail, Become, CallerState, HashExpires, ResponseExpires,
     BeginClear, EndClear, DeleteScanned, vars, TypeOK
<1> QED BY <1>1, <1>2, <1>3, <1>4

LEMMA RefInvPreserved ==
    ASSUME RefInv, [Next]_vars
    PROVE  RefInv'
<1>1. IInv'
  BY StepPreservesIInv DEF RefInv
<1>2. ASSUME Undisturbed' PROVE ReadIsSo'
  <2>1. TypeOK /\ TypeOK' /\ IInv /\ Undisturbed /\ ReadIsSo
    BY <1>1, <1>2, CountsGrow DEF RefInv, IInv
  <2>2. /\ outlived' = {}
        /\ \A k \in Keys : hashKey[k] # NoHash => hashKey'[k] = hashKey[k]
    BY <1>2, <2>1, HashesStay
  <2>3. ASSUME NEW c \in Callers, caller'[c].phase = "get_hash"
        PROVE  hashKey'[caller'[c].key] # NoHash
    <3>1. caller[c].key \in Keys /\ caller[c].hash \in Hashes
      BY <2>1 DEF TypeOK
    <3> QED BY <2>1, <2>2, <2>3, <3>1, CallersReadOn DEF ReadIsSo
  <2>4. ASSUME NEW c \in Callers, caller'[c].phase = "get_response"
        PROVE  hashKey'[caller'[c].key] = caller'[c].hash
    <3>1. caller[c].key \in Keys /\ caller[c].hash \in Hashes
      BY <2>1 DEF TypeOK
    <3> QED BY <2>1, <2>2, <2>4, <3>1, CallersReadOn, NoHashAssumption DEF ReadIsSo
  <2> QED BY <2>2, <2>3, <2>4 DEF ReadIsSo
<1> QED BY <1>1, <1>2 DEF RefInv

\* What a step of caller c changes of the callers the contract sees.
LEMMA AbsCallerStep ==
    ASSUME TypeOK, NEW c \in Callers, NEW phase, NEW reply, NEW response,
           Become(c, phase, reply, response)
    PROVE  AbsCaller' =
               [AbsCaller EXCEPT ![c] =
                   IF phase \in Commands
                   THEN CallerState("asking", caller[c].key, caller[c].hash, "new", NoResponse)
                   ELSE CallerState(phase, caller[c].key, caller[c].hash, reply, response)]
BY DEF Become, CallerState, AbsCaller, TypeOK

\* A caller between two commands has asked; the contract sees no more of it.
LEMMA StillAsking ==
    ASSUME TypeOK, NEW c \in Callers, NEW phase \in Commands,
           caller[c].phase \in Commands, Become(c, phase, "new", NoResponse), UNCHANGED redis
    PROVE  UNCHANGED <<AbsStore, AbsCaller>>
<1>1. AbsCaller' = AbsCaller
  BY DEF Become, CallerState, AbsCaller, TypeOK
<1>2. AbsStore' = AbsStore
  BY DEF AbsStore, redis
<1> QED BY <1>1, <1>2

LEMMA AskIsAsk ==
    ASSUME TypeOK, NEW c \in Callers, NEW k \in Keys, NEW h \in Hashes, Ask(c, k, h)
    PROVE  Contract!Ask(c, k, h)
<1>1. AbsCaller[c].phase \in {"idle", "told"}
  BY DEF Ask, AbsCaller, Commands
<1>2. AbsCaller' = [AbsCaller EXCEPT ![c] = CallerState("asking", k, h, "new", NoResponse)]
  BY DEF Ask, AbsCaller, CallerState, Commands, TypeOK
<1>3. UNCHANGED <<AbsStore, expiries, clears>>
  BY DEF Ask, AbsStore, redis, Quiet, counts
<1> QED BY <1>1, <1>2, <1>3 DEF Contract!Ask, AbsCaller, AbsStore, CallerState, Contract!CallerState

\* SET NX that succeeds is the whole claim.
LEMMA SetNxIsWin ==
    ASSUME TypeOK, ClaimInv, outlived = {}, NEW c \in Callers, SetNxWins(c)
    PROVE  Contract!Win(c)
<1> DEFINE k == caller[c].key
           h == caller[c].hash
<1>1. k \in Keys /\ h \in Hashes /\ h # NoHash
  BY NoHashAssumption DEF TypeOK
<1>2. hashKey[k] = NoHash /\ responseKey[k] = NoResponse
  BY <1>1 DEF SetNxWins, ClaimInv, StaleIsOutlived
<1>3. AbsStore[k] = Unclaimed
  BY <1>1, <1>2 DEF AbsStore
<1>4. AbsStore' = [AbsStore EXCEPT ![k] = [hash |-> h, response |-> NoResponse]]
  BY <1>1, <1>2 DEF SetNxWins, AbsStore, TypeOK
<1>5. AbsCaller[c] = CallerState("asking", k, h, "new", NoResponse)
  BY DEF SetNxWins, AbsCaller, Commands
<1>6. AbsCaller' = [AbsCaller EXCEPT ![c] = CallerState("working", k, h, "new", NoResponse)]
  BY AbsCallerStep DEF SetNxWins, Commands
<1>7. UNCHANGED <<expiries, clears>>
  BY DEF SetNxWins, Quiet, counts
<1>8. AbsCaller[c].phase = "asking" /\ AbsCaller[c].key = k /\ AbsCaller[c].hash = h
  BY <1>5 DEF CallerState
<1> HIDE DEF k, h
<1> QED BY <1>3, <1>4, <1>6, <1>7, <1>8
    DEF Contract!Win, Contract!ClaimOutcome, Contract!Claim, Contract!EntryFor, Contract!Become,
        Contract!CallerState, AbsStore, AbsCaller, CallerState

\* The answer to a caller that lost is decided when the hash differs, or when
\* the response is read.
LEMMA LastReadIsLose ==
    ASSUME TypeOK, ReadIsSo, NEW c \in Callers, HashDiffers(c) \/ GetResponse(c)
    PROVE  Contract!Lose(c)
<1> DEFINE k == caller[c].key
           h == caller[c].hash
           response == responseKey[k]
           reply == IF HashDiffers(c) THEN "mismatch"
                      ELSE IF response = NoResponse THEN "in_progress" ELSE "duplicate"
           told == IF HashDiffers(c) THEN NoResponse ELSE response
<1>1. k \in Keys /\ h \in Hashes /\ h # NoHash
  BY NoHashAssumption DEF TypeOK
<1>2. hashKey[k] # NoHash /\ hashKey[k] \in Hashes /\ response \in Responses \cup {NoResponse}
  BY <1>1 DEF HashDiffers, GetResponse, ReadIsSo, TypeOK
<1>3. AbsStore[k] = [hash |-> hashKey[k], response |-> response]
  BY <1>1, <1>2 DEF AbsStore
<1>4. AbsStore[k] # Unclaimed
  BY <1>2, <1>3, UnclaimedAssumption
<1>5. /\ HashDiffers(c) => hashKey[k] # h
      /\ ~HashDiffers(c) => hashKey[k] = h
  BY DEF HashDiffers, GetResponse, ReadIsSo
<1>6. AbsCaller[c] = CallerState("asking", k, h, "new", NoResponse)
  BY DEF HashDiffers, GetResponse, AbsCaller, Commands
<1>7. AbsCaller[c].phase = "asking" /\ AbsCaller[c].key = k /\ AbsCaller[c].hash = h
  BY <1>6 DEF CallerState
<1>8. Become(c, "told", reply, told)
  BY DEF HashDiffers, GetResponse
<1>9. UNCHANGED <<AbsStore, expiries, clears>>
  BY DEF HashDiffers, GetResponse, AbsStore, redis, Quiet, counts
<1>10. AbsStore[k].hash = hashKey[k] /\ AbsStore[k].response = response
  BY <1>3
<1> HIDE DEF k, h, response
<1>11. Contract!ClaimOutcome(k, h) = reply
  BY <1>4, <1>5, <1>10 DEF Contract!ClaimOutcome, AbsStore
<1>12. told = IF reply = "duplicate" THEN AbsStore[k].response ELSE NoResponse
  BY <1>10
<1>13. reply # "new"
  OBVIOUS
<1> HIDE DEF reply, told
<1>14. AbsCaller' = [AbsCaller EXCEPT ![c] = CallerState("told", k, h, reply, told)]
  BY <1>8, AbsCallerStep DEF Commands, k, h
<1> DEFINE answer == Contract!ClaimOutcome(AbsCaller[c].key, AbsCaller[c].hash)
<1>15. /\ answer = reply /\ answer # "new"
       /\ Contract!Claim(AbsCaller[c].key, AbsCaller[c].hash)
  BY <1>7, <1>9, <1>11, <1>13 DEF Contract!Claim, Contract!ClaimOutcome, AbsStore
<1>16. Contract!Become(c, "told", answer,
                        IF answer = "duplicate" THEN AbsStore[AbsCaller[c].key].response
                                                ELSE NoResponse)
  <2> HIDE DEF answer
  <2> QED BY <1>7, <1>12, <1>14, <1>15 DEF Contract!Become, Contract!CallerState, AbsCaller, CallerState
<1>17. UNCHANGED <<expiries, clears>>
  BY <1>9
<1> QED BY <1>7, <1>15, <1>16, <1>17 DEF Contract!Lose, AbsStore, AbsCaller

LEMMA FinishIsFinish ==
    ASSUME TypeOK, ClaimInv, NEW c \in Callers, Finish(c)
    PROVE  Contract!Finish(c)
<1> DEFINE k == caller[c].key
           h == caller[c].hash
<1>1. k \in Keys /\ h \in Hashes /\ h # NoHash
  BY NoHashAssumption DEF TypeOK
<1>2. hashKey[k] = h
  BY DEF Finish, ClaimInv, HoldsClaim, AtWork
<1>3. AbsStore[k] = [hash |-> h, response |-> responseKey[k]]
  BY <1>1, <1>2 DEF AbsStore
<1>4. AbsStore[k] # Unclaimed /\ AbsStore[k].hash = h
  BY <1>1, <1>3, UnclaimedAssumption DEF TypeOK
<1>5. AbsStore' = [AbsStore EXCEPT ![k] = [hash |-> h, response |-> Result(c, h)]]
  BY <1>1, <1>2 DEF Finish, AbsStore, TypeOK
<1>6. AbsCaller[c] = caller[c] /\ caller[c].phase = "working"
  BY DEF Finish, AbsCaller, Commands
<1>7. AbsCaller' = [AbsCaller EXCEPT ![c] = CallerState("idle", k, h, "new", NoResponse)]
  BY AbsCallerStep DEF Finish, Commands
<1>8. UNCHANGED <<expiries, clears>>
  BY DEF Finish, Quiet, counts
<1>9. AbsCaller[c].phase = "working" /\ AbsCaller[c].key = k /\ AbsCaller[c].hash = h
  BY <1>6
<1> HIDE DEF k, h
<1>10. Contract!StoreResponse(AbsCaller[c].key, Result(c, AbsCaller[c].hash))
  BY <1>4, <1>5, <1>9 DEF Contract!StoreResponse, Contract!EntryFor, AbsStore
<1>11. Contract!Become(c, "idle", "new", NoResponse)
  BY <1>7, <1>9 DEF Contract!Become, Contract!CallerState, AbsCaller, CallerState
<1> QED BY <1>8, <1>9, <1>10, <1>11 DEF Contract!Finish, AbsCaller

LEMMA FailIsFail ==
    ASSUME TypeOK, NEW c \in Callers, Fail(c)
    PROVE  Contract!Fail(c)
<1>1. AbsCaller[c] = caller[c] /\ caller[c].phase = "working"
  BY DEF Fail, AbsCaller, Commands
<1>2. AbsCaller' = [AbsCaller EXCEPT ![c] =
                       CallerState("idle", caller[c].key, caller[c].hash, "new", NoResponse)]
  BY AbsCallerStep DEF Fail, Commands
<1>3. UNCHANGED <<AbsStore, expiries, clears>>
  BY DEF Fail, AbsStore, redis, Quiet, counts
<1> QED BY <1>1, <1>2, <1>3
    DEF Contract!Fail, Contract!Become, Contract!CallerState, AbsStore, AbsCaller, CallerState

-----------------------------------------------------------------------------
(* The commands implement the contract *)

LEMMA StepIsContractStep ==
    ASSUME RefInv, [Next]_vars, Undisturbed'
    PROVE  Contract!Next \/ UNCHANGED <<AbsStore, AbsCaller, expiries, clears>>
<1>1. TypeOK /\ ClaimInv /\ ReadIsSo
  BY CountsGrow DEF RefInv, IInv, Undisturbed
<1>2. ~BeginClear /\ \A k \in Keys : ~HashExpires(k)
  BY <1>1, CountsGrow
<1>3. ASSUME NEW c \in Callers, NEW k \in Keys, NEW h \in Hashes, Ask(c, k, h)
      PROVE  Contract!Next
  BY <1>1, <1>3, AskIsAsk DEF Contract!Next
<1>4. ASSUME NEW c \in Callers, SetNxWins(c)
      PROVE  Contract!Next
  BY <1>1, <1>4, SetNxIsWin DEF Contract!Next, ReadIsSo
<1>5. ASSUME NEW c \in Callers, HashDiffers(c) \/ GetResponse(c)
      PROVE  Contract!Next
  BY <1>1, <1>5, LastReadIsLose DEF Contract!Next
<1>6. ASSUME NEW c \in Callers, Finish(c) \/ Fail(c)
      PROVE  Contract!Next
  BY <1>1, <1>6, FinishIsFinish, FailIsFail DEF Contract!Next
<1>7. ASSUME NEW c \in Callers, SetNxLoses(c) \/ HashIsGone(c) \/ HashMatches(c)
      PROVE  UNCHANGED <<AbsStore, AbsCaller, expiries, clears>>
  <2>1. /\ caller[c].phase \in Commands /\ UNCHANGED redis /\ UNCHANGED <<expiries, clears>>
        /\ \E phase \in Commands : Become(c, phase, "new", NoResponse)
    BY <1>7 DEF SetNxLoses, HashIsGone, HashMatches, Commands, Quiet, counts
  <2> QED BY <1>1, <2>1, StillAsking
<1>8. CASE UNCHANGED <<redis, caller, counts>>
  BY <1>8 DEF AbsStore, AbsCaller, redis, counts
<1>9. /\ \A k \in Keys : ~ResponseExpires(k)
      /\ \A x \in RedisKeys : ~DeleteScanned(x)
  BY <1>1 DEF ReadIsSo, ClaimInv, ResponseExpires, DeleteScanned
<1>10. EndClear \/ UNCHANGED vars => UNCHANGED <<redis, caller, counts>>
  BY DEF EndClear, vars
<1> QED BY <1>2, <1>3, <1>4, <1>5, <1>6, <1>7, <1>8, <1>9, <1>10 DEF Next, ClaimStep

LEMMA InitIsContractInit == Init => RefInv /\ Contract!Init
<1> SUFFICES ASSUME Init PROVE RefInv /\ Contract!Init
  OBVIOUS
<1>1. PICK k \in Keys, h \in Hashes :
          caller = [c \in Callers |-> CallerState("idle", k, h, "new", NoResponse)]
  BY DEF Init
<1>2. ReadIsSo
  BY <1>1 DEF Init, ReadIsSo, CallerState
<1>3. AbsStore = [i \in Keys |-> Unclaimed]
  BY DEF Init, AbsStore
<1>4. AbsCaller = [c \in Callers |-> CallerState("idle", k, h, "new", NoResponse)]
  BY <1>1 DEF AbsCaller, CallerState, Commands
<1>5. Contract!Init
  BY <1>3, <1>4 DEF Init, Contract!Init, Contract!StoreInit, Contract!CallerState,
     AbsStore, AbsCaller, CallerState
<1> QED BY <1>2, <1>5, InitEstablishesIInv DEF RefInv

\* Until a claim expires or clear_all() is called, RedisIdempotencyStore's
\* commands, interleaved among any number of callers, implement the claim
\* contract of the docstring: each claim takes effect at one of its commands.
THEOREM CommandsKeepContract == Spec => KeepsContract
<1>1. RefInv /\ [Next]_vars => RefInv'
  BY RefInvPreserved
<1>2. RefInv /\ [Next]_vars
        => [expiries' = 0 /\ clears' = 0 => Contract!Next]_(Contract!vars)
  BY StepIsContractStep DEF Undisturbed, Contract!vars, AbsStore, AbsCaller
<1> QED BY InitIsContractInit, <1>1, <1>2, PTL DEF Spec, KeepsContract

-----------------------------------------------------------------------------
(* Velocity: the inductive invariant *)

FiniteInv == IsFiniteSet(recorded)

\* What is recorded is answered, and no time is further ahead than Skew; an
\* attempt that waits for the lock has taken its time at most Delay ago.
TimeInv ==
    \A a \in Attempts :
        /\ a \in recorded => pc[a] = "answered" /\ stamp[a] <= now + Skew
        /\ pc[a] = "stamped" => now - Delay <= stamp[a] /\ stamp[a] <= now + Skew

\* What is missing was pruned by the time of a recorded attempt.
PrunedInv == \A b \in recorded \ window : \E c \in recorded : ~Inside(b, stamp[c])

\* The key outlives the window of whatever it holds.
ExpiryInv == backend # "memory" => \A b \in recorded : stamp[b] + Window + Slack <= expiry + Skew

\* One of the recorded attempts has the latest time.
LatestInv == recorded # {} => \E t \in recorded : \A b \in recorded : stamp[b] <= stamp[t]

\* The attempts of a stretch of time that is shorter than the window.
Burst(from) ==
    {a \in recorded : stamp[a] \in from..(from + Window - Delay - Skew - 1)}

\* LimitHolds, for stretches that begin at any time.
LimitInv ==
    \A from \in Int :
        /\ Cardinality({a \in Burst(from) : outcome[a] = "approve"}) <= ReviewCount
        /\ Cardinality({a \in Burst(from) : outcome[a] # "decline"}) <= DeclineCount

WindowInv == VelocityTypes /\ FiniteInv /\ TimeInv /\ PrunedInv /\ ExpiryInv /\ LatestInv

VelocityInv == WindowInv /\ LimitInv

-----------------------------------------------------------------------------
(* The rules *)

\* An outcome is one of three, and no milder than the count allows.
LEMMA RulesRespectCounts ==
    ASSUME NEW recent \in Nat, NEW order
    PROVE  /\ Evaluate(recent, order) \in DOMAIN Severity
           /\ Evaluate(recent, order) = "approve" => recent <= ReviewCount
           /\ Evaluate(recent, order) # "decline" => recent <= DeclineCount
<1> DEFINE E == Escalations(recent, order)
           Hardest(o) == \A e \in E : Severity[e] <= Severity[o]
<1>1. E \subseteq {"decline", "review"}
  BY DEF Escalations
<1>2. /\ recent > ReviewCount => "review" \in E
      /\ recent > DeclineCount => "decline" \in E
  BY DEF Escalations
<1>3. Severity["approve"] = 0 /\ Severity["review"] = 1 /\ Severity["decline"] = 2
  BY DEF Severity
<1>4. Evaluate(recent, order) = CHOOSE o \in E \cup {"approve"} : Hardest(o)
  BY DEF Evaluate
<1> HIDE DEF E
<1>5. \E o \in E \cup {"approve"} : Hardest(o)
  <2>1. CASE "decline" \in E
    BY <1>1, <1>3, <2>1
  <2>2. CASE "decline" \notin E /\ "review" \in E
    BY <1>1, <1>3, <2>2
  <2>3. CASE "decline" \notin E /\ "review" \notin E
    BY <1>1, <2>3
  <2> QED BY <2>1, <2>2, <2>3
<1> DEFINE o == Evaluate(recent, order)
<1>6. o \in E \cup {"approve"} /\ Hardest(o)
  BY <1>4, <1>5
<1> HIDE DEF o
<1>7. o \in {"approve", "review", "decline"}
  BY <1>1, <1>6
<1>8. o = "approve" => recent <= ReviewCount
  <2>1. SUFFICES ASSUME o = "approve", recent > ReviewCount PROVE FALSE
    BY CountsAssumption
  <2> QED BY <1>2, <1>3, <1>6, <2>1
<1>9. o # "decline" => recent <= DeclineCount
  <2>1. SUFFICES ASSUME o # "decline", recent > DeclineCount PROVE FALSE
    BY CountsAssumption
  <2>2. Severity["decline"] <= Severity[o]
    BY <1>2, <1>6, <2>1
  <2> QED BY <1>3, <1>7, <2>1, <2>2
<1>10. DOMAIN Severity = {"approve", "review", "decline"}
  BY DEF Severity
<1> QED BY <1>7, <1>8, <1>9, <1>10 DEF o

-----------------------------------------------------------------------------
(* Recording *)

\* What a tracker holds when an attempt reaches it.
Before == IF backend # "memory" /\ now >= expiry THEN {} ELSE window

\* Both trackers, as one step.
RecordStep(a, order) ==
    /\ Record(a, order, Before)
    /\ expiry' = IF backend = "memory" THEN expiry ELSE now + Window + Slack

LEMMA BothRecord ==
    ASSUME NEW a, NEW order, RecordInMemory(a, order) \/ RecordInRedis(a, order)
    PROVE  RecordStep(a, order)
<1>1. CASE RecordInMemory(a, order)
  BY <1>1 DEF RecordInMemory, RecordStep, Before
<1>2. CASE RecordInRedis(a, order)
  BY <1>2 DEF RecordInRedis, RecordStep, Before
<1> QED BY <1>1, <1>2

\* An attempt that was recorded and is not held is outside the window of the
\* one being recorded, or of one that was: it expired, or was pruned.
LEMMA MissingIsOld ==
    ASSUME WindowInv, NEW a \in Attempts, pc[a] = "stamped", NEW b \in recorded \ Before
    PROVE  \E c \in recorded \cup {a} : ~Inside(b, stamp[c])
<1>1. CASE backend # "memory" /\ now >= expiry
  <2>1. /\ stamp[b] + Window + Slack <= expiry + Skew
        /\ now - Delay <= stamp[a]
    BY <1>1 DEF WindowInv, ExpiryInv, TimeInv
  <2>2. b \in Attempts /\ stamp[a] \in Nat /\ stamp[b] \in Nat /\ expiry \in Nat /\ now \in Nat
    BY TimesAssumption DEF WindowInv, VelocityTypes
  <2>3. stamp[b] <= stamp[a] - Window
    BY <1>1, <2>1, <2>2, TimesAssumption
  <2>4. ~Inside(b, stamp[a])
    BY <1>1, <2>2, <2>3, TimesAssumption DEF Inside
  <2> QED BY <2>4
<1>2. CASE ~(backend # "memory" /\ now >= expiry)
  BY <1>2 DEF WindowInv, PrunedInv, Before
<1> QED BY <1>1, <1>2

\* So a recorded attempt whose time is close to that of the one being recorded,
\* whatever clocks they were taken from, is held.
LEMMA CloseIsHeld ==
    ASSUME WindowInv, NEW a \in Attempts, pc[a] = "stamped", NEW b \in recorded, NEW from \in Int,
           stamp[a] \in from..(from + Window - Delay - Skew - 1),
           stamp[b] \in from..(from + Window - Delay - Skew - 1)
    PROVE  b \in Before /\ Inside(b, stamp[a])
<1>1. /\ b \in Attempts /\ now \in Nat
      /\ stamp \in [Attempts -> Nat] /\ recorded \subseteq Attempts
      /\ {Window, Slack, Delay, Skew} \subseteq Nat
  BY TimesAssumption DEF WindowInv, VelocityTypes
<1>2. \A c \in recorded \cup {a} : stamp[c] <= now + Skew
  BY <1>1 DEF WindowInv, TimeInv
<1>3. now - Delay <= stamp[a]
  BY DEF WindowInv, TimeInv
<1>4. stamp[a] - stamp[b] <= Window - Delay - Skew - 1
  BY <1>1
<1>5. ASSUME NEW c \in recorded \cup {a}
      PROVE  Inside(b, stamp[c])
  <2>1. c \in Attempts /\ stamp[c] \in Nat /\ stamp[a] \in Nat /\ stamp[b] \in Nat
    BY <1>1
  <2>2. stamp[c] <= stamp[a] + Delay + Skew
    BY <1>1, <1>2, <1>3, <2>1
  <2>3. stamp[b] > stamp[c] - Window
    BY <1>1, <1>4, <2>1, <2>2
  <2> QED BY <1>1, <2>1, <2>3 DEF Inside
<1> QED BY <1>5, MissingIsOld

\* The recording keeps its set finite, and counts what it keeps.
LEMMA KeptIsCounted ==
    ASSUME WindowInv, NEW a \in Attempts, pc[a] = "stamped", NEW order, RecordStep(a, order)
    PROVE  /\ Kept(a, Before) \subseteq recorded \cup {a}
           /\ IsFiniteSet(recorded \cup {a}) /\ IsFiniteSet(Kept(a, Before))
           /\ Cardinality(Kept(a, Before)) \in Nat
           /\ count' = [count EXCEPT ![a] = Cardinality(Kept(a, Before))]
           /\ outcome' = [outcome EXCEPT ![a] = Evaluate(Cardinality(Kept(a, Before)), order)]
           /\ a \notin recorded
<1>1. Kept(a, Before) \subseteq recorded \cup {a}
  BY DEF Kept, Before, WindowInv, VelocityTypes
<1>2. IsFiniteSet(recorded \cup {a})
  BY FS_AddElement DEF WindowInv, FiniteInv
<1>3. IsFiniteSet(Kept(a, Before)) /\ Cardinality(Kept(a, Before)) \in Nat
  BY <1>1, <1>2, FS_Subset, FS_CardinalityType
<1>4. count' = [count EXCEPT ![a] = Cardinality(Kept(a, Before))]
  BY DEF RecordStep, Record
<1>5. count'[a] = Cardinality(Kept(a, Before))
  BY <1>4 DEF WindowInv, VelocityTypes
<1>6. outcome' = [outcome EXCEPT ![a] = Evaluate(Cardinality(Kept(a, Before)), order)]
  BY <1>5 DEF RecordStep, Record
<1>7. a \notin recorded
  BY DEF WindowInv, TimeInv
<1> QED BY <1>1, <1>2, <1>3, <1>4, <1>6, <1>7

-----------------------------------------------------------------------------
(* The invariant is kept *)

LEMMA InitWindow == VelocityInit => WindowInv
  BY FS_EmptySet, TimesAssumption DEF VelocityInit, WindowInv, VelocityTypes, FiniteInv, TimeInv, PrunedInv,
     ExpiryInv, LatestInv, Severity

LEMMA RecordKeepsWindow ==
    ASSUME WindowInv, NEW a \in Attempts, pc[a] = "stamped", NEW order, RecordStep(a, order)
    PROVE  WindowInv'
<1>1. /\ window' = Kept(a, Before) /\ recorded' = recorded \cup {a}
      /\ pc' = [pc EXCEPT ![a] = "answered"]
      /\ UNCHANGED <<backend, now, stamp, restarts>>
      /\ expiry' = IF backend = "memory" THEN expiry ELSE now + Window + Slack
  BY DEF RecordStep, Record
<1>2. /\ backend \in Backends /\ now \in 0..MaxTime /\ restarts \in 0..MaxRestarts
      /\ pc \in [Attempts -> {"new", "stamped", "answered", "lost"}]
      /\ stamp \in [Attempts -> Nat] /\ expiry \in Nat
      /\ window \subseteq recorded /\ recorded \subseteq Attempts
      /\ count \in [Attempts -> Nat] /\ outcome \in [Attempts -> DOMAIN Severity]
      /\ {Window, Slack, Delay, Skew, MaxTime, MaxRestarts} \subseteq Nat
  BY TimesAssumption DEF WindowInv, VelocityTypes
<1>3. \A x, y \in Attempts : Inside(x, stamp[y])' <=> Inside(x, stamp[y])
  BY <1>1 DEF Inside
<1>4. VelocityTypes'
  <2>1. outcome' \in [Attempts -> DOMAIN Severity] /\ count' \in [Attempts -> Nat]
    <3> DEFINE n == Cardinality(Kept(a, Before))
    <3>1. n \in Nat /\ count' = [count EXCEPT ![a] = n]
          /\ outcome' = [outcome EXCEPT ![a] = Evaluate(n, order)]
      BY KeptIsCounted
    <3> HIDE DEF n
    <3>2. Evaluate(n, order) \in DOMAIN Severity
      BY <3>1, RulesRespectCounts
    <3> QED BY <1>2, <3>1, <3>2
  <2>2. window' \subseteq recorded' /\ recorded' \subseteq Attempts
    BY <1>1, <1>2, KeptIsCounted
  <2>3. expiry' \in Nat /\ pc' \in [Attempts -> {"new", "stamped", "answered", "lost"}]
    BY <1>1, <1>2
  <2> QED BY <1>1, <1>2, <2>1, <2>2, <2>3 DEF VelocityTypes
<1>5. FiniteInv'
  BY <1>1, KeptIsCounted DEF FiniteInv
<1>6. TimeInv'
  BY <1>1, <1>2 DEF TimeInv, WindowInv
<1>7. PrunedInv'
  <2>1. SUFFICES ASSUME NEW b \in (recorded \cup {a}) \ Kept(a, Before)
                 PROVE  \E c \in recorded \cup {a} : ~Inside(b, stamp[c])
    BY <1>1, <1>2, <1>3 DEF PrunedInv
  <2>2. CASE b \in Before \cup {a}
    BY <2>1, <2>2 DEF Kept
  <2>3. CASE b \notin Before \cup {a}
    BY <2>1, <2>3, MissingIsOld
  <2> QED BY <2>2, <2>3
<1>8. ExpiryInv'
  <2>1. SUFFICES ASSUME backend # "memory", NEW b \in recorded \cup {a}
                 PROVE  stamp[b] + Window + Slack <= now + Window + Slack + Skew
    BY <1>1 DEF ExpiryInv
  <2>2. stamp[b] <= now + Skew
    BY <1>2, <2>1 DEF WindowInv, TimeInv
  <2> QED BY <1>2, <2>1, <2>2
<1>9. LatestInv'
  <2>1. SUFFICES \E t \in recorded \cup {a} : \A b \in recorded \cup {a} : stamp[b] <= stamp[t]
    BY <1>1 DEF LatestInv
  <2>2. CASE recorded = {}
    BY <1>2, <2>2
  <2>3. CASE recorded # {}
    <3>1. PICK t \in recorded : \A b \in recorded : stamp[b] <= stamp[t]
      BY <2>3 DEF WindowInv, LatestInv
    <3>2. CASE stamp[a] <= stamp[t]
      BY <3>1, <3>2
    <3>3. CASE ~(stamp[a] <= stamp[t])
      <4>1. \A b \in recorded \cup {a} : stamp[b] <= stamp[a]
        BY <1>2, <3>1, <3>3
      <4> QED BY <4>1
    <3> QED BY <3>2, <3>3
  <2> QED BY <2>2, <2>3
<1> QED BY <1>4, <1>5, <1>6, <1>7, <1>8, <1>9 DEF WindowInv

\* No more attempts pass in a short stretch than the limits: whoever passes
\* counted all those that did before it.
LEMMA RecordKeepsLimit ==
    ASSUME VelocityInv, NEW a \in Attempts, pc[a] = "stamped", NEW order, RecordStep(a, order)
    PROVE  LimitInv'
<1> DEFINE kept == Kept(a, Before)
           Near(from) == from..(from + Window - Delay - Skew - 1)
<1>1. WindowInv /\ stamp' = stamp /\ recorded' = recorded \cup {a}
  BY DEF VelocityInv, RecordStep, Record
<1>2. /\ kept \subseteq recorded \cup {a} /\ IsFiniteSet(kept) /\ Cardinality(kept) \in Nat
      /\ outcome' = [outcome EXCEPT ![a] = Evaluate(Cardinality(kept), order)]
      /\ a \notin recorded
  BY <1>1, KeptIsCounted
<1>3. /\ outcome'[a] = Evaluate(Cardinality(kept), order)
      /\ \A b \in recorded : b \in Attempts /\ outcome'[b] = outcome[b]
  BY <1>1, <1>2 DEF WindowInv, VelocityTypes
<1>4. /\ outcome'[a] = "approve" => Cardinality(kept) <= ReviewCount
      /\ outcome'[a] # "decline" => Cardinality(kept) <= DeclineCount
  BY <1>2, <1>3, RulesRespectCounts
<1> HIDE DEF kept
<1>5. SUFFICES ASSUME NEW from \in Int
               PROVE  /\ Cardinality({b \in Burst(from)' : outcome'[b] = "approve"}) <= ReviewCount
                      /\ Cardinality({b \in Burst(from)' : outcome'[b] # "decline"}) <= DeclineCount
  BY DEF LimitInv
<1>6. Burst(from)' = {b \in recorded \cup {a} : stamp[b] \in Near(from)}
  BY <1>1 DEF Burst
<1>7. /\ Cardinality({b \in Burst(from) : outcome[b] = "approve"}) <= ReviewCount
      /\ Cardinality({b \in Burst(from) : outcome[b] # "decline"}) <= DeclineCount
  BY DEF VelocityInv, LimitInv
<1>8. CASE stamp[a] \notin Near(from)
  <2>1. Burst(from)' = Burst(from)
    BY <1>6, <1>8 DEF Burst
  <2>2. \A b \in Burst(from) : outcome'[b] = outcome[b]
    BY <1>3 DEF Burst
  <2>3. /\ {b \in Burst(from)' : outcome'[b] = "approve"} = {b \in Burst(from) : outcome[b] = "approve"}
        /\ {b \in Burst(from)' : outcome'[b] # "decline"} = {b \in Burst(from) : outcome[b] # "decline"}
    BY <2>1, <2>2
  <2> QED BY <1>7, <2>3
<1>9. CASE stamp[a] \in Near(from)
  <2>1. Burst(from)' \subseteq kept
    <3>1. a \in kept
      <4>1. Window > 0 /\ {Window, Delay, Skew} \subseteq Nat
        BY <1>9, TimesAssumption DEF Near
      <4>2. stamp[a] \in Nat
        BY <1>1 DEF WindowInv, VelocityTypes
      <4>3. Inside(a, stamp[a])
        BY <4>1, <4>2 DEF Inside
      <4> QED BY <4>3 DEF kept, Kept
    <3>2. ASSUME NEW b \in recorded, stamp[b] \in Near(from)
          PROVE  b \in kept
      BY <1>1, <1>9, <3>2, CloseIsHeld DEF kept, Kept
    <3> QED BY <1>6, <3>1, <3>2
  <2>2. ASSUME NEW S \in SUBSET Burst(from)'
        PROVE  Cardinality(S) \in Nat /\ Cardinality(S) <= Cardinality(kept)
    <3>1. S \in SUBSET kept
      BY <2>1
    <3> QED BY <1>2, <3>1, FS_Subset, FS_CardinalityType
  <2>3. \A b \in Burst(from)' : b # a => b \in Burst(from) /\ outcome'[b] = outcome[b]
    BY <1>3, <1>6 DEF Burst
  <2>4. Burst(from) \subseteq Burst(from)' /\ a \notin Burst(from)
    BY <1>2, <1>6 DEF Burst
  <2>5. Cardinality({b \in Burst(from)' : outcome'[b] = "approve"}) <= ReviewCount
    <3> DEFINE S == {b \in Burst(from)' : outcome'[b] = "approve"}
    <3>1. CASE outcome'[a] = "approve"
      <4>1. Cardinality(S) \in Nat /\ Cardinality(S) <= Cardinality(kept)
        BY <2>2
      <4> HIDE DEF S
      <4>2. Cardinality(S) <= ReviewCount
        BY <1>2, <1>4, <3>1, <4>1, CountsAssumption
      <4> QED BY <4>2 DEF S
    <3>2. CASE outcome'[a] # "approve"
      <4>1. S = {b \in Burst(from) : outcome[b] = "approve"}
        BY <2>3, <2>4, <3>2
      <4> QED BY <1>7, <4>1
    <3> QED BY <3>1, <3>2
  <2>6. Cardinality({b \in Burst(from)' : outcome'[b] # "decline"}) <= DeclineCount
    <3> DEFINE S == {b \in Burst(from)' : outcome'[b] # "decline"}
    <3>1. CASE outcome'[a] # "decline"
      <4>1. Cardinality(S) \in Nat /\ Cardinality(S) <= Cardinality(kept)
        BY <2>2
      <4> HIDE DEF S
      <4>2. Cardinality(S) <= DeclineCount
        BY <1>2, <1>4, <3>1, <4>1, CountsAssumption
      <4> QED BY <4>2 DEF S
    <3>2. CASE outcome'[a] = "decline"
      <4>1. S = {b \in Burst(from) : outcome[b] # "decline"}
        BY <2>3, <2>4, <3>2
      <4> QED BY <1>7, <4>1
    <3> QED BY <3>1, <3>2
  <2> QED BY <2>5, <2>6
<1> QED BY <1>8, <1>9

\* The other steps record nothing, or empty the store.
LEMMA OthersKeep ==
    ASSUME VelocityInv,
           \/ \E a \in Attempts : \E ahead \in 0..Skew : TakeTime(a, ahead)
           \/ Tick
           \/ Restart
           \/ UNCHANGED velocityVars
    PROVE  VelocityInv'
<1>1. /\ backend \in Backends /\ now \in 0..MaxTime /\ restarts \in 0..MaxRestarts
      /\ pc \in [Attempts -> {"new", "stamped", "answered", "lost"}]
      /\ stamp \in [Attempts -> Nat] /\ expiry \in Nat
      /\ window \subseteq recorded /\ recorded \subseteq Attempts
      /\ count \in [Attempts -> Nat] /\ outcome \in [Attempts -> DOMAIN Severity]
      /\ {Window, Slack, Delay, Skew, MaxTime, MaxRestarts} \subseteq Nat
  BY TimesAssumption DEF VelocityInv, WindowInv, VelocityTypes
<1>2. FiniteInv /\ TimeInv /\ PrunedInv /\ ExpiryInv /\ LatestInv /\ LimitInv
  BY DEF VelocityInv, WindowInv
<1>3. ASSUME NEW a \in Attempts, NEW ahead \in 0..Skew, TakeTime(a, ahead)
      PROVE  VelocityInv'
  <2>1. /\ pc[a] = "new" /\ pc' = [pc EXCEPT ![a] = "stamped"]
        /\ stamp' = [stamp EXCEPT ![a] = now + ahead]
        /\ UNCHANGED <<backend, now, window, expiry, recorded, count, outcome, restarts>>
    BY <1>3 DEF TakeTime
  <2>2. a \notin recorded
    BY <1>2, <2>1 DEF TimeInv
  <2>3. \A b \in recorded : stamp'[b] = stamp[b]
    BY <1>1, <2>1, <2>2
  <2>4. VelocityTypes' /\ FiniteInv'
    BY <1>1, <1>2, <2>1 DEF VelocityTypes, FiniteInv
  <2>5. TimeInv'
    BY <1>1, <1>2, <2>1, <2>2 DEF TimeInv
  <2>6. PrunedInv'
    BY <1>1, <1>2, <2>1, <2>3 DEF PrunedInv, Inside
  <2>7. ExpiryInv' /\ LatestInv'
    BY <1>2, <2>1, <2>3 DEF ExpiryInv, LatestInv
  <2>8. \A from \in Int : Burst(from)' = Burst(from)
    BY <2>1, <2>3 DEF Burst
  <2>9. LimitInv'
    BY <1>2, <2>1, <2>8 DEF LimitInv
  <2> QED BY <2>4, <2>5, <2>6, <2>7, <2>9 DEF VelocityInv, WindowInv
<1>4. CASE Tick
  <2>1. /\ now < MaxTime /\ now' = now + 1
        /\ \A a \in Attempts : pc[a] = "stamped" => now < stamp[a] + Delay
        /\ UNCHANGED <<backend, pc, stamp, window, expiry, recorded, count, outcome, restarts>>
    BY <1>4 DEF Tick
  <2>2. VelocityTypes' /\ FiniteInv'
    BY <1>1, <1>2, <2>1 DEF VelocityTypes, FiniteInv
  <2>3. TimeInv'
    BY <1>1, <1>2, <2>1 DEF TimeInv
  <2>4. PrunedInv' /\ ExpiryInv' /\ LatestInv'
    BY <1>1, <1>2, <2>1 DEF PrunedInv, ExpiryInv, LatestInv, Inside
  <2>5. LimitInv'
    BY <1>2, <2>1 DEF LimitInv, Burst
  <2> QED BY <2>2, <2>3, <2>4, <2>5 DEF VelocityInv, WindowInv
<1>5. CASE Restart
  <2>1. /\ restarts < MaxRestarts /\ restarts' = restarts + 1 /\ window' = {} /\ recorded' = {}
        /\ pc' = [a \in Attempts |->
                     IF backend = "memory" /\ pc[a] = "stamped" THEN "lost" ELSE pc[a]]
        /\ UNCHANGED <<backend, now, stamp, expiry, count, outcome>>
    BY <1>5 DEF Restart
  <2>2. VelocityTypes' /\ FiniteInv'
    BY <1>1, <2>1, FS_EmptySet DEF VelocityTypes, FiniteInv
  <2>3. TimeInv'
    BY <1>1, <1>2, <2>1 DEF TimeInv
  <2>4. PrunedInv' /\ ExpiryInv' /\ LatestInv'
    BY <2>1 DEF PrunedInv, ExpiryInv, LatestInv
  <2>5. \A from \in Int : Burst(from)' = {}
    BY <2>1 DEF Burst
  <2>6. LimitInv'
    BY <2>5, FS_EmptySet, CountsAssumption DEF LimitInv
  <2> QED BY <2>2, <2>3, <2>4, <2>6 DEF VelocityInv, WindowInv
<1>6. CASE UNCHANGED velocityVars
  BY <1>2, <1>6 DEF velocityVars, VelocityInv, WindowInv, VelocityTypes, FiniteInv, TimeInv, PrunedInv, ExpiryInv,
     LatestInv, LimitInv, Burst, Inside
<1> QED BY <1>3, <1>4, <1>5, <1>6

LEMMA VelocityInvHolds == VelocitySpec => []VelocityInv
<1>1. VelocityInit => VelocityInv
  <2>1. ASSUME VelocityInit PROVE LimitInv
    <3>1. \A from \in Int : Burst(from) = {}
      BY <2>1 DEF VelocityInit, Burst
    <3> QED BY <3>1, FS_EmptySet, CountsAssumption DEF LimitInv
  <2> QED BY <2>1, InitWindow DEF VelocityInv
<1>2. VelocityInv /\ [VelocityNext]_velocityVars => VelocityInv'
  <2> SUFFICES ASSUME VelocityInv, [VelocityNext]_velocityVars PROVE VelocityInv'
    OBVIOUS
  <2>1. ASSUME NEW a \in Attempts, NEW order, RecordInMemory(a, order) \/ RecordInRedis(a, order)
        PROVE  VelocityInv'
    <3>1. pc[a] = "stamped" /\ RecordStep(a, order)
      BY <2>1, BothRecord DEF RecordStep, Record
    <3>2. WindowInv' /\ LimitInv'
      BY <3>1, RecordKeepsWindow, RecordKeepsLimit DEF VelocityInv
    <3> QED BY <3>2 DEF VelocityInv
  <2> QED BY <2>1, OthersKeep DEF VelocityNext
<1> QED BY <1>1, <1>2, PTL DEF VelocitySpec

-----------------------------------------------------------------------------
(* Theorems *)

\* Every variable keeps its type.
THEOREM VelocityIsTyped == VelocitySpec => []VelocityTypes
  BY VelocityInvHolds, PTL DEF VelocityInv, WindowInv

\* Within less than the window, shortened by how far times and recordings may
\* be apart, at most velocity_review_count attempts with a card are approved and
\* at most velocity_decline_count are not declined, whichever replicas they
\* reach, in whatever order they are recorded, whenever the key expires.
THEOREM LimitAlwaysHolds == VelocitySpec => []LimitHolds
<1>1. VelocityInv => LimitHolds
  <2> SUFFICES ASSUME VelocityInv, NEW first \in recorded
               PROVE  LET burst == {a \in recorded :
                               stamp[a] \in stamp[first]..(stamp[first] + Window - Delay - Skew - 1)}
                      IN  /\ Cardinality({a \in burst : outcome[a] = "approve"}) <= ReviewCount
                          /\ Cardinality({a \in burst : outcome[a] # "decline"}) <= DeclineCount
    BY DEF LimitHolds
  <2>1. stamp[first] \in Int
    BY DEF VelocityInv, WindowInv, VelocityTypes
  <2> QED BY <2>1 DEF VelocityInv, LimitInv, Burst
<1> QED BY <1>1, VelocityInvHolds, PTL

\* The count of an attempt has every attempt within a window of the latest one,
\* and none outside its own.
LEMMA CountIsBetween ==
    ASSUME WindowInv, NEW a \in Attempts, pc[a] = "stamped", NEW order, RecordStep(a, order)
    PROVE  LET all == recorded \cup {a}
               latest == Max({stamp[b] : b \in all})
           IN  count'[a] \in Cardinality({b \in all : Inside(b, latest)})
                             .. Cardinality({b \in all : Inside(b, stamp[a])})
<1> DEFINE all == recorded \cup {a}
           kept == Kept(a, Before)
           stamps == {stamp[b] : b \in all}
           latest == Max(stamps)
           lower == {b \in all : Inside(b, latest)}
           upper == {b \in all : Inside(b, stamp[a])}
<1>1. /\ all \subseteq Attempts /\ stamp \in [Attempts -> Nat] /\ Window \in Nat
      /\ IsFiniteSet(all) /\ count'[a] = Cardinality(kept) /\ kept \subseteq all
  BY KeptIsCounted, TimesAssumption DEF WindowInv, VelocityTypes
<1>2. latest \in stamps /\ \A b \in all : stamp[b] <= latest
  <2>1. \E x \in stamps : \A y \in stamps : x >= y
    <3>1. \E t \in all : \A b \in all : stamp[b] <= stamp[t]
      <4>1. WindowInv'
        BY RecordKeepsWindow
      <4>2. recorded' = all /\ stamp' = stamp
        BY DEF RecordStep, Record
      <4> QED BY <4>1, <4>2 DEF WindowInv, LatestInv
    <3>2. PICK t \in all : \A b \in all : stamp[b] <= stamp[t]
      BY <3>1
    <3>3. stamp[t] \in stamps /\ \A y \in stamps : stamp[t] >= y
      BY <1>1, <3>2
    <3> QED BY <3>3
  <2> DEFINE m == CHOOSE x \in stamps : \A y \in stamps : x >= y
  <2>2. m \in stamps /\ \A y \in stamps : m >= y
    BY <2>1
  <2>3. latest = m
    BY DEF Max
  <2>4. stamps \subseteq Nat
    BY <1>1
  <2> QED BY <1>1, <2>2, <2>3, <2>4
<1>3. kept \subseteq upper
  BY <1>1 DEF Kept
<1>4. lower \subseteq kept
  <2> SUFFICES ASSUME NEW b \in all, Inside(b, latest) PROVE b \in kept
    OBVIOUS
  <2>1. latest \in Nat
    BY <1>1, <1>2
  <2>2. ASSUME NEW c \in all PROVE Inside(b, stamp[c])
    <3>1. stamp[c] <= latest /\ stamp[c] \in Nat /\ stamp[b] \in Nat
      BY <1>1, <1>2
    <3> HIDE DEF latest
    <3> QED BY <1>1, <2>1, <3>1 DEF Inside
  <2>3. b \in Before \cup {a}
    BY <2>2, MissingIsOld
  <2> QED BY <2>2, <2>3 DEF Kept
<1>5. IsFiniteSet(upper) /\ IsFiniteSet(kept)
  BY <1>1, FS_Subset
<1> HIDE DEF all, kept, latest, lower, upper
<1>6. /\ Cardinality(lower) \in Nat /\ Cardinality(kept) \in Nat /\ Cardinality(upper) \in Nat
      /\ Cardinality(lower) <= Cardinality(kept) /\ Cardinality(kept) <= Cardinality(upper)
  <2>1. IsFiniteSet(lower)
    BY <1>4, <1>5, FS_Subset
  <2> QED BY <1>3, <1>4, <1>5, <2>1, FS_Subset, FS_CardinalityType
<1>7. count'[a] \in Cardinality(lower)..Cardinality(upper)
  BY <1>1, <1>6
<1> QED BY <1>7 DEF all, latest, lower, upper, stamps

\* "how many attempts fall within the window": with any number of replicas the
\* count misses no attempt that is within a window of the latest, and has none
\* that is outside the caller's own.
THEOREM CountsAreTrue == VelocitySpec => CountIsTrue
<1> DEFINE Counted ==
        \A a \in Attempts : pc[a] = "stamped" /\ pc'[a] = "answered" =>
           LET all == recorded \cup {a}
               latest == Max({stamp[b] : b \in all})
           IN  count'[a] \in Cardinality({b \in all : Inside(b, latest)})
                             .. Cardinality({b \in all : Inside(b, stamp[a])})
<1>1. VelocityInv /\ [VelocityNext]_velocityVars => [Counted]_velocityVars
  <2> SUFFICES ASSUME VelocityInv, VelocityNext, NEW a \in Attempts, pc[a] = "stamped", pc'[a] = "answered"
               PROVE  LET all == recorded \cup {a}
                          latest == Max({stamp[b] : b \in all})
                      IN  count'[a] \in Cardinality({b \in all : Inside(b, latest)})
                                        .. Cardinality({b \in all : Inside(b, stamp[a])})
    OBVIOUS
  <2>1. WindowInv /\ pc \in [Attempts -> {"new", "stamped", "answered", "lost"}]
    BY DEF VelocityInv, WindowInv, VelocityTypes
  <2>2. \E order \in Orders : RecordInMemory(a, order) \/ RecordInRedis(a, order)
    <3>1. ASSUME NEW b \in Attempts, NEW ahead \in 0..Skew, TakeTime(b, ahead) PROVE FALSE
      BY <2>1, <3>1 DEF TakeTime
    <3>2. ~Tick /\ ~Restart
      BY <2>1 DEF Tick, Restart
    <3>3. PICK b \in Attempts, order \in Orders : RecordInMemory(b, order) \/ RecordInRedis(b, order)
      BY <3>1, <3>2 DEF VelocityNext
    <3>4. pc' = [pc EXCEPT ![b] = "answered"]
      BY <3>3 DEF RecordInMemory, RecordInRedis, Record
    <3>5. b = a
      BY <2>1, <3>4
    <3> QED BY <3>3, <3>5
  <2>3. PICK order \in Orders : RecordStep(a, order)
    BY <2>2, BothRecord
  <2> QED BY <2>1, <2>3, CountIsBetween
<1> QED BY <1>1, VelocityInvHolds, PTL DEF VelocitySpec, CountIsTrue
=============================================================================
