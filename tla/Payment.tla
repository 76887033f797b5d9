------------------------------ MODULE Payment -------------------------------
(***************************************************************************)
(* purchase() and transfer() of api/routes/transactions.py: request        *)
(* handlers that claim an idempotency key, check the parties, ask the risk *)
(* engine and the switch, post to the ledger and store their response, any *)
(* number of them at a time, in processes that may die between two steps.  *)
(* The two handlers differ in data only (the merchant is the receiver of a *)
(* purchase), so one model stands for both.  Ledger and idempotency store  *)
(* are the atomic ones that LedgerDb and RedisStore implement; the switch  *)
(* and its settlement file are external.                                   *)
(***************************************************************************)
EXTENDS Ledger, IdempotencyStore

CONSTANTS
    Requests,           \* HTTP requests, each handled once
    Callers,            \* who sends them: "owner", "stranger"
    NoRrn,              \* no retrieval reference number yet
    RegisteredAtStart,  \* accounts the database already holds
    StoreKinds,         \* without or with REDIS_URL: "memory", "redis"
    Transports,         \* ISO8583_TRANSPORT: "direct", "ace"
    AceFaults,          \* faults ACE may return once it has the request
    RrnsCollide,        \* two requests may draw one rrn within a second
    HandlerMayFail,     \* exceptions: invalid PIN, "database is locked"
    MaxIncidents        \* bound on process deaths, losses of Redis and resets

VARIABLES
    backend,   \* the store in use: "memory" is lost with the process
    leftover,  \* responses that stand in Redis without a claim
    transport, \* how authorize() reaches the switch: the own socket or SOAP
    pc,        \* next step of each handler
    asked,     \* key, body and caller of each request, fixed by its client
    rrn,       \* the rrn each handler generated
    result,    \* the response each handler has computed or sent
    switch,    \* what became of the 0200 of each request
    reversal,  \* requests whose 0400 is on its way to the switch
    troubles,  \* process deaths, losses of Redis and resets so far
    wiping,    \* reset_ledger() has deleted the ledger, not yet the claims
    wiped,     \* rrns that were posted and deleted by it
    forgot     \* keys the store lost its claim of, or the response, in whatever way

setup == <<backend, transport, asked>>
incidents == <<troubles, wiping, wiped, forgot>>
paymentVars == <<setup, pc, rrn, result, switch, reversal, incidents>>
storeVars == <<store, leftover>>
vars == <<ledgerVars, storeVars, paymentVars>>

-----------------------------------------------------------------------------
(* Types *)

\* What is hashed: the body, which is its own hash, and not who sends it.
Body == [sender : Accounts, receiver : Accounts, amount : Amounts]

\* caller: whether the token is that of the owner of the sender's account.
Ask == [key : Keys, body : Hashes, caller : Callers]

ASSUME BodiesAssumption == Hashes \subseteq Body

Statuses == {"approved", "declined", "unknown", "decline", "review"}

HttpErrors == {"400", "403", "404", "409", "500"}

Response == [status : Statuses \cup HttpErrors, rrn : Rrns \cup {NoRrn},
             ledger : {"none", "recorded", "already_recorded"}]

ASSUME ResponsesAssumption == Response \subseteq Responses

ASSUME PaymentAssumption ==
    /\ RegisteredAtStart \subseteq Accounts
    /\ Callers \subseteq {"owner", "stranger"}
    /\ NoRrn \notin Rrns
    /\ StoreKinds \subseteq {"memory", "redis"}
    /\ Transports \subseteq {"direct", "ace"}
    /\ {RrnsCollide, HandlerMayFail} \subseteq BOOLEAN
    /\ MaxIncidents \in Nat

Reply(status, n, ledger) == [status |-> status, rrn |-> n, ledger |-> ledger]

Claimed == {"precheck", "risk", "encrypt", "send", "wait", "record", "store"}

TypeOK ==
    /\ LedgerTypeOK
    /\ StoreTypeOK
    /\ leftover \in [Keys -> Responses \cup {NoResponse}]
    /\ backend \in StoreKinds /\ transport \in Transports
    /\ pc \in [Requests -> Claimed \cup {"new", "done", "lost"}]
    /\ asked \in [Requests -> Ask]
    /\ rrn \in [Requests -> Rrns \cup {NoRrn}]
    /\ result \in [Requests -> Responses \cup {NoResponse}]
    /\ switch \in [Requests -> {"unsent", "sent", "approved", "declined", "reversed"}]
    /\ reversal \subseteq Requests
    /\ troubles \in 0..MaxIncidents
    /\ wiping \in BOOLEAN
    /\ wiped \subseteq Rrns
    /\ forgot \subseteq Keys

Init ==
    /\ accounts = RegisteredAtStart
    /\ transactions = {} /\ entries = {} /\ lastId = 0
    /\ StoreInit
    /\ leftover = [k \in Keys |-> NoResponse]
    /\ backend \in StoreKinds /\ transport \in Transports
    /\ pc = [r \in Requests |-> "new"]
    /\ asked \in [Requests -> Ask]
    /\ rrn = [r \in Requests |-> NoRrn]
    /\ result = [r \in Requests |-> NoResponse]
    /\ switch = [r \in Requests |-> "unsent"]
    /\ reversal = {}
    /\ troubles = 0
    /\ wiping = FALSE /\ wiped = {} /\ forgot = {}

-----------------------------------------------------------------------------
(* Claim and pre-check *)

GoTo(r, label) == pc' = [pc EXCEPT ![r] = label]

\* The handler has computed its response and will store it.
Decide(r, reply) == GoTo(r, "store") /\ result' = [result EXCEPT ![r] = reply]

\* The handler returns, or raises an HTTPException, right away.
Return(r, reply) == GoTo(r, "done") /\ result' = [result EXCEPT ![r] = reply]

\* claim() over both Redis keys: what is left behind a key is taken for the
\* response of its next claim.
TakeClaim(k, h) ==
    /\ IF leftover[k] = NoResponse
       THEN Claim(k, h)
       ELSE store' = [store EXCEPT ![k] = EntryFor(h, leftover[k])]
    /\ leftover' = [leftover EXCEPT ![k] = NoResponse]

\* Mutant: the 409 branch is missing, a claim in progress is not respected.
MutIgnoresInProgress(r) ==
    LET k == asked[r].key  outcome == ClaimOutcome(k, asked[r].body) IN
    /\ pc[r] = "new"
    /\ TakeClaim(k, asked[r].body)
    /\ CASE outcome \in {"new", "in_progress"} -> GoTo(r, "precheck") /\ UNCHANGED result
         [] outcome = "mismatch"  -> Return(r, Reply("400", NoRrn, "none"))
         [] outcome = "duplicate" -> Return(r, store[k].response)
    /\ UNCHANGED <<ledgerVars, setup, rrn, switch, reversal, incidents>>

\* Step 1: claim the key; only the winner goes on.
Arrive(r) ==
    LET k == asked[r].key  outcome == ClaimOutcome(k, asked[r].body) IN
    /\ pc[r] = "new"
    /\ TakeClaim(k, asked[r].body)
    /\ CASE outcome = "new"         -> GoTo(r, "precheck") /\ UNCHANGED result
         [] outcome = "mismatch"    -> Return(r, Reply("400", NoRrn, "none"))
         [] outcome = "duplicate"   -> Return(r, store[k].response)
         [] outcome = "in_progress" -> Return(r, Reply("409", NoRrn, "none"))
    /\ UNCHANGED <<ledgerVars, setup, rrn, switch, reversal, incidents>>

Parties(b) == {b.sender, b.receiver}

\* Step 1.5 and 1.6: both parties are registered, the sender is the caller's.
PreCheck(r) ==
    LET b == asked[r].body IN
    /\ pc[r] = "precheck"
    /\ \/ /\ Parties(b) \subseteq accounts /\ asked[r].caller = "owner"
          /\ GoTo(r, "risk") /\ UNCHANGED result
       \/ /\ ~(Parties(b) \subseteq accounts)
          /\ Return(r, Reply("404", NoRrn, "none"))
       \/ /\ Parties(b) \subseteq accounts /\ asked[r].caller # "owner"
          /\ Return(r, Reply("403", NoRrn, "none"))
    /\ UNCHANGED <<ledgerVars, storeVars, setup, rrn, switch, reversal, incidents>>

\* Step 2: the risk engine's verdict depends on the amount and on the card's
\* recent attempts; any of the three may come.
Risk(r, verdict) ==
    /\ pc[r] = "risk"
    /\ IF verdict = "approve" THEN GoTo(r, "encrypt") /\ UNCHANGED result
                              ELSE Decide(r, Reply(verdict, NoRrn, "none"))
    /\ UNCHANGED <<ledgerVars, storeVars, setup, rrn, switch, reversal, incidents>>

\* Step 3: the HSM encrypts the PIN block; a PIN that is not hexadecimal
\* raises ValueError and ends the handler.
Encrypt(r) ==
    /\ pc[r] = "encrypt"
    /\ \/ GoTo(r, "send") /\ UNCHANGED result
       \/ HandlerMayFail /\ Return(r, Reply("500", NoRrn, "none"))
    /\ UNCHANGED <<ledgerVars, storeVars, setup, rrn, switch, reversal, incidents>>

-----------------------------------------------------------------------------
(* The switch call *)

DrawsRrn(r, n) ==
    /\ RrnsCollide \/ n \notin {rrn[s] : s \in Requests}
    /\ rrn' = [rrn EXCEPT ![r] = n]

\* authorize() writes the 0200 to the switch, or posts the request to ACE.
Send(r, n) ==
    /\ pc[r] = "send"
    /\ DrawsRrn(r, n)
    /\ switch' = [switch EXCEPT ![r] = "sent"]
    /\ GoTo(r, "wait")
    /\ UNCHANGED <<ledgerVars, storeVars, setup, result, reversal, incidents>>

\* authorize() finds no connection, to the switch or to ACE: nothing was sent.
Unreachable(r, n) ==
    /\ pc[r] = "send"
    /\ DrawsRrn(r, n)
    /\ Decide(r, Reply("unknown", n, "none"))
    /\ UNCHANGED <<ledgerVars, storeVars, setup, switch, reversal, incidents>>

\* External: the switch gets to the 0200, however late.
SwitchDecides(r, verdict) ==
    /\ switch[r] = "sent"
    /\ switch' = [switch EXCEPT ![r] = verdict]
    /\ UNCHANGED <<ledgerVars, storeVars, pc, setup, rrn, result, reversal, incidents>>

\* External: the 0400 undoes an approval, and is ignored otherwise.
SwitchGetsReversal(r) ==
    /\ r \in reversal
    /\ reversal' = reversal \ {r}
    /\ switch' = IF switch[r] = "approved" THEN [switch EXCEPT ![r] = "reversed"] ELSE switch
    /\ UNCHANGED <<ledgerVars, storeVars, pc, setup, rrn, result, incidents>>

\* The 0210 says approved.
Approved(r) ==
    /\ pc[r] = "wait"
    /\ switch[r] = "approved"
    /\ GoTo(r, "record")
    /\ UNCHANGED <<ledgerVars, storeVars, setup, rrn, result, switch, reversal, incidents>>

\* Any other response code.
Declined(r) ==
    /\ pc[r] = "wait"
    /\ switch[r] = "declined"
    /\ Decide(r, Reply("declined", rrn[r], "none"))
    /\ UNCHANGED <<ledgerVars, storeVars, setup, rrn, switch, reversal, incidents>>

\* Mutant: a timeout is treated as an approval, and reversed as well.
MutTimeoutPosts(r) ==
    /\ pc[r] = "wait"
    /\ reversal' = reversal \cup {r}
    /\ GoTo(r, "record")
    /\ UNCHANGED <<ledgerVars, storeVars, setup, rrn, result, switch, incidents>>

\* Mutant: "reporting declined would hide one that did" happen.
MutTimeoutDeclines(r) ==
    /\ pc[r] = "wait"
    /\ Decide(r, Reply("declined", rrn[r], "none"))
    /\ UNCHANGED <<ledgerVars, storeVars, setup, rrn, switch, reversal, incidents>>

\* No answer in time: unknown, with a reversal sent by the correlation manager
\* or, over SOAP, by the handler itself, which may fail.  Or the connection
\* broke after the write: unknown, without one.
TimesOut(r) ==
    /\ pc[r] = "wait"
    /\ reversal' \in {reversal, reversal \cup {r}}
    /\ Decide(r, Reply("unknown", rrn[r], "none"))
    /\ UNCHANGED <<ledgerVars, storeVars, setup, rrn, switch, incidents>>

\* Mutant: a switch that did not answer ACE in time has declined.
MutSwitchTimeoutDeclines(r, fault) ==
    /\ transport = "ace"
    /\ pc[r] = "wait"
    /\ reversal' = IF fault = "SWITCH_TIMEOUT" THEN reversal \cup {r} ELSE reversal
    /\ Decide(r, Reply(IF fault = "SWITCH_DOWN" THEN "unknown" ELSE "declined", rrn[r], "none"))
    /\ UNCHANGED <<ledgerVars, storeVars, setup, rrn, switch, incidents>>

\* ACE answers with a fault.  On SWITCH_TIMEOUT it has sent the reversal; a
\* fault that names neither case is told as declined, whoever is to blame.
SoapFault(r, fault) ==
    /\ transport = "ace"
    /\ pc[r] = "wait"
    /\ reversal' = IF fault = "SWITCH_TIMEOUT" THEN reversal \cup {r} ELSE reversal
    /\ Decide(r, Reply(IF fault \in {"SWITCH_TIMEOUT", "SWITCH_DOWN"} THEN "unknown" ELSE "declined",
                       rrn[r], "none"))
    /\ UNCHANGED <<ledgerVars, storeVars, setup, rrn, switch, incidents>>

\* ACE refuses a request it cannot read before it sends anything on.
SoapRejects(r, n) ==
    /\ transport = "ace"
    /\ pc[r] = "send"
    /\ DrawsRrn(r, n)
    /\ Decide(r, Reply("declined", n, "none"))
    /\ UNCHANGED <<ledgerVars, storeVars, setup, switch, reversal, incidents>>

\* What comes back is no SOAP envelope and no HTTP 5xx either: nobody catches
\* SoapProtocolError, and the handler ends between the payment and its answer.
SoapGarbled(r) ==
    /\ HandlerMayFail
    /\ transport = "ace"
    /\ pc[r] = "wait"
    /\ Return(r, Reply("500", NoRrn, "none"))
    /\ UNCHANGED <<ledgerVars, storeVars, setup, rrn, switch, reversal, incidents>>

-----------------------------------------------------------------------------
(* Ledger posting and response *)

\* Mutant: sender and receiver swapped.
MutSwappedAccounts(r) ==
    LET b == asked[r].body  answer == RecordResult(rrn[r], b.receiver, b.sender) IN
    /\ pc[r] = "record"
    /\ answer # "fk_error"
    /\ RecordPurchase(rrn[r], b.receiver, b.sender, b.amount)
    /\ Decide(r, Reply("approved", rrn[r], answer))
    /\ UNCHANGED <<storeVars, setup, rrn, switch, reversal, incidents>>

\* Step 6: record_purchase; an rrn the ledger has already is an answer too.
Record(r) ==
    LET b == asked[r].body  answer == RecordResult(rrn[r], b.sender, b.receiver) IN
    /\ pc[r] = "record"
    /\ answer # "fk_error"
    /\ RecordPurchase(rrn[r], b.sender, b.receiver, b.amount)
    /\ Decide(r, Reply("approved", rrn[r], answer))
    /\ UNCHANGED <<storeVars, setup, rrn, switch, reversal, incidents>>

\* What record_purchase raises leaves the handler with nothing posted: a
\* foreign key without its account, or "database is locked".
RecordFails(r) ==
    LET b == asked[r].body IN
    /\ HandlerMayFail \/ RecordResult(rrn[r], b.sender, b.receiver) = "fk_error"
    /\ pc[r] = "record"
    /\ Return(r, Reply("500", NoRrn, "none"))
    /\ UNCHANGED <<ledgerVars, storeVars, setup, rrn, switch, reversal, incidents>>

HasClaim(k) == store[k] # Unclaimed

\* store_response(): without a claim the dict drops it, Redis keeps it.
PutResponse(k, response) ==
    /\ StoreResponse(k, response)
    /\ leftover' = IF backend = "redis" /\ ~HasClaim(k)
                   THEN [leftover EXCEPT ![k] = response] ELSE leftover

\* Mutant: the response is returned but not cached.
MutNotCached(r) ==
    /\ pc[r] = "store"
    /\ GoTo(r, "done")
    /\ UNCHANGED <<ledgerVars, storeVars, setup, rrn, result, switch, reversal, incidents>>

\* Mutant: what is cached is not the response that was returned.
MutCachesUnknown(r) ==
    /\ pc[r] = "store"
    /\ PutResponse(asked[r].key, Reply("unknown", rrn[r], "none"))
    /\ GoTo(r, "done")
    /\ UNCHANGED <<ledgerVars, setup, rrn, result, switch, reversal, incidents>>

\* store_response() and return.
Store(r) ==
    /\ pc[r] = "store"
    /\ PutResponse(asked[r].key, result[r])
    /\ GoTo(r, "done")
    /\ UNCHANGED <<ledgerVars, setup, rrn, result, switch, reversal, incidents>>

-----------------------------------------------------------------------------
(* The rest of the world *)

Running == {r \in Requests : pc[r] \in Claimed}

Incident == troubles < MaxIncidents /\ troubles' = troubles + 1

ForgetAll ==
    /\ ClearAll
    /\ leftover' = [k \in Keys |-> NoResponse]
    /\ forgot' = Keys

\* A process dies with its handlers: the only one when the store is in its
\* memory, one of several replicas when it is in Redis.  A reset it has begun
\* stays half done.
Crash(S) ==
    /\ Incident
    /\ S \subseteq Running
    /\ backend = "memory" => S = Running
    /\ pc' = [r \in Requests |-> IF r \in S THEN "lost" ELSE pc[r]]
    /\ IF backend = "memory" THEN ForgetAll ELSE UNCHANGED <<storeVars, forgot>>
    /\ wiping' \in IF backend = "memory" THEN {FALSE} ELSE {wiping, FALSE}
    /\ UNCHANGED <<ledgerVars, setup, rrn, result, switch, reversal, wiped>>

\* Redis has no persistence: it comes back empty.
RedisRestarts ==
    /\ Incident
    /\ backend = "redis"
    /\ ForgetAll
    /\ UNCHANGED <<ledgerVars, setup, pc, rrn, result, switch, reversal, wiping, wiped>>

\* Redis is full and evicts one of the two keys behind k (allkeys-lru): the
\* claim, or the response.
RedisEvicts(k) ==
    /\ Incident
    /\ backend = "redis"
    /\ \/ /\ HasClaim(k)
          /\ store' = [store EXCEPT ![k] = Unclaimed]
          /\ leftover' = [leftover EXCEPT ![k] = store[k].response]
       \/ /\ HasClaim(k)
          /\ store' = [store EXCEPT ![k].response = NoResponse]
          /\ UNCHANGED leftover
       \/ /\ leftover[k] # NoResponse
          /\ leftover' = [leftover EXCEPT ![k] = NoResponse]
          /\ UNCHANGED store
    /\ forgot' = forgot \cup {k}
    /\ UNCHANGED <<ledgerVars, setup, pc, rrn, result, switch, reversal, wiping, wiped>>

\* POST /ledger/reset beside whatever handlers run: the DELETEs commit ...
Reset ==
    /\ Incident
    /\ ~wiping
    /\ WipeLedger
    /\ wiped' = wiped \cup RrnsIn(transactions)
    /\ wiping' = TRUE
    /\ UNCHANGED <<storeVars, setup, pc, rrn, result, switch, reversal, forgot>>

\* ... and clear_all() follows.  A response stored after it finds no claim.
ClearClaims ==
    /\ wiping
    /\ ForgetAll
    /\ wiping' = FALSE
    /\ UNCHANGED <<ledgerVars, setup, pc, rrn, result, switch, reversal, troubles, wiped>>

Register(a) ==
    /\ RegisterAccount(a)
    /\ UNCHANGED <<storeVars, paymentVars>>

HandlerStep(r) ==
    \/ PreCheck(r)
    \/ \E verdict \in {"approve", "decline", "review"} : Risk(r, verdict)
    \/ Encrypt(r)
    \/ \E n \in Rrns : Send(r, n) \/ Unreachable(r, n) \/ SoapRejects(r, n)
    \/ Approved(r) \/ Declined(r) \/ TimesOut(r) \/ SoapGarbled(r)
    \/ \E fault \in AceFaults : SoapFault(r, fault)
    \/ Record(r) \/ RecordFails(r) \/ Store(r)

Next ==
    \/ \E r \in Requests :
          \/ Arrive(r)
          \/ HandlerStep(r)
          \/ \E verdict \in {"approved", "declined"} : SwitchDecides(r, verdict)
          \/ SwitchGetsReversal(r)
    \/ \E S \in SUBSET Requests : Crash(S)
    \/ RedisRestarts \/ (\E k \in Keys : RedisEvicts(k)) \/ Reset \/ ClearClaims
    \/ \E a \in Accounts : Register(a)

Spec == Init /\ [][Next]_vars

\* A handler thread runs on until it answers: the wait for the switch is
\* bounded by the timeout, every other step by itself.
FairSpec == Spec /\ \A r \in Requests : WF_vars(HandlerStep(r))

-----------------------------------------------------------------------------
(* Properties *)

Same(r, s) == asked[r].key = asked[s].key /\ asked[r].body = asked[s].body

\* The store still knows what it was told about the key of r.
Remembers(r) == asked[r].key \notin forgot

\* README.md: "a repeated idempotency key never reaches the switch a second
\* time", whatever the interleaving of the retries.
OneAuthorisation ==
    \A r, s \in Requests :
        /\ Remembers(r)
        /\ switch[r] # "unsent" /\ switch[s] # "unsent"
        /\ asked[r].key = asked[s].key
        => r = s

\* The posting of r stands in the ledger: its own parties, its own amount.
PostedFor(r, n) ==
    LET b == asked[r].body IN
    /\ [rrn |-> n, amount |-> b.amount] \in transactions
    /\ \E e \in entries : e.rrn = n /\ e.type = "debit" /\ e.account = b.sender
    /\ \E e \in entries : e.rrn = n /\ e.type = "credit" /\ e.account = b.receiver

\* docs/architecture.html: "approved | Ledger written: yes | Money moved and
\* is recorded", also for a cached answer, after a crash and after a reset that
\* came between the approval and the posting; only a later reset undoes it.
\* When the store lost the claim, the answer may be the one of another payment
\* under the same key, recorded as that one.
ApprovedIsRecorded ==
    \A r \in Requests :
        pc[r] = "done" /\ result[r].status = "approved" =>
            \/ result[r].rrn \in wiped
            \/ PostedFor(r, result[r].rrn)
            \/ /\ ~Remembers(r)
               /\ \E s \in Requests : /\ asked[s].key = asked[r].key
                                      /\ PostedFor(s, result[r].rrn)

\* A posting is backed by an approval of the switch for the same amount that
\* is not and never was reversed: a late answer or a retry cannot post.
LedgerMatchesSwitch ==
    \A t \in transactions :
        \E r \in Requests : /\ switch[r] = "approved" /\ r \notin reversal
                            /\ rrn[r] = t.rrn /\ asked[r].body.amount = t.amount

\* The settlement file lists what the switch approved and did not reverse.
InSettlement(r) == switch[r] = "approved"

\* Mutant: the comparison walks through the ledger's side only.
MutOneSided(n) ==
    LET file == {r \in Requests : InSettlement(r) /\ rrn[r] = n} IN
    /\ n \in RrnsIn(transactions)
    /\ file = {} \/ \E r \in file :
                       [rrn |-> n, amount |-> asked[r].body.amount] \notin transactions

\* ops/reconciliation.py matches by rrn: it reports an rrn only one side has,
\* and an rrn both have with different amounts.
Reported(n) ==
    LET file == {r \in Requests : InSettlement(r) /\ rrn[r] = n} IN
    IF n \in RrnsIn(transactions)
    THEN file = {} \/ \E r \in file :
                        [rrn |-> n, amount |-> asked[r].body.amount] \notin transactions
    ELSE file # {}

\* "Daily reconciliation is the backstop": money the switch moved for a
\* request that is over and that did not post it shows in the report.
BackstopCatches ==
    \A r \in Requests :
        /\ InSettlement(r) /\ pc[r] \in {"done", "lost"}
        /\ result[r] = NoResponse \/ result[r].ledger # "recorded"
        => Reported(rrn[r])

\* A refusal is final: when a client is told declined, decline or review, the
\* switch has not moved and will not move money for that key and body.
RefusedMeansUntouched ==
    \A r, s \in Requests :
        /\ Remembers(r) /\ Same(r, s) /\ pc[r] = "done"
        /\ result[r].status \in {"declined", "decline", "review"}
        => switch[s] \in {"unsent", "declined"}

\* "Cached response returned": every client that sends one body under one key
\* and gets an outcome gets the same outcome.
SameAnswer ==
    \A r, s \in Requests :
        /\ Remembers(r) /\ Same(r, s) /\ pc[r] = "done" /\ pc[s] = "done"
        /\ result[r].status \in Statuses /\ result[s].status \in Statuses
        => result[r] = result[s]

Unanswered(k) == HasClaim(k) /\ store[k].response = NoResponse

\* in_progress: "another caller claimed it and hasn't finished yet": a key
\* that answers 409 is being processed.
InProgressIsTrue ==
    \A k \in Keys : Unanswered(k) => \E r \in Running : asked[r].key = k

\* The handler that held the claim of k ended without a response to store:
\* refused in the pre-check, an exception, a crash.
Abandoned(k) ==
    \E r \in Requests :
        /\ asked[r].key = k
        /\ \/ pc[r] = "lost"
           \/ pc[r] = "done" /\ result[r].status \in {"403", "404", "500"}

\* "409, retry shortly": a claimed key gets a response to retry for, unless its
\* handler did not get to the end or Redis dropped what it stored.
ClaimsAreAnswered ==
    \A k \in Keys : Unanswered(k) ~> ~Unanswered(k) \/ Abandoned(k) \/ k \in forgot
=============================================================================
