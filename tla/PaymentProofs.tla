---------------------------- MODULE PaymentProofs ---------------------------
(***************************************************************************)
(* For any number of requests, retries, keys, accounts and incidents:      *)
(* Payment is type correct and keeps the six safety properties its runs    *)
(* check.  None of them is inductive.  They rest on who holds the claim of *)
(* a key (ClaimInv, OneWorker), on what a cached response says (RefusalInv,*)
(* AnswerInv), and on who made each transaction (PosterInv).               *)
(***************************************************************************)
EXTENDS Payment, TLAPS

-----------------------------------------------------------------------------
(* The inductive invariant *)

BeforeSwitch == {"new", "precheck", "risk", "encrypt", "send"}

\* What the place of a handler says about its payment.
HandlerInv ==
    \A r \in Requests :
        /\ pc[r] \in BeforeSwitch => switch[r] = "unsent" /\ rrn[r] = NoRrn
        /\ pc[r] \in BeforeSwitch \cup {"wait", "record"} => r \notin reversal
        /\ pc[r] = "record" => switch[r] = "approved"
        /\ pc[r] \in {"risk", "encrypt", "send", "wait", "record"} =>
              Parties(asked[r].body) \subseteq accounts
        /\ switch[r] # "unsent" => rrn[r] \in Rrns

\* Responses are those the handlers compute, cached ones included; what is
\* left over has no claim.
ResponseInv ==
    /\ result \in [Requests -> Response \cup {NoResponse}]
    /\ leftover \in [Keys -> Response \cup {NoResponse}]
    /\ \A k \in Keys : HasClaim(k) => /\ store[k].response \in Response \cup {NoResponse}
                                     /\ leftover[k] = NoResponse
    /\ \A r \in Requests : pc[r] \in {"store", "done"} => result[r] \in Response

\* A request that got past the claim of its key.
Worker(r) == pc[r] \in Claimed \/ switch[r] # "unsent"

\* What the store holds for a key it did not lose.
ClaimInv ==
    /\ \A k \in Keys \ forgot : leftover[k] = NoResponse
    /\ \A r \in Requests : Remembers(r) =>
          LET entry == store[asked[r].key] IN
          /\ pc[r] \in Claimed => entry = EntryFor(asked[r].body, NoResponse)
          /\ switch[r] # "unsent" => entry # Unclaimed
          /\ pc[r] = "done" /\ result[r].status \in Statuses =>
                entry = EntryFor(asked[r].body, result[r])

OneWorker ==
    \A r, s \in Requests :
        Remembers(r) /\ asked[r].key = asked[s].key /\ Worker(r) /\ Worker(s) => r = s

Refusals == {"declined", "decline", "review"}

\* The switch has not approved it and has nothing left to decide.
Untouched(r) == switch[r] \in {"unsent", "declined"}

\* A refusal, about to be stored or cached, is about money that stays.
RefusalInv ==
    /\ \A r \in Requests :
          pc[r] = "store" /\ result[r].status \in Refusals => Untouched(r)
    /\ \A r \in Requests :
          LET entry == store[asked[r].key] IN
          Remembers(r) /\ entry # Unclaimed /\ entry.response # NoResponse
             /\ entry.response.status \in Refusals => Untouched(r)

\* No two requests have one rrn.
RrnInv == \A r, s \in Requests : rrn[r] = rrn[s] /\ rrn[r] # NoRrn => r = s

\* r made the ledger's transaction t.
Poster(r, t) ==
    /\ rrn[r] = t.rrn /\ asked[r].body.amount = t.amount
    /\ pc[r] \in {"store", "done", "lost"}
    /\ switch[r] = "approved" /\ r \notin reversal
    /\ result[r] = Reply("approved", rrn[r], "recorded")

PosterInv == \A t \in transactions : \E r \in Requests : Poster(r, t)

\* The payment of r under rrn n is in the ledger, or was until a reset.
Stands(r, n) == n \in wiped \/ PostedFor(r, n)

\* A response x for key k tells of a payment under that key.
Grounded(k, x) ==
    x # NoResponse /\ x.status = "approved" =>
        \E s \in Requests : asked[s].key = k /\ Stands(s, x.rrn)

AnswerInv ==
    /\ \A k \in Keys :
          /\ Grounded(k, leftover[k])
          /\ store[k] # Unclaimed => Grounded(k, store[k].response)
    /\ \A r \in Requests :
          LET entry == store[asked[r].key]  x == entry.response IN
          /\ pc[r] = "store" /\ result[r].status = "approved" => Stands(r, result[r].rrn)
          /\ pc[r] = "done" => Grounded(asked[r].key, result[r])
          /\ Remembers(r) /\ entry # Unclaimed /\ entry.hash = asked[r].body
                /\ x # NoResponse /\ x.status = "approved" => Stands(r, x.rrn)

-----------------------------------------------------------------------------
(* Types *)

LEMMA AskedIsTyped ==
    ASSUME TypeOK, NEW r \in Requests
    PROVE  /\ asked[r].key \in Keys /\ asked[r].body \in Hashes
           /\ asked[r].body.sender \in Accounts /\ asked[r].body.receiver \in Accounts
           /\ asked[r].body.amount \in Amounts
BY BodiesAssumption DEF TypeOK, Ask, Body

LEMMA InitIsTyped == Init => TypeOK
<1> SUFFICES ASSUME Init PROVE TypeOK
  OBVIOUS
<1>1. LedgerTypeOK
  BY PaymentAssumption DEF Init, LedgerTypeOK
<1>2. StoreTypeOK
  BY DEF Init, StoreInit, StoreTypeOK
<1>3. troubles \in 0..MaxIncidents
  BY PaymentAssumption DEF Init
<1>4. /\ leftover \in [Keys -> Responses \cup {NoResponse}]
      /\ result \in [Requests -> Responses \cup {NoResponse}]
  BY DEF Init
<1>5. /\ pc \in [Requests -> Claimed \cup {"new", "done", "lost"}]
      /\ rrn \in [Requests -> Rrns \cup {NoRrn}]
      /\ switch \in [Requests -> {"unsent", "sent", "approved", "declined", "reversed"}]
  BY DEF Init
<1> QED BY <1>1, <1>2, <1>3, <1>4, <1>5 DEF Init, TypeOK

\* What a handler replies is a response.
LEMMA RepliesAreResponses ==
    ASSUME NEW status \in Statuses \cup HttpErrors, NEW n \in Rrns \cup {NoRrn},
           NEW ledger \in {"none", "recorded", "already_recorded"}
    PROVE  Reply(status, n, ledger) \in Response
BY DEF Reply, Response

\* The store, whatever a handler does to it.
LEMMA StoreIsTyped ==
    ASSUME TypeOK, NEW r \in Requests
    PROVE  /\ TakeClaim(asked[r].key, asked[r].body) =>
                 StoreTypeOK' /\ leftover' \in [Keys -> Responses \cup {NoResponse}]
           /\ result[r] \in Responses /\ PutResponse(asked[r].key, result[r]) =>
                 StoreTypeOK' /\ leftover' \in [Keys -> Responses \cup {NoResponse}]
<1> USE AskedIsTyped, UnclaimedAssumption
    DEF TypeOK, StoreTypeOK, EntryFor
<1>1. ASSUME NEW h \in Hashes, NEW x \in Responses \cup {NoResponse}
      PROVE  EntryFor(h, x) \in Entries
  BY DEF Entries
<1>2. CASE TakeClaim(asked[r].key, asked[r].body)
  <2>1. EntryFor(asked[r].body, NoResponse) \in Entries
    BY <1>1
  <2>2. EntryFor(asked[r].body, leftover[asked[r].key]) \in Entries
    BY <1>1
  <2> QED BY <1>2, <2>1, <2>2 DEF TakeClaim, Claim
<1>3. CASE result[r] \in Responses /\ PutResponse(asked[r].key, result[r])
  <2>1. store[asked[r].key] # Unclaimed =>
            EntryFor(store[asked[r].key].hash, result[r]) \in Entries
    BY <1>1, <1>3 DEF Entries
  <2> QED BY <1>3, <2>1 DEF PutResponse, StoreResponse, HasClaim
<1> QED BY <1>2, <1>3

\* The steps of the world outside the handlers.
WorldStep ==
    \/ \E S \in SUBSET Requests : Crash(S)
    \/ RedisRestarts \/ (\E k \in Keys : RedisEvicts(k)) \/ Reset \/ ClearClaims
    \/ \E a \in Accounts : Register(a)

SwitchStep(r) ==
    (\E verdict \in {"approved", "declined"} : SwitchDecides(r, verdict)) \/ SwitchGetsReversal(r)

\* The steps on the way to the switch and back: they leave ledger and store alone.
QuietStep(r) ==
    \/ PreCheck(r)
    \/ \E verdict \in {"approve", "decline", "review"} : Risk(r, verdict)
    \/ Encrypt(r)
    \/ \E n \in Rrns : Send(r, n) \/ Unreachable(r, n) \/ SoapRejects(r, n)
    \/ Approved(r) \/ Declined(r) \/ TimesOut(r) \/ SoapGarbled(r)
    \/ \E fault \in AceFaults : SoapFault(r, fault)
    \/ RecordFails(r)

LEMMA StepCases ==
    [Next]_vars => \/ \E r \in Requests : \/ Arrive(r) \/ QuietStep(r) \/ Record(r) \/ Store(r)
                                          \/ SwitchStep(r)
                   \/ WorldStep
                   \/ UNCHANGED vars
BY DEF Next, HandlerStep, QuietStep, SwitchStep, WorldStep

\* Nobody's affairs but those of r change.
OnlyOf(r) ==
    /\ pc' \in [Requests -> Claimed \cup {"new", "done", "lost"}]
    /\ rrn' \in [Requests -> Rrns \cup {NoRrn}]
    /\ result' \in [Requests -> Response \cup {NoResponse}]
    /\ switch' \in [Requests -> {"unsent", "sent", "approved", "declined", "reversed"}]
    /\ reversal' \in {reversal, reversal \cup {r}}
    /\ \A s \in Requests \ {r} :
          /\ pc'[s] = pc[s] /\ rrn'[s] = rrn[s] /\ result'[s] = result[s]
          /\ switch'[s] = switch[s]

\* The reply r is about to give, if it gives one, is not an approval.
ReplyMove(r) ==
    IF pc'[r] \in {"store", "done"}
    THEN /\ result'[r] \in Response /\ result'[r].status # "approved"
         /\ pc'[r] = "done" => result'[r].status \in HttpErrors
    ELSE result'[r] = result[r]

\* Only the switch call draws an rrn, sends and reverses; a refusal of a
\* payment that was sent is the switch's own.
SwitchMove(r) ==
    /\ pc[r] \in Claimed \ {"store"} /\ pc'[r] \in (Claimed \cup {"done"}) \ {"precheck"}
    /\ pc'[r] \in {"risk", "encrypt", "send", "wait", "record"} =>
          pc[r] # "precheck" \/ Parties(asked[r].body) \subseteq accounts
    /\ pc'[r] \in BeforeSwitch => pc[r] \in BeforeSwitch
    /\ pc'[r] = "wait" => pc[r] = "send"
    /\ pc'[r] = "record" => pc[r] = "wait" /\ switch[r] = "approved"
    /\ rrn'[r] = rrn[r] \/ /\ pc[r] = "send" /\ pc'[r] \in {"wait", "store"}
                           /\ rrn'[r] \in Rrns
                           /\ RrnsCollide \/ \A s \in Requests : rrn[s] # rrn'[r]
    /\ switch'[r] = switch[r] \/ (pc[r] = "send" /\ pc'[r] = "wait" /\ rrn'[r] \in Rrns)
    /\ reversal' = reversal \/ (pc[r] = "wait" /\ pc'[r] = "store")
    /\ AceFaults \subseteq {"SWITCH_TIMEOUT", "SWITCH_DOWN"}
          /\ pc'[r] = "store" /\ result'[r].status \in Refusals =>
             switch'[r] = switch[r] /\ (pc[r] \in BeforeSwitch \/ switch[r] = "declined")

QuietMove(r) ==
    /\ UNCHANGED <<ledgerVars, storeVars, setup, incidents>>
    /\ OnlyOf(r) /\ ReplyMove(r) /\ SwitchMove(r)

\* The handler of r has gone to this place, with this answer or without one.
Went(r, to) ==
    /\ pc' \in [Requests -> Claimed \cup {"new", "done", "lost"}]
    /\ result' \in [Requests -> Response \cup {NoResponse}]
    /\ \A s \in Requests \ {r} : pc'[s] = pc[s] /\ result'[s] = result[s]
    /\ pc'[r] = to

Answered(r, status) == result'[r] \in Response /\ result'[r].status = status

LEMMA HandlerWent ==
    ASSUME TypeOK, ResponseInv, NEW r \in Requests
    PROVE  /\ \A to \in Claimed : GoTo(r, to) /\ UNCHANGED result =>
                 Went(r, to) /\ result'[r] = result[r]
           /\ \A status \in Statuses \cup HttpErrors, n \in Rrns \cup {NoRrn} :
                 /\ Decide(r, Reply(status, n, "none")) => Went(r, "store") /\ Answered(r, status)
                 /\ Return(r, Reply(status, n, "none")) => Went(r, "done") /\ Answered(r, status)
<1> DEFINE Says(status, n) == Reply(status, n, "none")
<1>1. /\ pc \in [Requests -> Claimed \cup {"new", "done", "lost"}]
      /\ result \in [Requests -> Response \cup {NoResponse}]
  BY DEF TypeOK, ResponseInv
<1>2. \A to \in Claimed : GoTo(r, to) /\ UNCHANGED result =>
                 Went(r, to) /\ result'[r] = result[r]
  BY <1>1 DEF GoTo, Went
<1>3. ASSUME NEW status \in Statuses \cup HttpErrors, NEW n \in Rrns \cup {NoRrn},
             NEW to \in {"store", "done"},
             GoTo(r, to), result' = [result EXCEPT ![r] = Says(status, n)]
      PROVE  Went(r, to) /\ Answered(r, status)
  <2>1. Says(status, n) \in Response /\ Says(status, n).status = status
    BY RepliesAreResponses DEF Reply
  <2> HIDE DEF Says
  <2> QED BY <1>1, <1>3, <2>1 DEF GoTo, Went, Answered, Claimed
<1> QED BY <1>2, <1>3 DEF Decide, Return

\* The switch draws r a fresh rrn.
LEMMA DrawnRrn ==
    ASSUME TypeOK, NEW r \in Requests, NEW n \in Rrns, DrawsRrn(r, n)
    PROVE  /\ rrn' \in [Requests -> Rrns \cup {NoRrn}]
           /\ \A s \in Requests \ {r} : rrn'[s] = rrn[s]
           /\ rrn'[r] = n
           /\ RrnsCollide \/ \A s \in Requests : rrn[s] # n
BY DEF TypeOK, DrawsRrn

LEMMA QuietStepMoves ==
    ASSUME TypeOK, ResponseInv, NEW r \in Requests, QuietStep(r)
    PROVE  QuietMove(r)
<1>a. /\ pc \in [Requests -> Claimed \cup {"new", "done", "lost"}]
      /\ rrn \in [Requests -> Rrns \cup {NoRrn}]
      /\ result \in [Requests -> Response \cup {NoResponse}]
      /\ switch \in [Requests -> {"unsent", "sent", "approved", "declined", "reversed"}]
      /\ reversal \subseteq Requests
  BY DEF TypeOK, ResponseInv
<1>b. /\ \A to \in Claimed : GoTo(r, to) /\ UNCHANGED result =>
            Went(r, to) /\ result'[r] = result[r]
      /\ \A status \in Statuses \cup HttpErrors, n \in Rrns \cup {NoRrn} :
            /\ Decide(r, Reply(status, n, "none")) => Went(r, "store") /\ Answered(r, status)
            /\ Return(r, Reply(status, n, "none")) => Went(r, "done") /\ Answered(r, status)
  BY HandlerWent
<1> USE <1>a, <1>b DEF QuietMove, OnlyOf, ReplyMove, SwitchMove, Went, Answered,
                       BeforeSwitch, Claimed, Statuses, HttpErrors, Refusals
<1>1. CASE PreCheck(r)
  BY <1>1 DEF PreCheck
<1>2. ASSUME NEW verdict \in {"approve", "decline", "review"}, Risk(r, verdict)
      PROVE  QuietMove(r)
  BY <1>2 DEF Risk
<1>3. CASE Encrypt(r)
  BY <1>3 DEF Encrypt
<1>4. ASSUME NEW n \in Rrns, Send(r, n) PROVE QuietMove(r)
  BY <1>4, DrawnRrn DEF Send
<1>5. ASSUME NEW n \in Rrns, Unreachable(r, n) \/ SoapRejects(r, n) PROVE QuietMove(r)
  BY <1>5, DrawnRrn DEF Unreachable, SoapRejects
<1>6. CASE Approved(r)
  BY <1>6 DEF Approved
<1>7. CASE Declined(r)
  BY <1>7 DEF Declined
<1>8. CASE TimesOut(r)
  BY <1>8 DEF TimesOut
<1>9. CASE SoapGarbled(r) \/ RecordFails(r)
  BY <1>9 DEF SoapGarbled, RecordFails
<1>10. ASSUME NEW fault \in AceFaults, SoapFault(r, fault) PROVE QuietMove(r)
  BY <1>10 DEF SoapFault
<1> QED BY <1>1, <1>2, <1>3, <1>4, <1>5, <1>6, <1>7, <1>8, <1>9, <1>10 DEF QuietStep

\* How a claim ends: with the handler going on, or with an answer at once.
ArriveMove(r) ==
    LET k == asked[r].key  b == asked[r].body IN
    /\ UNCHANGED <<ledgerVars, setup, rrn, switch, reversal, incidents>>
    /\ pc[r] = "new"
    /\ leftover' \in [Keys -> Response \cup {NoResponse}]
    /\ leftover'[k] = NoResponse /\ \A j \in Keys \ {k} : leftover'[j] = leftover[j]
    /\ \/ /\ store[k] = Unclaimed /\ Went(r, "precheck") /\ result'[r] = result[r]
          /\ store'[k] = EntryFor(b, leftover[k])
          /\ \A j \in Keys \ {k} : store'[j] = store[j]
       \/ /\ store[k] # Unclaimed /\ Went(r, "done") /\ UNCHANGED store
          /\ \/ Answered(r, "400") \/ Answered(r, "409")
             \/ /\ result'[r] = store[k].response /\ result'[r] \in Response
                /\ store[k].hash = b

LEMMA ArriveMoves ==
    ASSUME TypeOK, ResponseInv, NEW r \in Requests, Arrive(r)
    PROVE  ArriveMove(r)
<1> DEFINE k == asked[r].key
           b == asked[r].body
<1>a. /\ leftover \in [Keys -> Response \cup {NoResponse}]
      /\ pc \in [Requests -> Claimed \cup {"new", "done", "lost"}]
      /\ result \in [Requests -> Response \cup {NoResponse}]
      /\ store \in [Keys -> Entries \cup {Unclaimed}]
  BY DEF TypeOK, ResponseInv, StoreTypeOK
<1>b. k \in Keys
  BY AskedIsTyped
<1>1. pc[r] = "new" /\ UNCHANGED <<ledgerVars, setup, rrn, switch, reversal, incidents>>
  BY DEF Arrive
<1>2. /\ leftover' \in [Keys -> Response \cup {NoResponse}]
      /\ leftover'[k] = NoResponse /\ \A j \in Keys \ {k} : leftover'[j] = leftover[j]
  BY <1>a, <1>b DEF Arrive, TakeClaim
<1>3. CASE store[k] = Unclaimed
  <2>1. Went(r, "precheck") /\ result'[r] = result[r]
    BY <1>3, HandlerWent DEF Arrive, ClaimOutcome, Claimed
  <2>2. store'[k] = EntryFor(b, leftover[k]) /\ \A j \in Keys \ {k} : store'[j] = store[j]
    BY <1>a, <1>b, <1>3 DEF Arrive, TakeClaim, Claim, ClaimOutcome
  <2> QED BY <1>1, <1>2, <1>3, <2>1, <2>2 DEF ArriveMove
<1>4. CASE store[k] # Unclaimed
  <2>1. UNCHANGED store
    BY <1>b, <1>4 DEF Arrive, TakeClaim, Claim, ClaimOutcome, ResponseInv, HasClaim
  <2>2. CASE store[k].hash # b
    <3>1. Return(r, Reply("400", NoRrn, "none"))
      BY <1>4, <2>2 DEF Arrive, ClaimOutcome
    <3>2. Went(r, "done") /\ Answered(r, "400")
      BY <3>1, HandlerWent DEF HttpErrors
    <3> QED BY <1>1, <1>2, <1>4, <2>1, <3>2 DEF ArriveMove
  <2>3. CASE store[k].hash = b /\ store[k].response = NoResponse
    <3>1. Return(r, Reply("409", NoRrn, "none"))
      BY <1>4, <2>3 DEF Arrive, ClaimOutcome
    <3>2. Went(r, "done") /\ Answered(r, "409")
      BY <3>1, HandlerWent DEF HttpErrors
    <3> QED BY <1>1, <1>2, <1>4, <2>1, <3>2 DEF ArriveMove
  <2>4. CASE store[k].hash = b /\ store[k].response # NoResponse
    <3>1. Return(r, store[k].response) /\ store[k].response \in Response
      BY <1>b, <1>4, <2>4 DEF Arrive, ClaimOutcome, ResponseInv, HasClaim
    <3>2. Went(r, "done") /\ result'[r] = store[k].response
      BY <1>a, <3>1 DEF Return, GoTo, Went
    <3> QED BY <1>1, <1>2, <1>4, <2>1, <2>4, <3>1, <3>2 DEF ArriveMove
  <2> QED BY <2>2, <2>3, <2>4
<1> QED BY <1>3, <1>4

\* Storing the response of r.
StoreMove(r) ==
    LET k == asked[r].key IN
    /\ UNCHANGED <<ledgerVars, setup, result, rrn, switch, reversal, incidents>>
    /\ pc[r] = "store" /\ Went(r, "done")
    /\ leftover' \in [Keys -> Response \cup {NoResponse}]
    /\ \A j \in Keys \ {k} : store'[j] = store[j] /\ leftover'[j] = leftover[j]
    /\ IF store[k] = Unclaimed
       THEN store'[k] = Unclaimed /\ leftover'[k] \in {leftover[k], result[r]}
       ELSE store'[k] = EntryFor(store[k].hash, result[r]) /\ leftover'[k] = leftover[k]

LEMMA StoreMoves ==
    ASSUME TypeOK, ResponseInv, NEW r \in Requests, Store(r)
    PROVE  StoreMove(r)
<1> DEFINE k == asked[r].key
<1>1. /\ leftover \in [Keys -> Response \cup {NoResponse}]
      /\ pc \in [Requests -> Claimed \cup {"new", "done", "lost"}]
      /\ result \in [Requests -> Response \cup {NoResponse}]
      /\ store \in [Keys -> Entries \cup {Unclaimed}]
  BY DEF TypeOK, ResponseInv, StoreTypeOK
<1>2. k \in Keys
  BY AskedIsTyped
<1>3. UNCHANGED <<ledgerVars, setup, result, rrn, switch, reversal, incidents>>
      /\ pc[r] = "store" /\ Went(r, "done")
  BY <1>1 DEF Store, GoTo, Went
<1>4. result[r] \in Response
  BY <1>3 DEF ResponseInv
<1>5. leftover' \in [Keys -> Response \cup {NoResponse}]
  BY <1>1, <1>2, <1>4 DEF Store, PutResponse
<1>6. \A j \in Keys \ {k} : store'[j] = store[j] /\ leftover'[j] = leftover[j]
  BY <1>1, <1>2 DEF Store, PutResponse, StoreResponse
<1>7. IF store[k] = Unclaimed
      THEN store'[k] = Unclaimed /\ leftover'[k] \in {leftover[k], result[r]}
      ELSE store'[k] = EntryFor(store[k].hash, result[r]) /\ leftover'[k] = leftover[k]
  BY <1>1, <1>2 DEF Store, PutResponse, StoreResponse, HasClaim
<1> QED BY <1>3, <1>5, <1>6, <1>7 DEF StoreMove

\* Posting the approved payment of r, whose parties are registered.
RecordMove(r) ==
    LET b == asked[r].body  n == rrn[r] IN
    /\ UNCHANGED <<accounts, storeVars, setup, rrn, switch, reversal, incidents>>
    /\ pc[r] = "record" /\ Went(r, "store")
    /\ IF n \in RrnsIn(transactions)
       THEN /\ UNCHANGED ledgerVars
            /\ result'[r] = Reply("approved", n, "already_recorded")
       ELSE /\ transactions' = transactions \cup {[rrn |-> n, amount |-> b.amount]}
            /\ entries' = entries \cup
                  {EntryRow(lastId + 1, n, b.sender, "debit", b.amount),
                   EntryRow(lastId + 2, n, b.receiver, "credit", b.amount)}
            /\ lastId' = lastId + 2
            /\ result'[r] = Reply("approved", n, "recorded")

LEMMA RecordMoves ==
    ASSUME TypeOK, ResponseInv, HandlerInv, NEW r \in Requests, Record(r)
    PROVE  RecordMove(r)
<1> DEFINE b == asked[r].body
           n == rrn[r]
           ledger == RecordResult(n, b.sender, b.receiver)
           reply == Reply("approved", n, ledger)
<1>1. /\ pc \in [Requests -> Claimed \cup {"new", "done", "lost"}]
      /\ result \in [Requests -> Response \cup {NoResponse}]
      /\ n \in Rrns \cup {NoRrn}
  BY DEF TypeOK, ResponseInv
<1>2. /\ UNCHANGED <<storeVars, setup, rrn, switch, reversal, incidents>>
      /\ pc[r] = "record" /\ Decide(r, reply) /\ RecordPurchase(n, b.sender, b.receiver, b.amount)
  BY DEF Record
<1>3. ledger = IF n \in RrnsIn(transactions) THEN "already_recorded" ELSE "recorded"
  BY <1>2 DEF RecordResult, HandlerInv, Parties
<1>4. reply \in Response
  BY <1>1, <1>3, RepliesAreResponses DEF Statuses
<1> HIDE DEF reply
<1>5. Went(r, "store") /\ result'[r] = reply
  BY <1>1, <1>2, <1>4 DEF Decide, GoTo, Went, Claimed
<1> QED BY <1>2, <1>3, <1>5 DEF RecordPurchase, RecordMove, ledgerVars, reply

\* What Redis, or the process, may have lost of key k; it is then in forgot.
Loses(k) ==
    /\ k \in forgot'
    /\ \/ store'[k] = Unclaimed /\ leftover'[k] = NoResponse
       \/ HasClaim(k) /\ store'[k] = Unclaimed /\ leftover'[k] = store[k].response
       \/ HasClaim(k) /\ store'[k] = EntryFor(store[k].hash, NoResponse) /\ leftover'[k] = leftover[k]
       \/ store'[k] = store[k] /\ leftover'[k] = NoResponse

\* Handlers may be lost, claims and responses forgotten, the ledger emptied.
WorldMove ==
    /\ UNCHANGED <<setup, rrn, result, switch, reversal>>
    /\ pc' \in [Requests -> Claimed \cup {"new", "done", "lost"}]
    /\ \A r \in Requests : pc'[r] = pc[r] \/ (pc[r] \in Claimed /\ pc'[r] = "lost")
    /\ accounts \subseteq accounts' /\ forgot \subseteq forgot'
    /\ leftover' \in [Keys -> Response \cup {NoResponse}]
    /\ \A k \in Keys : (store'[k] = store[k] /\ leftover'[k] = leftover[k]) \/ Loses(k)
    /\ \/ UNCHANGED <<transactions, entries, wiped>>
       \/ transactions' = {} /\ wiped' = wiped \cup RrnsIn(transactions)

LEMMA WorldMoves ==
    ASSUME TypeOK, ResponseInv, WorldStep
    PROVE  WorldMove
<1>a. /\ pc \in [Requests -> Claimed \cup {"new", "done", "lost"}]
      /\ leftover \in [Keys -> Response \cup {NoResponse}]
      /\ store \in [Keys -> Entries \cup {Unclaimed}]
      /\ forgot \subseteq Keys
  BY DEF TypeOK, ResponseInv, StoreTypeOK
<1>b. ForgetAll => /\ forgot \subseteq forgot'
                   /\ leftover' \in [Keys -> Response \cup {NoResponse}]
                   /\ \A k \in Keys : Loses(k)
  BY <1>a DEF ForgetAll, ClearAll, Loses
<1> USE <1>a DEF WorldMove
<1>1. ASSUME NEW S \in SUBSET Requests, Crash(S) PROVE WorldMove
  <2>1. /\ UNCHANGED <<setup, rrn, result, switch, reversal, accounts, transactions, entries, wiped>>
        /\ ForgetAll \/ UNCHANGED <<storeVars, forgot>>
    BY <1>1 DEF Crash, ledgerVars
  <2>2. /\ pc' \in [Requests -> Claimed \cup {"new", "done", "lost"}]
        /\ \A r \in Requests : pc'[r] = pc[r] \/ (pc[r] \in Claimed /\ pc'[r] = "lost")
    BY <1>1 DEF Crash, Running
  <2> QED BY <1>b, <2>1, <2>2 DEF storeVars
<1>2. CASE RedisRestarts \/ ClearClaims
  BY <1>b, <1>2 DEF RedisRestarts, ClearClaims, ledgerVars
<1>3. ASSUME NEW k \in Keys, RedisEvicts(k) PROVE WorldMove
  <2>1. /\ UNCHANGED <<setup, pc, rrn, result, switch, reversal, wiped>> /\ UNCHANGED ledgerVars
        /\ forgot' = forgot \cup {k}
    BY <1>3 DEF RedisEvicts
  <2>2. CASE HasClaim(k) /\ store' = [store EXCEPT ![k] = Unclaimed]
                         /\ leftover' = [leftover EXCEPT ![k] = store[k].response]
    <3>1. store[k].response \in Response \cup {NoResponse}
      BY <2>2 DEF ResponseInv
    <3> QED BY <2>1, <2>2, <3>1 DEF Loses, ledgerVars
  <2>3. CASE HasClaim(k) /\ store' = [store EXCEPT ![k].response = NoResponse]
                         /\ UNCHANGED leftover
    <3>1. store'[k] = EntryFor(store[k].hash, NoResponse)
      BY <2>3 DEF HasClaim, Entries, EntryFor
    <3>2. \A j \in Keys \ {k} : store'[j] = store[j]
      BY <2>3
    <3> QED BY <2>1, <2>3, <3>1, <3>2 DEF Loses, ledgerVars
  <2>4. CASE leftover' = [leftover EXCEPT ![k] = NoResponse] /\ UNCHANGED store
    BY <2>1, <2>4 DEF Loses, ledgerVars
  <2> QED BY <1>3, <2>2, <2>3, <2>4 DEF RedisEvicts
<1>4. CASE Reset
  BY <1>4 DEF Reset, WipeLedger, storeVars
<1>5. ASSUME NEW a \in Accounts, Register(a) PROVE WorldMove
  BY <1>5 DEF Register, RegisterAccount, paymentVars, incidents, storeVars
<1> QED BY <1>1, <1>2, <1>3, <1>4, <1>5 DEF WorldStep

-----------------------------------------------------------------------------
(* Types are kept *)

LEMMA TypePreserved == TypeOK /\ ResponseInv /\ HandlerInv /\ [Next]_vars => TypeOK'
<1> SUFFICES ASSUME TypeOK, ResponseInv, HandlerInv, [Next]_vars PROVE TypeOK'
  OBVIOUS
<1>a. Response \cup {NoResponse} \subseteq Responses \cup {NoResponse}
  BY ResponsesAssumption
<1>1. ASSUME NEW r \in Requests, Arrive(r) PROVE TypeOK'
  <2>1. ArriveMove(r) /\ StoreTypeOK'
    BY <1>1, ArriveMoves, StoreIsTyped DEF Arrive
  <2> QED BY <1>a, <2>1 DEF ArriveMove, Went, TypeOK, LedgerTypeOK, ledgerVars, setup, incidents
<1>2. ASSUME NEW r \in Requests, QuietStep(r) PROVE TypeOK'
  <2>1. QuietMove(r)
    BY <1>2, QuietStepMoves
  <2>2. LedgerTypeOK' /\ StoreTypeOK'
    BY <2>1 DEF QuietMove, TypeOK, LedgerTypeOK, StoreTypeOK, ledgerVars, storeVars
  <2> QED BY <1>a, <2>1, <2>2 DEF QuietMove, OnlyOf, TypeOK, setup, incidents, storeVars
<1>3. ASSUME NEW r \in Requests, Record(r) PROVE TypeOK'
  <2>1. RecordMove(r)
    BY <1>3, RecordMoves
  <2>2. LedgerTypeOK'
    <3>1. rrn[r] \in Rrns
      BY <2>1 DEF RecordMove, HandlerInv
    <3>2. lastId \in Nat /\ entries \subseteq Entry /\ transactions \subseteq Transaction
      BY DEF TypeOK, LedgerTypeOK
    <3>3. /\ EntryRow(lastId + 1, rrn[r], asked[r].body.sender, "debit", asked[r].body.amount)
                \in Entry
          /\ EntryRow(lastId + 2, rrn[r], asked[r].body.receiver, "credit", asked[r].body.amount)
                \in Entry
      BY <3>1, <3>2, AskedIsTyped DEF EntryRow, Entry
    <3>4. [rrn |-> rrn[r], amount |-> asked[r].body.amount] \in Transaction
      BY <3>1, AskedIsTyped DEF Transaction
    <3> QED BY <2>1, <3>2, <3>3, <3>4 DEF RecordMove, TypeOK, LedgerTypeOK, ledgerVars
  <2>3. StoreTypeOK'
    BY <2>1 DEF RecordMove, storeVars, TypeOK, StoreTypeOK
  <2> QED BY <1>a, <2>1, <2>2, <2>3 DEF RecordMove, Went, TypeOK, setup, incidents, storeVars
<1>4. ASSUME NEW r \in Requests, Store(r) PROVE TypeOK'
  <2>1. StoreMove(r) /\ StoreTypeOK'
    <3>1. result[r] \in Responses
      BY <1>4, ResponsesAssumption DEF Store, ResponseInv
    <3> QED BY <1>4, <3>1, StoreMoves, StoreIsTyped DEF Store
  <2> QED BY <1>a, <2>1 DEF StoreMove, Went, TypeOK, LedgerTypeOK, ledgerVars, setup, incidents
<1>5. ASSUME NEW r \in Requests, SwitchStep(r) PROVE TypeOK'
  <2>1. LedgerTypeOK' /\ StoreTypeOK'
    BY <1>5 DEF SwitchStep, SwitchDecides, SwitchGetsReversal, TypeOK, LedgerTypeOK, StoreTypeOK,
                ledgerVars, storeVars
  <2> QED BY <1>5, <2>1 DEF SwitchStep, SwitchDecides, SwitchGetsReversal, TypeOK, setup, incidents,
                            storeVars
<1>6. CASE WorldStep
  <2>a. troubles' \in 0..MaxIncidents
    <3>1. troubles \in 0..MaxIncidents /\ MaxIncidents \in Nat
      BY PaymentAssumption DEF TypeOK
    <3>2. Incident \/ UNCHANGED troubles
      BY <1>6 DEF WorldStep, Crash, RedisRestarts, RedisEvicts, Reset, ClearClaims, Register,
                  paymentVars, incidents
    <3> QED BY <3>1, <3>2 DEF Incident
  <2>1. ASSUME NEW S \in SUBSET Requests, Crash(S) PROVE TypeOK'
    <3>1. wiping' \in BOOLEAN
      BY <2>1 DEF Crash, TypeOK
    <3>2. pc' \in [Requests -> Claimed \cup {"new", "done", "lost"}]
      BY <2>1 DEF Crash, TypeOK
    <3>3. leftover' \in [Keys -> Responses \cup {NoResponse}] /\ forgot' \subseteq Keys
      BY <2>1 DEF Crash, ForgetAll, TypeOK, storeVars
    <3>4. LedgerTypeOK' /\ StoreTypeOK'
      BY <2>1 DEF Crash, ForgetAll, ClearAll, TypeOK, LedgerTypeOK, StoreTypeOK, ledgerVars, storeVars
    <3> QED BY <2>a, <2>1, <3>1, <3>2, <3>3, <3>4 DEF Crash, TypeOK, setup
  <2>2. CASE RedisRestarts \/ ClearClaims
    <3>1. LedgerTypeOK' /\ StoreTypeOK'
      BY <2>2 DEF RedisRestarts, ClearClaims, ForgetAll, ClearAll, TypeOK, LedgerTypeOK, StoreTypeOK,
                  ledgerVars
    <3> QED BY <2>a, <2>2, <3>1 DEF RedisRestarts, ClearClaims, ForgetAll, TypeOK, setup
  <2>3. ASSUME NEW k \in Keys, RedisEvicts(k) PROVE TypeOK'
    <3>1. StoreTypeOK'
      BY <2>3 DEF RedisEvicts, HasClaim, TypeOK, StoreTypeOK, Entries
    <3>2. leftover' \in [Keys -> Response \cup {NoResponse}]
      BY <2>3 DEF RedisEvicts, ResponseInv
    <3>3. LedgerTypeOK'
      BY <2>3 DEF RedisEvicts, TypeOK, LedgerTypeOK, ledgerVars
    <3> QED BY <1>a, <2>a, <2>3, <3>1, <3>2, <3>3 DEF RedisEvicts, TypeOK, setup
  <2>4. CASE Reset
    <3>1. LedgerTypeOK' /\ StoreTypeOK'
      BY <2>4 DEF Reset, WipeLedger, TypeOK, LedgerTypeOK, StoreTypeOK, storeVars
    <3>2. wiped' \subseteq Rrns
      BY <2>4 DEF Reset, RrnsIn, TypeOK, LedgerTypeOK, Transaction
    <3> QED BY <2>a, <2>4, <3>1, <3>2 DEF Reset, TypeOK, setup, storeVars
  <2>5. ASSUME NEW a \in Accounts, Register(a) PROVE TypeOK'
    <3>1. LedgerTypeOK' /\ StoreTypeOK'
      BY <2>5 DEF Register, RegisterAccount, TypeOK, LedgerTypeOK, StoreTypeOK, storeVars
    <3> QED BY <2>5, <3>1 DEF Register, paymentVars, TypeOK, setup, incidents, storeVars
  <2> QED BY <1>6, <2>1, <2>2, <2>3, <2>4, <2>5 DEF WorldStep
<1>7. CASE UNCHANGED vars
  BY <1>7 DEF vars, paymentVars, setup, incidents, storeVars, ledgerVars, TypeOK, LedgerTypeOK,
              StoreTypeOK
<1> QED BY <1>1, <1>2, <1>3, <1>4, <1>5, <1>6, <1>7, StepCases

LEMMA ResponsePreserved == TypeOK /\ ResponseInv /\ HandlerInv /\ [Next]_vars => ResponseInv'
<1> SUFFICES ASSUME TypeOK, ResponseInv, HandlerInv, [Next]_vars PROVE ResponseInv'
  OBVIOUS
<1> USE DEF ResponseInv, HasClaim
<1>a. \A r \in Requests : asked[r].key \in Keys
  BY AskedIsTyped
<1>1. ASSUME NEW r \in Requests, Arrive(r) PROVE ResponseInv'
  <2>1. ArriveMove(r)
    BY <1>1, ArriveMoves
  <2>2. \A k \in Keys : store'[k] # Unclaimed => /\ store'[k].response \in Response \cup {NoResponse}
                                                 /\ leftover'[k] = NoResponse
    BY <2>1 DEF ArriveMove, EntryFor
  <2>3. pc'[r] = "done" => result'[r] \in Response
    BY <2>1 DEF ArriveMove, Went, Answered
  <2> QED BY <2>1, <2>2, <2>3 DEF ArriveMove, Went
<1>2. ASSUME NEW r \in Requests, QuietStep(r) PROVE ResponseInv'
  BY <1>2, QuietStepMoves DEF QuietMove, OnlyOf, ReplyMove, storeVars
<1>3. ASSUME NEW r \in Requests, Record(r) PROVE ResponseInv'
  <2>1. RecordMove(r)
    BY <1>3, RecordMoves
  <2>2. result'[r] \in Response
    BY <2>1, RepliesAreResponses DEF RecordMove, Statuses, TypeOK
  <2> QED BY <2>1, <2>2 DEF RecordMove, Went, storeVars
<1>4. ASSUME NEW r \in Requests, Store(r) PROVE ResponseInv'
  <2>1. StoreMove(r)
    BY <1>4, StoreMoves
  <2>2. \A k \in Keys : store'[k] # Unclaimed => /\ store'[k].response \in Response \cup {NoResponse}
                                                 /\ leftover'[k] = NoResponse
    BY <2>1, <1>a DEF StoreMove, EntryFor
  <2> QED BY <2>1, <2>2 DEF StoreMove, Went
<1>5. ASSUME NEW r \in Requests, SwitchStep(r) PROVE ResponseInv'
  BY <1>5 DEF SwitchStep, SwitchDecides, SwitchGetsReversal, storeVars
<1>6. CASE WorldStep
  <2>1. WorldMove
    BY <1>6, WorldMoves
  <2>2. ASSUME NEW k \in Keys, store'[k] # Unclaimed
        PROVE  store'[k].response \in Response \cup {NoResponse} /\ leftover'[k] = NoResponse
    <3>1. CASE store'[k] = store[k]
      BY <2>1, <2>2, <3>1 DEF WorldMove, Loses
    <3>2. CASE store[k] # Unclaimed /\ store'[k] = EntryFor(store[k].hash, NoResponse)
                                    /\ leftover'[k] = leftover[k]
      BY <3>2 DEF EntryFor
    <3> QED BY <2>1, <2>2, <3>1, <3>2 DEF WorldMove, Loses
  <2> QED BY <2>1, <2>2 DEF WorldMove
<1>7. CASE UNCHANGED vars
  BY <1>7 DEF vars, paymentVars, storeVars
<1> QED BY <1>1, <1>2, <1>3, <1>4, <1>5, <1>6, <1>7, StepCases

LEMMA HandlerPreserved == TypeOK /\ ResponseInv /\ HandlerInv /\ [Next]_vars => HandlerInv'
<1> SUFFICES ASSUME TypeOK, ResponseInv, HandlerInv, [Next]_vars PROVE HandlerInv'
  OBVIOUS
<1> USE DEF HandlerInv, BeforeSwitch, Claimed
<1>1. ASSUME NEW r \in Requests, Arrive(r) PROVE HandlerInv'
  BY <1>1, ArriveMoves DEF ArriveMove, Went, setup, ledgerVars
<1>2. ASSUME NEW r \in Requests, QuietStep(r) PROVE HandlerInv'
  <2>1. QuietMove(r)
    BY <1>2, QuietStepMoves
  <2>2. asked' = asked /\ accounts' = accounts
    BY <2>1 DEF QuietMove, setup, ledgerVars
  <2> QED BY <2>1, <2>2 DEF QuietMove, OnlyOf, SwitchMove
<1>3. ASSUME NEW r \in Requests, Record(r) \/ Store(r) PROVE HandlerInv'
  BY <1>3, RecordMoves, StoreMoves DEF RecordMove, StoreMove, Went, setup, ledgerVars
<1>4. ASSUME NEW r \in Requests, SwitchStep(r) PROVE HandlerInv'
  BY <1>4 DEF SwitchStep, SwitchDecides, SwitchGetsReversal, setup, ledgerVars, TypeOK
<1>5. CASE WorldStep
  BY <1>5, WorldMoves DEF WorldMove, setup
<1>6. CASE UNCHANGED vars
  BY <1>6 DEF vars, paymentVars, setup, ledgerVars
<1> QED BY <1>1, <1>2, <1>3, <1>4, <1>5, <1>6, StepCases

-----------------------------------------------------------------------------
(* One worker per key *)

\* An entry is a hash and a response, and no absence of one.
LEMMA EntriesDiffer ==
    /\ NoResponse \notin Response
    /\ \A h \in Hashes, x \in Responses \cup {NoResponse} :
          /\ EntryFor(h, x) # Unclaimed
          /\ EntryFor(h, x).hash = h /\ EntryFor(h, x).response = x
    /\ \A entry \in Entries : entry = EntryFor(entry.hash, entry.response)
<1>1. \A h \in Hashes, x \in Responses \cup {NoResponse} : EntryFor(h, x) \in Entries
  BY DEF EntryFor, Entries
<1> QED BY <1>1, UnclaimedAssumption, NoResponseAssumption, ResponsesAssumption DEF EntryFor, Entries

\* What ClaimInv says of one request.
Holds(r) ==
    LET entry == store[asked[r].key] IN
    /\ pc[r] \in Claimed => entry = EntryFor(asked[r].body, NoResponse)
    /\ switch[r] # "unsent" => entry # Unclaimed
    /\ pc[r] = "done" /\ result[r].status \in Statuses =>
          entry = EntryFor(asked[r].body, result[r])

LEMMA ClaimPreserved ==
    ASSUME TypeOK, ResponseInv, HandlerInv, ClaimInv, OneWorker, [Next]_vars
    PROVE  ClaimInv' /\ OneWorker'
<1>a. /\ \A s \in Requests : asked[s].key \in Keys /\ asked[s].body \in Hashes
      /\ store \in [Keys -> Entries \cup {Unclaimed}]
      /\ \A s \in Requests : Remembers(s) => Holds(s)
      /\ \A k \in Keys \ forgot : leftover[k] = NoResponse
  BY AskedIsTyped DEF TypeOK, StoreTypeOK, ClaimInv, Holds
<1>b. ASSUME /\ \A k \in Keys \ forgot' : leftover'[k] = NoResponse
             /\ \A s \in Requests : Remembers(s)' => Holds(s)'
      PROVE  ClaimInv'
  BY <1>b DEF ClaimInv, Holds
<1>c. Claimed \cap {"new", "done", "lost"} = {} /\ Statuses \cap HttpErrors = {}
  BY DEF Claimed, Statuses, HttpErrors
<1>1. ASSUME NEW r \in Requests, Arrive(r) PROVE ClaimInv' /\ OneWorker'
  <2> DEFINE k == asked[r].key
             b == asked[r].body
  <2>1. ArriveMove(r)
    BY <1>1, ArriveMoves
  <2>2. UNCHANGED <<asked, switch, forgot>> /\ switch[r] = "unsent"
    BY <2>1 DEF ArriveMove, setup, incidents, HandlerInv, BeforeSwitch
  <2>3. \A j \in Keys \ forgot' : leftover'[j] = NoResponse
    BY <1>a, <2>1, <2>2 DEF ArriveMove
  <2>4. CASE store[k] = Unclaimed
    <3>1. /\ Went(r, "precheck") /\ store'[k] = EntryFor(b, leftover[k])
          /\ \A j \in Keys \ {k} : store'[j] = store[j]
      BY <2>1, <2>4 DEF ArriveMove
    <3>2. ASSUME NEW s \in Requests \ {r}, Remembers(s), asked[s].key = k PROVE ~Worker(s)
      BY <1>a, <2>4, <3>2, EntriesDiffer DEF Worker, Holds
    <3>3. ASSUME NEW s \in Requests, Remembers(s)' PROVE Holds(s)'
      <4>1. Remembers(s)
        BY <2>2, <3>3 DEF Remembers
      <4>2. CASE s = r
        BY <1>a, <1>c, <2>2, <3>1, <4>1, <4>2 DEF Holds, Went, Claimed, Remembers
      <4>3. CASE s # r /\ asked[s].key = k
        <5>1. pc[s] \notin Claimed /\ switch[s] = "unsent"
          BY <3>2, <4>1, <4>3 DEF Worker
        <5>2. ~(pc[s] = "done" /\ result[s].status \in Statuses)
          <6>1. SUFFICES ASSUME pc[s] = "done", result[s].status \in Statuses PROVE FALSE
            OBVIOUS
          <6>2. result[s] \in Responses
            BY <6>1, ResponsesAssumption DEF ResponseInv
          <6> QED BY <1>a, <2>4, <4>1, <4>3, <6>1, <6>2, EntriesDiffer DEF Holds
        <5> QED BY <2>2, <3>1, <4>3, <5>1, <5>2 DEF Holds, Went
      <4>4. CASE s # r /\ asked[s].key # k
        BY <1>a, <2>2, <3>1, <4>1, <4>4 DEF Holds, Went
      <4> QED BY <4>2, <4>3, <4>4
    <3>4. OneWorker'
      BY <2>2, <3>1, <3>2 DEF OneWorker, Worker, Went, Remembers
    <3> QED BY <1>b, <2>3, <3>3, <3>4
  <2>5. CASE store[k] # Unclaimed
    <3>1. Went(r, "done") /\ UNCHANGED store
      BY <2>1, <2>5 DEF ArriveMove
    <3>2. result'[r].status \in Statuses => store[k] = EntryFor(b, result'[r])
      BY <1>a, <1>c, <2>1, <2>5, EntriesDiffer DEF ArriveMove, Answered, Statuses
    <3>3. ASSUME NEW s \in Requests, Remembers(s)' PROVE Holds(s)'
      <4>1. CASE s = r
        BY <1>c, <2>2, <3>1, <3>2, <4>1 DEF Holds, Went, Claimed
      <4>2. CASE s # r
        BY <1>a, <2>2, <3>1, <3>3, <4>2 DEF Holds, Went, Remembers
      <4> QED BY <4>1, <4>2
    <3>4. OneWorker'
      BY <1>c, <2>2, <3>1 DEF OneWorker, Worker, Went, Remembers, Claimed
    <3> QED BY <1>b, <2>3, <3>3, <3>4
  <2> QED BY <2>4, <2>5
<1>2. ASSUME NEW r \in Requests, QuietStep(r) PROVE ClaimInv' /\ OneWorker'
  <2>1. QuietMove(r)
    BY <1>2, QuietStepMoves
  <2>2. UNCHANGED <<asked, store, leftover, forgot>>
    BY <2>1 DEF QuietMove, setup, incidents, storeVars
  <2>3. /\ pc[r] \in Claimed /\ pc'[r] \in Claimed \cup {"done"}
        /\ pc'[r] = "done" => result'[r].status \notin Statuses
    BY <1>c, <2>1 DEF QuietMove, SwitchMove, ReplyMove
  <2>4. \A s \in Requests \ {r} : pc'[s] = pc[s] /\ result'[s] = result[s] /\ switch'[s] = switch[s]
    BY <2>1 DEF QuietMove, OnlyOf
  <2>5. ASSUME NEW s \in Requests, Remembers(s)' PROVE Holds(s)'
    <3>1. Remembers(s) /\ Holds(s)
      BY <1>a, <2>2, <2>5 DEF Remembers
    <3>2. CASE s = r
      BY <1>a, <1>c, <2>2, <2>3, <3>1, <3>2, EntriesDiffer DEF Holds
    <3>3. CASE s # r
      BY <2>2, <2>4, <3>1, <3>3 DEF Holds
    <3> QED BY <3>2, <3>3
  <2>6. \A s \in Requests : Worker(s)' => Worker(s)
    BY <2>3, <2>4 DEF Worker
  <2>7. OneWorker'
    BY <2>2, <2>6 DEF OneWorker, Remembers
  <2> QED BY <1>a, <1>b, <2>2, <2>5, <2>7
<1>3. ASSUME NEW r \in Requests, Record(r) PROVE ClaimInv' /\ OneWorker'
  <2>1. RecordMove(r)
    BY <1>3, RecordMoves
  <2>2. UNCHANGED <<asked, store, leftover, forgot, switch>>
    BY <2>1 DEF RecordMove, setup, incidents, storeVars
  <2>3. /\ pc[r] = "record" /\ pc'[r] = "store"
        /\ \A s \in Requests \ {r} : pc'[s] = pc[s] /\ result'[s] = result[s]
    BY <2>1 DEF RecordMove, Went
  <2>4. ASSUME NEW s \in Requests, Remembers(s)' PROVE Holds(s)'
    BY <1>a, <2>2, <2>3, <2>4 DEF Holds, Remembers, Claimed
  <2>5. OneWorker'
    BY <2>2, <2>3 DEF OneWorker, Worker, Remembers, Claimed
  <2> QED BY <1>a, <1>b, <2>2, <2>4, <2>5
<1>4. ASSUME NEW r \in Requests, Store(r) PROVE ClaimInv' /\ OneWorker'
  <2> DEFINE k == asked[r].key
             b == asked[r].body
  <2>1. StoreMove(r)
    BY <1>4, StoreMoves
  <2>2. UNCHANGED <<asked, result, forgot, switch>>
    BY <2>1 DEF StoreMove, setup, incidents
  <2>3. /\ pc[r] = "store" /\ pc'[r] = "done"
        /\ \A s \in Requests \ {r} : pc'[s] = pc[s]
    BY <2>1 DEF StoreMove, Went
  <2>4. result[r] \in Responses
    BY <2>3, ResponsesAssumption DEF ResponseInv
  <2>5. k \notin forgot => /\ store[k] = EntryFor(b, NoResponse)
                           /\ store'[k] = EntryFor(b, result[r]) /\ leftover'[k] = leftover[k]
    <3>1. k \notin forgot => store[k] = EntryFor(b, NoResponse)
      BY <1>a, <2>3 DEF Holds, Remembers, Claimed
    <3> QED BY <1>a, <2>1, <3>1, EntriesDiffer DEF StoreMove
  <2>6. \A j \in Keys \ forgot' : leftover'[j] = NoResponse
    BY <1>a, <2>1, <2>2, <2>5 DEF StoreMove
  <2>7. ASSUME NEW s \in Requests, Remembers(s)' PROVE Holds(s)'
    <3>1. Remembers(s) /\ Holds(s)
      BY <1>a, <2>2, <2>7 DEF Remembers
    <3>2. CASE s = r
      BY <1>a, <2>2, <2>3, <2>4, <2>5, <3>1, <3>2, EntriesDiffer DEF Holds, Remembers, Claimed
    <3>3. CASE s # r /\ asked[s].key = k
      <4>1. k \notin forgot
        BY <3>1, <3>3 DEF Remembers
      <4>2. ~Worker(s)
        BY <2>3, <3>1, <3>3 DEF OneWorker, Worker, Claimed, Remembers
      <4>3. ~(pc[s] = "done" /\ result[s].status \in Statuses)
        <5>1. SUFFICES ASSUME pc[s] = "done", result[s].status \in Statuses PROVE FALSE
          OBVIOUS
        <5>2. result[s] \in Response
          BY <5>1 DEF ResponseInv
        <5>3. EntryFor(asked[s].body, result[s]) = EntryFor(b, NoResponse)
          BY <2>5, <3>1, <3>3, <4>1, <5>1 DEF Holds
        <5>4. result[s] = NoResponse
          BY <5>3 DEF EntryFor
        <5> QED BY <5>2, <5>4, EntriesDiffer
      <4> QED BY <2>2, <2>3, <3>3, <4>2, <4>3 DEF Holds, Worker
    <3>4. CASE asked[s].key # k
      BY <1>a, <2>1, <2>2, <2>3, <3>1, <3>4 DEF Holds, StoreMove
    <3> QED BY <3>2, <3>3, <3>4
  <2>8. OneWorker'
    <3>1. \A s \in Requests : Worker(s)' => Worker(s)
      BY <2>2, <2>3 DEF Worker, Claimed
    <3> QED BY <2>2, <3>1 DEF OneWorker, Remembers
  <2> QED BY <1>b, <2>6, <2>7, <2>8
<1>5. ASSUME NEW r \in Requests, SwitchStep(r) PROVE ClaimInv' /\ OneWorker'
  <2>1. UNCHANGED <<asked, store, leftover, forgot, pc, result>>
    BY <1>5 DEF SwitchStep, SwitchDecides, SwitchGetsReversal, setup, incidents, storeVars
  <2>2. \A s \in Requests : switch'[s] # "unsent" => switch[s] # "unsent"
    BY <1>5 DEF SwitchStep, SwitchDecides, SwitchGetsReversal, TypeOK
  <2>3. ASSUME NEW s \in Requests, Remembers(s)' PROVE Holds(s)'
    BY <1>a, <2>1, <2>2, <2>3 DEF Holds, Remembers
  <2>4. OneWorker'
    BY <2>1, <2>2 DEF OneWorker, Worker, Remembers
  <2> QED BY <1>a, <1>b, <2>1, <2>3, <2>4
<1>6. CASE WorldStep
  <2>1. WorldMove
    BY <1>6, WorldMoves
  <2>2. UNCHANGED <<asked, result, switch>> /\ forgot \subseteq forgot'
    BY <2>1 DEF WorldMove, setup
  <2>3. \A k \in Keys \ forgot' : store'[k] = store[k] /\ leftover'[k] = leftover[k]
    BY <2>1 DEF WorldMove, Loses
  <2>4. \A s \in Requests : /\ pc'[s] \in Claimed => pc[s] \in Claimed
                            /\ pc'[s] = "done" => pc[s] = "done"
    BY <2>1, <1>c DEF WorldMove
  <2>5. ASSUME NEW s \in Requests, Remembers(s)' PROVE Holds(s)'
    <3>1. Remembers(s) /\ Holds(s) /\ asked[s].key \in Keys \ forgot'
      BY <1>a, <2>2, <2>5 DEF Remembers
    <3> QED BY <2>2, <2>3, <2>4, <3>1 DEF Holds
  <2>6. OneWorker'
    BY <2>2, <2>4 DEF OneWorker, Worker, Remembers
  <2> QED BY <1>a, <1>b, <2>2, <2>3, <2>5, <2>6
<1>7. CASE UNCHANGED vars
  BY <1>7 DEF vars, paymentVars, setup, incidents, storeVars, ClaimInv, OneWorker, Worker, Remembers
<1> QED BY <1>1, <1>2, <1>3, <1>4, <1>5, <1>6, <1>7, StepCases

-----------------------------------------------------------------------------
(* Refusals are about money that stays *)

\* ACE names a fault only where it asked the switch, or could not.
FaultsAreNamed == AceFaults \subseteq {"SWITCH_TIMEOUT", "SWITCH_DOWN"}

\* What RefusalInv says of one request.
RefusalStored(r) == pc[r] = "store" /\ result[r].status \in Refusals => Untouched(r)

RefusalCached(r) ==
    LET entry == store[asked[r].key] IN
    Remembers(r) /\ entry # Unclaimed /\ entry.response # NoResponse
       /\ entry.response.status \in Refusals => Untouched(r)

LEMMA RefusalPreserved ==
    ASSUME FaultsAreNamed, TypeOK, ResponseInv, HandlerInv, ClaimInv, OneWorker, RefusalInv,
           [Next]_vars
    PROVE  RefusalInv'
<1>a. \A s \in Requests : /\ RefusalStored(s) /\ RefusalCached(s)
                          /\ asked[s].key \in Keys /\ asked[s].body \in Hashes
  BY AskedIsTyped DEF RefusalInv, RefusalStored, RefusalCached
<1>b. SUFFICES ASSUME NEW s \in Requests PROVE RefusalStored(s)' /\ RefusalCached(s)'
  BY DEF RefusalInv, RefusalStored, RefusalCached
<1>c. pc[s] \in Claimed /\ Remembers(s) =>
          store[asked[s].key] = EntryFor(asked[s].body, NoResponse)
  BY DEF ClaimInv
<1>1. ASSUME NEW r \in Requests, Arrive(r) PROVE RefusalStored(s)' /\ RefusalCached(s)'
  <2>1. ArriveMove(r)
    BY <1>1, ArriveMoves
  <2>2. UNCHANGED <<asked, switch, forgot>>
    BY <2>1 DEF ArriveMove, setup, incidents
  <2>3. RefusalStored(s)'
    BY <1>a, <2>1, <2>2 DEF ArriveMove, Went, RefusalStored, Untouched
  <2>4. CASE store'[asked[s].key] = store[asked[s].key]
    BY <1>a, <2>2, <2>3, <2>4 DEF RefusalCached, Remembers, Untouched
  <2>5. CASE /\ asked[s].key = asked[r].key
             /\ store'[asked[s].key] = EntryFor(asked[r].body, leftover[asked[s].key])
    <3>1. Remembers(s) => leftover[asked[s].key] = NoResponse
      BY <1>a DEF ClaimInv, Remembers
    <3> QED BY <2>2, <2>3, <2>5, <3>1 DEF RefusalCached, EntryFor, Remembers
  <2> QED BY <1>a, <2>1, <2>4, <2>5 DEF ArriveMove
<1>2. ASSUME NEW r \in Requests, QuietStep(r) PROVE RefusalStored(s)' /\ RefusalCached(s)'
  <2>1. QuietMove(r)
    BY <1>2, QuietStepMoves
  <2>2. UNCHANGED <<asked, store, forgot>>
    BY <2>1 DEF QuietMove, setup, incidents, storeVars
  <2>3. CASE s # r
    BY <1>a, <2>1, <2>2, <2>3 DEF QuietMove, OnlyOf, RefusalStored, RefusalCached, Untouched, Remembers
  <2>4. CASE s = r
    <3>1. RefusalStored(r)'
      BY <2>1 DEF QuietMove, SwitchMove, RefusalStored, Untouched, HandlerInv, FaultsAreNamed
    <3>2. RefusalCached(r)'
      BY <1>a, <1>c, <2>1, <2>2, <2>4, EntriesDiffer DEF QuietMove, SwitchMove, RefusalCached, Remembers
    <3> QED BY <2>4, <3>1, <3>2
  <2> QED BY <2>3, <2>4
<1>3. ASSUME NEW r \in Requests, Record(r) PROVE RefusalStored(s)' /\ RefusalCached(s)'
  <2>1. RecordMove(r)
    BY <1>3, RecordMoves
  <2>2. UNCHANGED <<asked, store, forgot, switch>>
    BY <2>1 DEF RecordMove, setup, incidents, storeVars
  <2>3. result'[r].status = "approved" /\ \A q \in Requests \ {r} : pc'[q] = pc[q] /\ result'[q] = result[q]
    BY <2>1 DEF RecordMove, Went, Reply
  <2> QED BY <1>a, <2>2, <2>3 DEF RefusalStored, RefusalCached, Untouched, Remembers, Refusals
<1>4. ASSUME NEW r \in Requests, Store(r) PROVE RefusalStored(s)' /\ RefusalCached(s)'
  <2>1. StoreMove(r)
    BY <1>4, StoreMoves
  <2>2. /\ UNCHANGED <<asked, result, forgot, switch>>
        /\ pc[r] = "store" /\ pc'[r] = "done" /\ \A q \in Requests \ {r} : pc'[q] = pc[q]
    BY <2>1 DEF StoreMove, Went, setup, incidents
  <2>3. RefusalStored(s)'
    BY <1>a, <2>2 DEF RefusalStored, Untouched
  <2>4. CASE asked[s].key # asked[r].key \/ ~Remembers(s)
    BY <1>a, <2>1, <2>2, <2>3, <2>4 DEF StoreMove, RefusalCached, Untouched, Remembers
  <2>5. CASE asked[s].key = asked[r].key /\ Remembers(s)
    <3>1. s = r \/ switch[s] = "unsent"
      BY <2>2, <2>5 DEF OneWorker, Worker, Claimed, Remembers
    <3>2. store'[asked[s].key] # Unclaimed => store'[asked[s].key].response = result[r]
      BY <2>1, <2>5 DEF StoreMove, EntryFor
    <3>3. result[r].status \in Refusals => Untouched(s)
      BY <1>a, <2>2, <3>1 DEF RefusalStored, Untouched
    <3> QED BY <2>2, <2>3, <3>2, <3>3 DEF RefusalCached, Untouched
  <2> QED BY <2>4, <2>5
<1>5. ASSUME NEW r \in Requests, SwitchStep(r) PROVE RefusalStored(s)' /\ RefusalCached(s)'
  <2>1. UNCHANGED <<asked, store, forgot, pc, result>>
    BY <1>5 DEF SwitchStep, SwitchDecides, SwitchGetsReversal, setup, incidents, storeVars
  <2>2. Untouched(s) => Untouched(s)'
    BY <1>5 DEF SwitchStep, SwitchDecides, SwitchGetsReversal, TypeOK, Untouched
  <2> QED BY <1>a, <2>1, <2>2 DEF RefusalStored, RefusalCached, Remembers
<1>6. CASE WorldStep
  <2>1. WorldMove
    BY <1>6, WorldMoves
  <2>2. UNCHANGED <<asked, result, switch>> /\ forgot \subseteq forgot'
    BY <2>1 DEF WorldMove, setup
  <2>3. /\ pc'[s] = "store" => pc[s] = "store"
        /\ asked[s].key \notin forgot' => store'[asked[s].key] = store[asked[s].key]
    BY <1>a, <2>1 DEF WorldMove, Loses
  <2> QED BY <1>a, <2>2, <2>3 DEF RefusalStored, RefusalCached, Untouched, Remembers
<1>7. CASE UNCHANGED vars
  BY <1>a, <1>7 DEF vars, paymentVars, setup, incidents, storeVars, RefusalStored, RefusalCached,
                    Untouched, Remembers
<1> QED BY <1>1, <1>2, <1>3, <1>4, <1>5, <1>6, <1>7, StepCases

-----------------------------------------------------------------------------
(* Who posted what *)

\* rrns are drawn once; only a step of QuietStep draws one.
LEMMA RrnPreserved ==
    ASSUME ~RrnsCollide, TypeOK, ResponseInv, HandlerInv, RrnInv, [Next]_vars
    PROVE  RrnInv'
<1>1. ASSUME NEW r \in Requests, QuietStep(r) PROVE RrnInv'
  <2>1. \A s \in Requests \ {r} : rrn'[s] = rrn[s]
    BY <1>1, QuietStepMoves DEF QuietMove, OnlyOf
  <2>2. rrn'[r] = rrn[r] \/ \A s \in Requests : rrn[s] # rrn'[r]
    BY <1>1, QuietStepMoves DEF QuietMove, SwitchMove
  <2> QED BY <2>1, <2>2 DEF RrnInv
<1>2. CASE UNCHANGED rrn
  BY <1>2 DEF RrnInv
<1>3. ASSUME NEW r \in Requests, Arrive(r) \/ Record(r) \/ Store(r) \/ SwitchStep(r)
      PROVE  UNCHANGED rrn
  BY <1>3 DEF Arrive, Record, Store, SwitchStep, SwitchDecides, SwitchGetsReversal
<1>4. WorldStep \/ UNCHANGED vars => UNCHANGED rrn
  BY WorldMoves DEF WorldMove, vars, paymentVars
<1> QED BY <1>1, <1>2, <1>3, <1>4, StepCases

LEMMA PosterPreserved ==
    ASSUME TypeOK, ResponseInv, HandlerInv, PosterInv, [Next]_vars
    PROVE  PosterInv'
<1>1. ASSUME NEW r \in Requests, Arrive(r) PROVE PosterInv'
  <2>1. ArriveMove(r)
    BY <1>1, ArriveMoves
  <2>2. UNCHANGED <<transactions, asked, switch, rrn, reversal>>
    BY <2>1 DEF ArriveMove, ledgerVars, setup
  <2>3. \A t \in transactions, p \in Requests : Poster(p, t) => Poster(p, t)'
    BY <2>1, <2>2 DEF ArriveMove, Went, Poster
  <2> QED BY <2>2, <2>3 DEF PosterInv
<1>2. ASSUME NEW r \in Requests, QuietStep(r) PROVE PosterInv'
  <2>1. QuietMove(r)
    BY <1>2, QuietStepMoves
  <2>2. UNCHANGED <<transactions, asked>>
    BY <2>1 DEF QuietMove, ledgerVars, setup
  <2>3. ASSUME NEW t \in transactions, NEW p \in Requests, Poster(p, t) PROVE Poster(p, t)'
    <3>1. p # r
      BY <2>1, <2>3 DEF QuietMove, SwitchMove, Poster, Claimed
    <3> QED BY <2>1, <2>2, <2>3, <3>1 DEF QuietMove, OnlyOf, Poster
  <2> QED BY <2>2, <2>3 DEF PosterInv
<1>3. ASSUME NEW r \in Requests, Record(r) PROVE PosterInv'
  <2>1. RecordMove(r)
    BY <1>3, RecordMoves
  <2>2. UNCHANGED <<asked, switch, rrn, reversal>>
    BY <2>1 DEF RecordMove, setup
  <2>3. \A t \in transactions, p \in Requests : Poster(p, t) => Poster(p, t)'
    BY <2>1, <2>2 DEF RecordMove, Went, Poster
  <2>4. CASE rrn[r] \in RrnsIn(transactions)
    BY <2>1, <2>3, <2>4 DEF RecordMove, ledgerVars, PosterInv
  <2>5. CASE rrn[r] \notin RrnsIn(transactions)
    <3>1. transactions' = transactions \cup {[rrn |-> rrn[r], amount |-> asked[r].body.amount]}
      BY <2>1, <2>5 DEF RecordMove
    <3>2. switch[r] = "approved" /\ r \notin reversal
      BY <2>1 DEF RecordMove, HandlerInv
    <3>3. pc'[r] = "store" /\ result'[r] = Reply("approved", rrn[r], "recorded")
      BY <2>1, <2>5 DEF RecordMove, Went
    <3>4. ASSUME NEW t, t = [rrn |-> rrn[r], amount |-> asked[r].body.amount]
          PROVE  Poster(r, t)'
      BY <2>2, <3>2, <3>3, <3>4 DEF Poster
    <3> QED BY <2>3, <3>1, <3>4 DEF PosterInv
  <2> QED BY <2>4, <2>5
<1>4. ASSUME NEW r \in Requests, Store(r) PROVE PosterInv'
  <2>1. StoreMove(r)
    BY <1>4, StoreMoves
  <2>2. UNCHANGED <<transactions, asked, switch, rrn, reversal, result>>
    BY <2>1 DEF StoreMove, ledgerVars, setup
  <2>3. \A t \in transactions, p \in Requests : Poster(p, t) => Poster(p, t)'
    BY <2>1, <2>2 DEF StoreMove, Went, Poster
  <2> QED BY <2>2, <2>3 DEF PosterInv
<1>5. ASSUME NEW r \in Requests, SwitchStep(r) PROVE PosterInv'
  <2>1. UNCHANGED <<transactions, asked, rrn, result, pc>>
    BY <1>5 DEF SwitchStep, SwitchDecides, SwitchGetsReversal, ledgerVars, setup
  <2>2. \A p \in Requests : switch[p] = "approved" /\ p \notin reversal =>
            switch'[p] = "approved" /\ p \notin reversal'
    BY <1>5 DEF SwitchStep, SwitchDecides, SwitchGetsReversal, TypeOK
  <2>3. \A t \in transactions, p \in Requests : Poster(p, t) => Poster(p, t)'
    BY <2>1, <2>2 DEF Poster
  <2> QED BY <2>1, <2>3 DEF PosterInv
<1>6. CASE WorldStep
  <2>1. WorldMove
    BY <1>6, WorldMoves
  <2>2. UNCHANGED <<asked, switch, rrn, reversal, result>> /\ transactions' \in {transactions, {}}
    BY <2>1 DEF WorldMove, setup
  <2>3. \A t \in transactions, p \in Requests : Poster(p, t) => Poster(p, t)'
    BY <2>1, <2>2 DEF WorldMove, Poster
  <2> QED BY <2>2, <2>3 DEF PosterInv
<1>7. CASE UNCHANGED vars
  BY <1>7 DEF vars, paymentVars, ledgerVars, setup, PosterInv, Poster
<1> QED BY <1>1, <1>2, <1>3, <1>4, <1>5, <1>6, <1>7, StepCases

-----------------------------------------------------------------------------
(* An approval, once posted, stays so *)

\* A posting is never undone but by a reset, which remembers its rrn.
LEMMA StandsKept ==
    ASSUME TypeOK, ResponseInv, HandlerInv, [Next]_vars, NEW s \in Requests, NEW n, Stands(s, n)
    PROVE  Stands(s, n)'
<1> USE DEF Stands, PostedFor
<1>1. ASSUME UNCHANGED asked, transactions \subseteq transactions', entries \subseteq entries',
             wiped \subseteq wiped'
      PROVE  Stands(s, n)'
  BY <1>1
<1>2. ASSUME NEW r \in Requests, Record(r) PROVE Stands(s, n)'
  <2>1. RecordMove(r)
    BY <1>2, RecordMoves
  <2> QED BY <1>1, <2>1 DEF RecordMove, ledgerVars, setup, incidents
<1>3. ASSUME NEW r \in Requests, Arrive(r) \/ QuietStep(r) \/ Store(r) \/ SwitchStep(r)
      PROVE  Stands(s, n)'
  <2>1. UNCHANGED <<asked, transactions, entries, wiped>>
    BY <1>3, QuietStepMoves DEF QuietMove, Arrive, Store, SwitchStep, SwitchDecides,
                                SwitchGetsReversal, ledgerVars, setup, incidents
  <2> QED BY <1>1, <2>1
<1>4. CASE WorldStep
  <2>1. UNCHANGED asked
    BY <1>4, WorldMoves DEF WorldMove, setup
  <2>2. CASE UNCHANGED <<transactions, entries, wiped>>
    BY <1>1, <2>1, <2>2
  <2>3. CASE wiped' = wiped \cup RrnsIn(transactions)
    BY <2>3 DEF RrnsIn
  <2> QED BY <1>4, <2>2, <2>3, WorldMoves DEF WorldMove
<1>5. CASE UNCHANGED vars
  BY <1>1, <1>5 DEF vars, paymentVars, ledgerVars, setup, incidents
<1> QED BY <1>2, <1>3, <1>4, <1>5, StepCases

LEMMA AskedIsKept ==
    ASSUME TypeOK, ResponseInv, [Next]_vars
    PROVE  UNCHANGED asked /\ forgot \subseteq forgot'
<1>1. ASSUME NEW r \in Requests, Arrive(r) \/ QuietStep(r) \/ Record(r) \/ Store(r) \/ SwitchStep(r)
      PROVE  UNCHANGED <<asked, forgot>>
  BY <1>1, QuietStepMoves DEF QuietMove, Arrive, Record, Store, SwitchStep, SwitchDecides,
                              SwitchGetsReversal, setup, incidents
<1>2. WorldStep \/ UNCHANGED vars => UNCHANGED asked /\ forgot \subseteq forgot'
  BY WorldMoves DEF WorldMove, vars, paymentVars, setup, incidents
<1> QED BY <1>1, <1>2, StepCases

\* What AnswerInv says of one key and of one request.
KeyAnswers(k) ==
    /\ Grounded(k, leftover[k])
    /\ store[k] # Unclaimed => Grounded(k, store[k].response)

RequestAnswers(r) ==
    LET entry == store[asked[r].key]  x == entry.response IN
    /\ pc[r] = "store" /\ result[r].status = "approved" => Stands(r, result[r].rrn)
    /\ pc[r] = "done" => Grounded(asked[r].key, result[r])
    /\ Remembers(r) /\ entry # Unclaimed /\ entry.hash = asked[r].body
          /\ x # NoResponse /\ x.status = "approved" => Stands(r, x.rrn)

\* What a step must see to for one key, given that postings stand.
LEMMA KeyStaysAnswered ==
    ASSUME UNCHANGED asked, NEW k \in Keys,
           \A s \in Requests : \A n : Stands(s, n) => Stands(s, n)',
           Grounded(k, leftover'[k]),
           store'[k] # Unclaimed => Grounded(k, store'[k].response)
    PROVE  KeyAnswers(k)'
<1>1. ASSUME NEW x, Grounded(k, x) PROVE \A y : y = x => Grounded(k, y)'
  BY <1>1 DEF Grounded
<1>2. /\ \A y : y = leftover'[k] => Grounded(k, y)'
      /\ \A y : store'[k] # Unclaimed /\ y = store'[k].response => Grounded(k, y)'
  BY <1>1
<1> QED BY <1>2 DEF KeyAnswers, Grounded, Stands, PostedFor

\* The same for one request.
LEMMA RequestStaysAnswered ==
    ASSUME UNCHANGED asked, NEW r \in Requests,
           \A s \in Requests : \A n : Stands(s, n) => Stands(s, n)',
           pc'[r] = "store" /\ result'[r].status = "approved" =>
               \A n : n = result'[r].rrn => Stands(r, n)',
           pc'[r] = "done" => Grounded(asked[r].key, result'[r]),
           LET entry == store'[asked[r].key]  x == entry.response IN
           asked[r].key \notin forgot' /\ entry # Unclaimed /\ entry.hash = asked[r].body
               /\ x # NoResponse /\ x.status = "approved" => Stands(r, x.rrn)
    PROVE  RequestAnswers(r)'
<1> DEFINE k == asked[r].key
<1>1. pc'[r] = "done" => \A x : x = result'[r] => Grounded(k, x)'
  <2>1. ASSUME NEW x, Grounded(k, x) PROVE \A y : y = x => Grounded(asked[r].key, y)'
    BY <2>1 DEF Grounded
  <2> QED BY <2>1
<1> QED BY <1>1 DEF RequestAnswers, Grounded, Stands, PostedFor, Remembers

LEMMA AnswerPreserved ==
    ASSUME ~RrnsCollide, TypeOK, ResponseInv, HandlerInv, ClaimInv, RrnInv, PosterInv, AnswerInv,
           [Next]_vars
    PROVE  AnswerInv'
<1>a. /\ \A k \in Keys : KeyAnswers(k)
      /\ \A s \in Requests : RequestAnswers(s)
      /\ \A s \in Requests : asked[s].key \in Keys /\ asked[s].body \in Hashes
      /\ UNCHANGED asked
  BY AskedIsTyped, AskedIsKept DEF AnswerInv, KeyAnswers, RequestAnswers
<1>b. \A s \in Requests : \A n : Stands(s, n) => Stands(s, n)'
  BY StandsKept
<1>c. ASSUME \A k \in Keys : KeyAnswers(k)', \A s \in Requests : RequestAnswers(s)'
      PROVE  AnswerInv'
  BY <1>c DEF AnswerInv, KeyAnswers, RequestAnswers
<1>d. \A k \in Keys : Grounded(k, NoResponse)
  BY DEF Grounded
<1>e. ASSUME NEW s \in Requests, NEW x, x.status = "approved" => Stands(s, x.rrn)
      PROVE  Grounded(asked[s].key, x)
  BY <1>e DEF Grounded
<1>1. ASSUME NEW r \in Requests, Arrive(r) PROVE AnswerInv'
  <2> DEFINE k == asked[r].key
  <2>1. ArriveMove(r)
    BY <1>1, ArriveMoves
  <2>2. \A j \in Keys : leftover'[j] \in {leftover[j], NoResponse}
    BY <1>a, <2>1 DEF ArriveMove
  <2>3. \A j \in Keys : store'[j] = store[j] \/ store'[j] = EntryFor(asked[r].body, leftover[j])
    BY <1>a, <2>1 DEF ArriveMove
  <2>4. ASSUME NEW j \in Keys PROVE KeyAnswers(j)'
    <3>1. Grounded(j, leftover[j]) /\ (store[j] # Unclaimed => Grounded(j, store[j].response))
      BY <1>a DEF KeyAnswers
    <3>2. Grounded(j, leftover'[j])
      BY <1>d, <2>2, <3>1
    <3>3. CASE store'[j] = store[j]
      BY <1>a, <1>b, <3>1, <3>2, <3>3, KeyStaysAnswered
    <3>4. CASE store'[j] = EntryFor(asked[r].body, leftover[j])
      <4>1. store'[j].response = leftover[j]
        BY <3>4 DEF EntryFor
      <4> QED BY <1>a, <1>b, <3>1, <3>2, <4>1, KeyStaysAnswered
    <3> QED BY <2>3, <3>3, <3>4
  <2>5. ASSUME NEW s \in Requests PROVE RequestAnswers(s)'
    <3>1. pc'[s] # "store" \/ (s # r /\ pc'[s] = pc[s] /\ result'[s] = result[s])
      BY <2>1 DEF ArriveMove, Went
    <3>2. pc'[s] = "store" /\ result'[s].status = "approved" =>
              \A n : n = result'[s].rrn => Stands(s, n)'
      BY <1>a, <1>b, <3>1 DEF RequestAnswers
    <3>3. pc'[s] = "done" => Grounded(asked[s].key, result'[s])
      <4>1. CASE s # r
        BY <1>a, <2>1, <4>1 DEF ArriveMove, Went, RequestAnswers
      <4>2. CASE s = r /\ (result'[r].status # "approved" \/ pc'[r] # "done")
        BY <4>2 DEF Grounded
      <4>3. CASE s = r /\ store[k] # Unclaimed /\ result'[r] = store[k].response
        BY <1>a, <4>3 DEF KeyAnswers
      <4> QED BY <2>1, <4>1, <4>2, <4>3 DEF ArriveMove, Answered, Went
    <3>4. LET entry == store'[asked[s].key]  x == entry.response IN
          asked[s].key \notin forgot' /\ entry # Unclaimed /\ entry.hash = asked[s].body
               /\ x # NoResponse /\ x.status = "approved" => Stands(s, x.rrn)
      <4>1. asked[s].key \notin forgot' => Remembers(s) /\ leftover[asked[s].key] = NoResponse
        BY <1>a, AskedIsKept DEF ClaimInv, Remembers
      <4>2. CASE store'[asked[s].key] = store[asked[s].key]
        BY <1>a, <4>1, <4>2 DEF RequestAnswers
      <4>3. CASE store'[asked[s].key] = EntryFor(asked[r].body, leftover[asked[s].key])
        BY <4>1, <4>3 DEF EntryFor
      <4> QED BY <1>a, <2>3, <4>2, <4>3
    <3> QED BY <1>a, <1>b, <3>2, <3>3, <3>4, RequestStaysAnswered
  <2> QED BY <1>c, <2>4, <2>5
<1>2. ASSUME NEW r \in Requests, QuietStep(r) PROVE AnswerInv'
  <2>1. QuietMove(r)
    BY <1>2, QuietStepMoves
  <2>2. UNCHANGED <<store, leftover, forgot>>
    BY <2>1 DEF QuietMove, storeVars, incidents
  <2>3. ASSUME NEW j \in Keys PROVE KeyAnswers(j)'
    BY <1>a, <1>b, <2>2, KeyStaysAnswered DEF KeyAnswers
  <2>4. ASSUME NEW s \in Requests PROVE RequestAnswers(s)'
    <3>1. CASE s = r
      <4>1. pc'[r] \in {"store", "done"} => result'[r].status # "approved"
        BY <2>1 DEF QuietMove, ReplyMove
      <4>2. pc'[r] = "done" => Grounded(asked[r].key, result'[r])
        BY <4>1 DEF Grounded
      <4> QED BY <1>a, <1>b, <2>2, <3>1, <4>1, <4>2, RequestStaysAnswered DEF RequestAnswers, Remembers
    <3>2. CASE s # r
      <4>1. pc'[s] = pc[s] /\ result'[s] = result[s]
        BY <2>1, <3>2 DEF QuietMove, OnlyOf
      <4> QED BY <1>a, <1>b, <2>2, <4>1, RequestStaysAnswered DEF RequestAnswers, Remembers
    <3> QED BY <3>1, <3>2
  <2> QED BY <1>c, <2>3, <2>4
<1>3. ASSUME NEW r \in Requests, Record(r) PROVE AnswerInv'
  <2>1. RecordMove(r)
    BY <1>3, RecordMoves
  <2>2. UNCHANGED <<store, leftover, forgot>>
    BY <2>1 DEF RecordMove, storeVars, incidents
  <2>3. ASSUME NEW j \in Keys PROVE KeyAnswers(j)'
    BY <1>a, <1>b, <2>2, KeyStaysAnswered DEF KeyAnswers
  <2>4. rrn[r] \in Rrns /\ pc[r] = "record"
    BY <2>1 DEF RecordMove, HandlerInv
  <2>5. rrn[r] \notin RrnsIn(transactions)
    <3>1. SUFFICES ASSUME NEW t \in transactions, t.rrn = rrn[r] PROVE FALSE
      BY DEF RrnsIn
    <3>2. PICK p \in Requests : Poster(p, t)
      BY DEF PosterInv
    <3>3. p = r
      BY <2>4, <3>1, <3>2, PaymentAssumption DEF Poster, RrnInv
    <3> QED BY <2>4, <3>2, <3>3 DEF Poster
  <2>6. /\ result'[r].rrn = rrn[r]
        /\ Stands(r, rrn[r])'
    <3>1. /\ result'[r] = Reply("approved", rrn[r], "recorded")
          /\ [rrn |-> rrn[r], amount |-> asked[r].body.amount] \in transactions'
          /\ EntryRow(lastId + 1, rrn[r], asked[r].body.sender, "debit", asked[r].body.amount)
                \in entries'
          /\ EntryRow(lastId + 2, rrn[r], asked[r].body.receiver, "credit", asked[r].body.amount)
                \in entries'
          /\ rrn' = rrn
      BY <2>1, <2>5 DEF RecordMove
    <3>2. PostedFor(r, rrn[r])'
      BY <1>a, <3>1 DEF PostedFor, EntryRow
    <3> QED BY <3>1, <3>2 DEF Stands, Reply
  <2>7. ASSUME NEW s \in Requests PROVE RequestAnswers(s)'
    <3>1. CASE s = r
      <4>1. pc'[r] = "store"
        BY <2>1 DEF RecordMove, Went
      <4>2. \A n : n = result'[r].rrn => Stands(r, n)'
        BY <2>1, <2>6 DEF RecordMove
      <4> QED BY <1>a, <1>b, <2>2, <3>1, <4>1, <4>2, RequestStaysAnswered DEF RequestAnswers, Remembers
    <3>2. CASE s # r
      <4>1. pc'[s] = pc[s] /\ result'[s] = result[s]
        BY <2>1, <3>2 DEF RecordMove, Went
      <4> QED BY <1>a, <1>b, <2>2, <4>1, RequestStaysAnswered DEF RequestAnswers, Remembers
    <3> QED BY <3>1, <3>2
  <2> QED BY <1>c, <2>3, <2>7
<1>4. ASSUME NEW r \in Requests, Store(r) PROVE AnswerInv'
  <2> DEFINE k == asked[r].key
  <2>1. StoreMove(r)
    BY <1>4, StoreMoves
  <2>2. /\ UNCHANGED <<result, forgot>> /\ pc[r] = "store" /\ pc'[r] = "done"
        /\ \A s \in Requests \ {r} : pc'[s] = pc[s]
    BY <2>1 DEF StoreMove, Went, incidents
  <2>3. result[r].status = "approved" => Stands(r, result[r].rrn)
    BY <1>a, <2>2 DEF RequestAnswers
  <2>4. Grounded(k, result[r])
    BY <1>e, <2>3
  <2>5. ASSUME NEW j \in Keys PROVE KeyAnswers(j)'
    <3>1. CASE j # k
      BY <1>a, <1>b, <2>1, <3>1, KeyStaysAnswered DEF KeyAnswers, StoreMove
    <3>2. CASE j = k /\ store[k] = Unclaimed
      BY <1>a, <1>b, <2>1, <2>4, <3>2, KeyStaysAnswered DEF KeyAnswers, StoreMove
    <3>3. CASE j = k /\ store[k] # Unclaimed
      <4>1. store'[k].response = result[r] /\ leftover'[k] = leftover[k]
        BY <2>1, <3>3 DEF StoreMove, EntryFor
      <4> QED BY <1>a, <1>b, <2>4, <3>3, <4>1, KeyStaysAnswered DEF KeyAnswers
    <3> QED BY <3>1, <3>2, <3>3
  <2>6. ASSUME NEW s \in Requests PROVE RequestAnswers(s)'
    <3>1. pc'[s] # "store" \/ pc'[s] = pc[s]
      BY <2>2
    <3>2. pc'[s] = "store" /\ result'[s].status = "approved" =>
              \A n : n = result'[s].rrn => Stands(s, n)'
      BY <1>a, <1>b, <2>2, <3>1 DEF RequestAnswers
    <3>3. pc'[s] = "done" => Grounded(asked[s].key, result'[s])
      BY <1>a, <2>2, <2>4 DEF RequestAnswers
    <3>4. LET entry == store'[asked[s].key]  x == entry.response IN
          asked[s].key \notin forgot' /\ entry # Unclaimed /\ entry.hash = asked[s].body
               /\ x # NoResponse /\ x.status = "approved" => Stands(s, x.rrn)
      <4>1. CASE asked[s].key # k \/ asked[s].key \in forgot
        BY <1>a, <2>1, <2>2, <4>1 DEF StoreMove, RequestAnswers, Remembers
      <4>2. CASE asked[s].key = k /\ k \notin forgot
        <5>1. store[k] = EntryFor(asked[r].body, NoResponse) /\ store[k] # Unclaimed
          BY <1>a, <2>2, <4>2, EntriesDiffer DEF ClaimInv, Remembers, Claimed
        <5>2. store'[k].hash = asked[r].body /\ store'[k].response = result[r]
          BY <2>1, <5>1 DEF StoreMove, EntryFor
        <5>3. asked[s].body = asked[r].body /\ result[r].status = "approved" =>
                  Stands(s, result[r].rrn)
          BY <2>3 DEF Stands, PostedFor
        <5> QED BY <4>2, <5>2, <5>3
      <4> QED BY <4>1, <4>2
    <3> QED BY <1>a, <1>b, <3>2, <3>3, <3>4, RequestStaysAnswered
  <2> QED BY <1>c, <2>5, <2>6
<1>5. ASSUME UNCHANGED <<store, leftover, forgot, pc, result>> PROVE AnswerInv'
  <2>1. ASSUME NEW j \in Keys PROVE KeyAnswers(j)'
    BY <1>a, <1>b, <1>5, KeyStaysAnswered DEF KeyAnswers
  <2>2. ASSUME NEW s \in Requests PROVE RequestAnswers(s)'
    BY <1>a, <1>b, <1>5, RequestStaysAnswered DEF RequestAnswers, Remembers
  <2> QED BY <1>c, <2>1, <2>2
<1>6. ASSUME NEW r \in Requests, SwitchStep(r) PROVE AnswerInv'
  BY <1>5, <1>6 DEF SwitchStep, SwitchDecides, SwitchGetsReversal, incidents, storeVars
<1>7. CASE WorldStep
  <2>1. WorldMove
    BY <1>7, WorldMoves
  <2>2. UNCHANGED result /\ forgot \subseteq forgot'
    BY <2>1 DEF WorldMove
  <2>3. ASSUME NEW j \in Keys PROVE KeyAnswers(j)'
    <3>1. KeyAnswers(j) /\ Grounded(j, NoResponse)
      BY <1>a, <1>d
    <3>2. CASE store'[j] = store[j] /\ leftover'[j] \in {leftover[j], NoResponse}
      BY <1>a, <1>b, <3>1, <3>2, KeyStaysAnswered DEF KeyAnswers
    <3>3. CASE store'[j] = Unclaimed /\ leftover'[j] = NoResponse
      BY <1>a, <1>b, <3>1, <3>3, KeyStaysAnswered
    <3>4. CASE HasClaim(j) /\ store'[j] = Unclaimed /\ leftover'[j] = store[j].response
      BY <1>a, <1>b, <3>1, <3>4, KeyStaysAnswered DEF KeyAnswers, HasClaim
    <3>5. CASE HasClaim(j) /\ store'[j] = EntryFor(store[j].hash, NoResponse)
                           /\ leftover'[j] = leftover[j]
      <4>1. store'[j].response = NoResponse
        BY <3>5 DEF EntryFor
      <4> QED BY <1>a, <1>b, <3>1, <3>5, <4>1, KeyStaysAnswered DEF KeyAnswers
    <3> QED BY <2>1, <3>2, <3>3, <3>4, <3>5 DEF WorldMove, Loses
  <2>4. ASSUME NEW s \in Requests PROVE RequestAnswers(s)'
    <3>1. pc'[s] \in {"store", "done"} => pc'[s] = pc[s]
      BY <2>1 DEF WorldMove
    <3>2. asked[s].key \notin forgot' => Remembers(s) /\ store'[asked[s].key] = store[asked[s].key]
      BY <1>a, <2>1, <2>2 DEF WorldMove, Loses, Remembers
    <3> QED BY <1>a, <1>b, <2>2, <3>1, <3>2, RequestStaysAnswered DEF RequestAnswers
  <2> QED BY <1>c, <2>3, <2>4
<1>8. CASE UNCHANGED vars
  BY <1>5, <1>8 DEF vars, paymentVars, incidents, storeVars
<1> QED BY <1>1, <1>2, <1>3, <1>4, <1>6, <1>7, <1>8, StepCases

-----------------------------------------------------------------------------
(* The theorems *)

\* The part of the inductive invariant that needs no premise.
IInv ==
    /\ TypeOK /\ ResponseInv /\ HandlerInv
    /\ ClaimInv /\ OneWorker
    /\ PosterInv

LEMMA InitIInv == Init => IInv /\ RefusalInv /\ RrnInv /\ AnswerInv
<1> SUFFICES ASSUME Init PROVE IInv /\ RefusalInv /\ RrnInv /\ AnswerInv
  OBVIOUS
<1>1. TypeOK
  BY InitIsTyped
<1>2. /\ store = [k \in Keys |-> Unclaimed] /\ leftover = [k \in Keys |-> NoResponse]
      /\ pc = [r \in Requests |-> "new"] /\ switch = [r \in Requests |-> "unsent"]
      /\ rrn = [r \in Requests |-> NoRrn] /\ result = [r \in Requests |-> NoResponse]
      /\ transactions = {} /\ reversal = {}
  BY DEF Init, StoreInit
<1>3. \A r \in Requests : asked[r].key \in Keys
  BY <1>1, AskedIsTyped
<1>4. ResponseInv
  BY <1>2 DEF ResponseInv, HasClaim
<1>5. HandlerInv
  BY <1>2 DEF HandlerInv, BeforeSwitch
<1>6. ClaimInv /\ OneWorker
  BY <1>2 DEF ClaimInv, OneWorker, Worker, Claimed
<1>7. PosterInv /\ RrnInv
  BY <1>2 DEF PosterInv, RrnInv
<1>8. RefusalInv /\ AnswerInv
  BY <1>2, <1>3 DEF RefusalInv, AnswerInv, Grounded
<1> QED BY <1>1, <1>4, <1>5, <1>6, <1>7, <1>8 DEF IInv

LEMMA IInvPreserved == IInv /\ [Next]_vars => IInv'
BY TypePreserved, ResponsePreserved, HandlerPreserved, ClaimPreserved, PosterPreserved DEF IInv

LEMMA Invariance == Spec => []IInv
BY InitIInv, IInvPreserved, PTL DEF Spec

\* Whatever requests arrive, in whatever order their steps interleave and
\* whatever fails in between, every variable stays within its type.
THEOREM TypeCorrect == Spec => []TypeOK
<1>1. IInv => TypeOK
  BY DEF IInv
<1> QED BY <1>1, Invariance, PTL

\* README.md, "a repeated idempotency key never reaches the switch a second
\* time": of all the requests that ever carry one key, at most one gets past
\* claim() and to authorize(), as long as the store does not lose the claim.
THEOREM OneAuthorisationHolds == Spec => []OneAuthorisation
<1>1. IInv => OneAuthorisation
  BY DEF IInv, OneWorker, Worker, OneAuthorisation
<1> QED BY <1>1, Invariance, PTL

\* claim() returns the response the first request stored: all requests with
\* one key and one body that are told an outcome are told the same one.
THEOREM SameAnswerHolds == Spec => []SameAnswer
<1>1. IInv => SameAnswer
  <2> SUFFICES ASSUME IInv, NEW r \in Requests, NEW s \in Requests,
                      Remembers(r), Same(r, s), pc[r] = "done", pc[s] = "done",
                      result[r].status \in Statuses, result[s].status \in Statuses
               PROVE  result[r] = result[s]
    BY DEF SameAnswer
  <2>1. EntryFor(asked[r].body, result[r]) = EntryFor(asked[s].body, result[s])
    BY DEF IInv, ClaimInv, Same, Remembers
  <2> QED BY <2>1 DEF EntryFor
<1> QED BY <1>1, Invariance, PTL

\* record_purchase() is reached only through a 0210 that approves: each row of
\* the ledger is backed by an approval of its amount that is not and will not
\* be reversed, also when rrns collide and when claims are lost.
THEOREM LedgerIsBacked == Spec => []LedgerMatchesSwitch
<1>1. IInv => LedgerMatchesSwitch
  BY DEF IInv, PosterInv, Poster, LedgerMatchesSwitch
<1> QED BY <1>1, Invariance, PTL

\* Where ACE names the faults it returns after it asked the switch, no client
\* is told declined, decline or review of money the switch has moved or will.
THEOREM RefusalIsFinal == FaultsAreNamed => (Spec => []RefusedMeansUntouched)
<1> SUFFICES ASSUME FaultsAreNamed PROVE Spec => []RefusedMeansUntouched
  OBVIOUS
<1>1. ASSUME IInv, RefusalInv, [Next]_vars PROVE RefusalInv'
  BY <1>1, RefusalPreserved DEF IInv
<1>2. IInv /\ RefusalInv => RefusedMeansUntouched
  <2> SUFFICES ASSUME IInv, RefusalInv, NEW r \in Requests, NEW s \in Requests,
                      Remembers(r), Same(r, s), pc[r] = "done", result[r].status \in Refusals
               PROVE  Untouched(s)
    BY DEF RefusedMeansUntouched, Refusals, Untouched
  <2>1. result[r] \in Responses /\ asked[r].body \in Hashes
    BY AskedIsTyped, ResponsesAssumption DEF IInv, ResponseInv
  <2>2. store[asked[s].key] = EntryFor(asked[r].body, result[r])
    BY DEF IInv, ClaimInv, Same, Statuses, Refusals
  <2>3. Remembers(s)
    BY DEF Same, Remembers
  <2> QED BY <2>1, <2>2, <2>3, EntriesDiffer, NoResponseAssumption DEF RefusalInv
<1> QED BY <1>1, <1>2, InitIInv, Invariance, PTL DEF Spec

\* Where no two requests draw one rrn, "approved" means recorded: the rrn a
\* client is told is posted from its sender to its receiver with its amount,
\* unless a reset deleted it; with a lost claim, under the same key at least.
THEOREM ApprovalIsRecorded == ~RrnsCollide => (Spec => []ApprovedIsRecorded)
<1> SUFFICES ASSUME ~RrnsCollide PROVE Spec => []ApprovedIsRecorded
  OBVIOUS
<1>1. ASSUME IInv, RrnInv, AnswerInv, [Next]_vars PROVE RrnInv' /\ AnswerInv'
  BY <1>1, RrnPreserved, AnswerPreserved DEF IInv
<1>2. IInv /\ AnswerInv => ApprovedIsRecorded
  <2> SUFFICES ASSUME IInv, AnswerInv, NEW r \in Requests, pc[r] = "done",
                      result[r].status = "approved", result[r].rrn \notin wiped
               PROVE  \/ PostedFor(r, result[r].rrn)
                      \/ /\ ~Remembers(r)
                         /\ \E s \in Requests : /\ asked[s].key = asked[r].key
                                                /\ PostedFor(s, result[r].rrn)
    BY DEF ApprovedIsRecorded
  <2>1. result[r] \in Responses /\ result[r] # NoResponse /\ asked[r].body \in Hashes
    BY AskedIsTyped, ResponsesAssumption, NoResponseAssumption DEF IInv, ResponseInv
  <2>2. CASE Remembers(r)
    <3>1. store[asked[r].key] = EntryFor(asked[r].body, result[r])
      BY <2>2 DEF IInv, ClaimInv, Statuses
    <3>2. Stands(r, result[r].rrn)
      BY <2>1, <2>2, <3>1, EntriesDiffer DEF AnswerInv
    <3> QED BY <3>2 DEF Stands
  <2>3. CASE ~Remembers(r)
    BY <2>1, <2>3 DEF AnswerInv, Grounded, Stands
  <2> QED BY <2>2, <2>3
<1> QED BY <1>1, <1>2, InitIInv, Invariance, PTL DEF Spec

\* Where no two requests draw one rrn, daily reconciliation is the backstop it
\* is said to be: whatever the switch approved and did not reverse for a
\* request that is over without having recorded it, is reported.
THEOREM BackstopHolds == ~RrnsCollide => (Spec => []BackstopCatches)
<1> SUFFICES ASSUME ~RrnsCollide PROVE Spec => []BackstopCatches
  OBVIOUS
<1>1. ASSUME IInv, RrnInv, [Next]_vars PROVE RrnInv'
  BY <1>1, RrnPreserved DEF IInv
<1>2. IInv /\ RrnInv => BackstopCatches
  <2> SUFFICES ASSUME IInv, RrnInv, NEW r \in Requests, switch[r] = "approved",
                      result[r] = NoResponse \/ result[r].ledger # "recorded"
               PROVE  Reported(rrn[r])
    BY DEF BackstopCatches, InSettlement
  <2>1. rrn[r] \in Rrns
    BY DEF IInv, HandlerInv
  <2>2. rrn[r] \notin RrnsIn(transactions)
    <3>1. SUFFICES ASSUME NEW t \in transactions, t.rrn = rrn[r] PROVE FALSE
      BY DEF RrnsIn
    <3>2. PICK p \in Requests : Poster(p, t)
      BY DEF IInv, PosterInv
    <3>3. p = r
      BY <2>1, <3>1, <3>2, PaymentAssumption DEF RrnInv, Poster
    <3>4. result[r] = Reply("approved", rrn[r], "recorded")
      BY <3>2, <3>3 DEF Poster
    <3>5. result[r] # NoResponse
      BY <2>1, <3>4, RepliesAreResponses, EntriesDiffer DEF Statuses
    <3> QED BY <3>4, <3>5 DEF Reply
  <2> QED BY <2>2 DEF Reported, InSettlement
<1> QED BY <1>1, <1>2, InitIInv, Invariance, PTL DEF Spec
=============================================================================
