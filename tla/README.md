# Specifications of the microfinance stack

TLA+ models of this repository's payment path: what happens to a payment from
the HTTP request through identity, idempotency store, risk engine, HSM keys,
switch connection and ledger to the analytics warehouse, and the bytes on the
switch connection. TLC checks them on small instances. Their safety properties
TLAPS proves for every value of the constants (section 4).

Source paths below are relative to the repository root.

## 1. The system

A FastAPI service takes card purchases and transfers. For each request a
handler thread claims an idempotency key, looks up both parties, asks the risk
engine, encrypts the PIN, sends an ISO 8583 `0200` to an external switch over
one shared TCP connection, waits for the `0210`, posts the approved payment to
a double-entry ledger in SQLite and caches its response. A cron job copies the
ledger into ClickHouse, a reconciliation script compares it with the switch's
settlement file.

| Component | State it keeps | Operations | Talks to |
|---|---|---|---|
| Ledger (`ledger/`) | SQLite tables `accounts`, `transactions`, `ledger_entries`, the AUTOINCREMENT counter | `record_purchase`, reset, registration; balance queries | called by handlers; read by warehouse sync and reconciliation |
| Idempotency store (`cache/idempotency_store.py`) | key -> body hash and cached response, in a dict under a lock or in two Redis keys with TTLs | `claim`, `store_response`, `clear_all` | called by handlers of all replicas |
| Payment handlers (`api/routes/transactions.py`) | local variables of one request | `purchase`, `transfer`, `reset_ledger` | all of the above and below |
| Switch connection (`switch/client.py`, `framing.py`) | socket, `_connected` event, STAN counter, heartbeat threads | connect loop, `next_stan`, `send_message`, heartbeat | callers, switch |
| Correlation (`correlation/`) | `_pending`: STAN -> waiting request | `send_and_wait`, reversal, `_handle_incoming` | connection thread calls back into it |
| Transports (`switch/transport.py`, `soap_client.py`) | none | `authorize` -> approved, declined or unknown | correlation, or ACE over SOAP |
| Risk and velocity (`risk/`, `cache/velocity_tracker.py`) | per-card window of attempts, in memory or Redis | `evaluate`, `record_and_count` | called by handlers |
| HSM, KMS, PIN block (`security/`) | base key (persisted), KSN counter | `encrypt_pin_block`, MAC, `_load_or_create_persistent_key` | called by handlers |
| Authentication, users (`auth/`, `api/routes/auth.py`, `users.py`) | `users`, `cards`, signed tokens | register, login, set password, `get_current_user` | SQLite |
| Warehouse sync (`analytics/`) | watermark, fact table, aggregating view in ClickHouse | `sync` page loop | ledger, ClickHouse; started by the CronJob |
| Reconciliation (`ops/`) | none; audit log file | `reconcile` | ledger, settlement file |
| ISO 8583 codec (`iso8583/`) | none | build, parse | connection, correlation |
| Host simulator (`switch/host_simulator.py`) | sockets | answers `0200`, `0400`, `0800` | stands for the switch |

What is hard here, and where the models look:

- three INSERTs that must be one posting, beside other sessions, foreign-key
  errors, lock timeouts and process deaths (`ledger/service.py:43-65`);
- retries of one payment that arrive while, after or instead of the first
  (`api/routes/transactions.py:70-81`), and a store whose claim is atomic in
  memory but three commands in Redis (`cache/idempotency_store.py:113-140`);
- an approval that comes after the caller gave up, a reversal that may be
  lost, and a crash, a Redis that forgets or a ledger reset between approval,
  posting and cached response (`api/routes/transactions.py:356-374`);
- one socket written and read by many threads, with reconnection, heartbeats
  that outlive their connection, and a STAN counter without a lock
  (`switch/client.py:93-95`);
- messages of fields without separators on a stream without boundaries: one
  wrong count, in a field or in `recv()`, and every later byte is misread
  (`iso8583/parser.py:322-376`, `switch/framing.py:14-39`);
- keys that outlive processes while their counter does not, and a key file that
  a process may leave half created (`security/mock_hsm.py:57-73`);
- attempts that take their time on one clock and are counted later, in another
  order, in a window that expires (`cache/velocity_tracker.py:35-70`);
- a one-time password that is checked and set in two steps, and tokens that
  outlive the database of the replica they are shown to (`api/routes/auth.py:54`);
- a watermark moved over pages of a table that is being appended to, by runs
  that may die at any step (`analytics/sync_to_warehouse.py:117-138`).

## 2. The modules

```
Ledger ------------- LedgerDb -------- LedgerDbProofs
   \                    refines Ledger
    Payment -------- PaymentProofs
   /
IdempotencyStore --- ClaimProtocol <-- RedisStore --- SharedStoreProofs
                                        refines ClaimProtocol   /
                                       Velocity ---------------
SwitchClient ------- Correlation ----- CorrelationProofs
HsmKeys ------------ HsmKeysProofs
PinBlock
Identity ----------- IdentityProofs
Codec -------------- Wire ------------ WireProofs
WarehouseSync ------ WarehouseSyncProofs
```

Each `MC*` module gives one of these a small instance; the `.cfg` files choose
among its definitions.

**Ledger** is the promise of `ledger/service.py` and the abstract specification
of this family: a purchase, a reset, a registration is one change of the
committed tables. `RecordResult` is what `record_purchase` answers
(`recorded`, `already_recorded`, or the foreign-key error it re-raises).

**LedgerDb** opens the promise up. Each `Session` is a handler's connection; one
action is one SQL statement (`InsertTransaction`, `InsertDebit`,
`InsertCredit`, `Commit`; `DeleteEntries`, `DeleteTransactions`,
`DeleteSequence`, `CommitReset`). `draft` is the writer's uncommitted image,
`writer` SQLite's single write lock. `DuplicateRrn` and `ForeignKeyError` are
the two `IntegrityError`s the `except` clause tells apart, `Locked` the busy
timeout that escapes it, `CommitFails` a COMMIT that raises (a full disk, a
lock that a reader holds), upon which `with conn` rolls back, `Crash` the death
of the process, after which the journal drops the draft. SQLite itself is external: modelled from how the
code uses it.

**IdempotencyStore** holds the table behind the store with each call atomic:
`Claim`, `StoreResponse`, `Expire`, `ClearAll`. **ClaimProtocol** puts callers
around it, ask, win or lose, work, finish or fail: it is the contract, and the
in-memory store satisfies it as it stands. `TtlExpires` removes a claim only
when nobody works on it, because the TTL is a day and the longest wait of a
handler is seconds.

**RedisStore** is `RedisIdempotencyStore`, one command per action: `SET NX`,
`GET` hash, `GET` response with other callers in between, the recursive call
when the hash is gone (`HashIsGone`), two keys that expire at different times,
and a `SCAN` that deletes key by key. `Contract` is an INSTANCE of
ClaimProtocol in which a caller between commands is still `asking`. `outlived`
are the keys whose response stayed when their claim expired. A full Redis that
evicts a key does at any time what the `SCAN` does once a clear has begun.

**Payment** is `purchase()` and `transfer()`, which differ in data only, from
the claim to the cached response. `pc[r]` is the place of request `r` in its
handler:
`new -> precheck -> risk -> encrypt -> send -> wait -> record -> store -> done`,
with the early returns of the code (400, 409, cached response, 404, 403, 500)
and `lost` for a handler whose process died. `asked` fixes key, body and caller
of each request at the start, so TLC tries every combination; two requests with
one key and one body are a payment and its retry, one key and two bodies a
misused key. `switch[r]` is what became of the `0200`, decided by the environment at any time, also
after the handler stopped waiting. `TimesOut` covers a timeout, with or without
a reversal on its way, and a connection that broke after the write.
`transport` is `ISO8583_TRANSPORT`: over the own socket these are the ways a
call can end; over SOAP ACE may also refuse the request (`SoapRejects`), answer
with a fault (`SoapFault`) or with something unreadable (`SoapGarbled`, an
exception no handler catches).
`backend` is the store the process was started with. The in-memory one loses
its entries with the process (`Crash`); with Redis several processes may share
the ledger, of which one dies, and Redis itself may come back empty
(`RedisRestarts`) or drop one of its keys when it is full (`RedisEvicts`).
`reset_ledger()` is two steps beside all handlers: `Reset` commits the DELETEs,
`ClearClaims` is the `clear_all()` after it, and a process may die between the
two. `forgot` and `wiped` record what was lost that way, so that the properties
can say what holds for the rest. `Reported` is `reconcile()`. The response key
of Redis may stand without its claim: Redis evicted the claim alone
(`RedisEvicts`), or the handler stored its response after the claim was evicted,
cleared or lost (`PutResponse`). `leftover` holds such a response, and the next
claim of the key finds it there (`TakeClaim`).

**HsmKeys** is `MockHSM`: `Start`, `LookForKey`, `OpenKeyFile`, `WriteKey` and
`ReadKey` are the steps of a start with `HSM_KEY_PERSISTENCE_PATH`,
`StartEphemeral` one without, `Die` may come at any of them. `LoadCounter`,
`StoreCounter` and `FormatKsn` are what `_next_ksn()` is to other threads, and
`Encrypt` or `PinRefused` the end of `encrypt_pin_block()`; `overlapped` is
history, the requests whose draw another one overlapped. A base key is named
after the process that generated it, a block is the pair of base key and KSN it
is encrypted under. `OneAtATime` is `replicas: 1` with `strategy: Recreate`.
**PinBlock** is `security/pin_block.py` on hexadecimal digits.

**Velocity** is `RiskEngine.evaluate()` for one card with either tracker:
`TakeTime` is the clock read before the lock or before the `MULTI` (`ahead` says
how far a replica's clock is ahead), `RecordInMemory` and `RecordInRedis`
record, prune and count in one step. `Inside` keeps the difference between the
two: the list keeps an attempt exactly at the cutoff, `ZREMRANGEBYSCORE` drops
it. `Evaluate` is the escalation by the rules with their thresholds.

**Identity** is the way to a debit: `Register`, the two steps of `set_password()`
(`ReadHash`, `WriteHash`), `Login`, `get_current_user()` and the pre-check of a
payment (`Authorise`), on replicas that each have a database of their own and
may lose it (`LoseDb`). A user, an account and a card are one row, because one
transaction makes them and nothing changes them but the password. Card numbers
and account ids are taken to be different strings.

**SwitchClient** is the connection thread (`Dial`, `Announce`, `SignOn`,
`StartHeart`, `ReceiveFails`, `Cleanup`), the heartbeat threads and
`next_stan`, and the external network and switch. `next_stan` is three steps
(load, store, load again for the return value) for the threads of
`Interruptible` and one step for the others. A connection that breaks (`Drop`)
keeps what had arrived by then: the thread may read it before `ReceiveFails`, and
`Cleanup` throws the rest away. `overlapped` and `clean` are history: which draws
another draw has overlapped, and the STANs of the others. **Correlation** adds the callers:
`Register`, `Send`, `Answered` or `TimesOut`, `SendReversal`, `Pop`, and the
connection thread's `Receive` (lookup under the lock) and `Deliver` (outside
it). The field `of` of a message is not on the wire: it says whose payment a
message is about, so that properties can tell a right answer from a wrong one.
`repeated` is history: the STANs that were drawn while something in `InUse` (a
message on its way, an entry of `_pending`, a payment that may be undone) bore them.

**Codec** is `iso8583/parser.py` as operators on sequences of digits and bytes:
`BcdEncode` and `BcdDecode`, the bitmap, the whole catalogue of data elements
(`FieldSpecs`), `BuildMessage` and `ParseMessage`. A character is its latin-1
code, so that values that are not text (PIN blocks, MACs) are what they are in
the code. `Normal` says what a receiver should read, given what padding and
trimming do to each coding. Values must fit their field (`Fits`): `rjust` does
not cut a value that is too long, and then everything after it moves.

**Wire** puts framing under `send_message()`: threads take the send lock and the
socket of the moment (`Begin`), write their frame in pieces (`Write`) or find
the connection broken (`WriteFails`); the reader asks `recv()` for the bytes
still missing (`Receive`) and goes from header to body to header; `Drop` and
`Reconnect` replace the connection, with whatever was half written or half
read. The messages are those the program builds (`Authorization`,
`NetworkMessage`, `Reversal`) and the simulator's `Answer`. Correlation treats a
message as one value that arrives whole; Wire is the reason it may.

**WarehouseSync** has the ledger's side (`Stamp` takes the timestamp before the
transaction, `Commit` makes the row visible, so that rows appear in any order
and several may have one timestamp) and the job: `Start` under
`concurrencyPolicy: Forbid`, `Extract` a page, `Insert` it, `Mark` the
watermark, `Fail` between two steps. `fact` is the deduplicating table, `counted`
how often the aggregate counted each payment. `InsertBreaks` is a run that ends
inside `load_transactions()`: chunks of `batch_size`, the blocks of one insert,
and the fact table and its materialized view are no transaction, so any part of
the page may be in either. `overtaken` is history: the rows that a page passed
before they could be read (`Passed`, `CutOff`).

Definitions named `Mut...` are deliberate bugs, each written beside the
definition it could replace. They are used by no specification; they document
which mistake each property catches, and substituting one for its original
makes TLC find the violation.

## 3. The runs

Runs that pass:

| Run | Instance | Shows |
|---|---|---|
| `MCLedgerDb.cfg` | 2 sessions, 2 accounts, 2 rrns, 3 calls, 1 reset, failing COMMITs, any number of crashes; 629 939 states | `DoubleEntry` for the committed tables, from which `is_balanced()` follows; what a caller was told stays true until a reset (`ToldIsTrue`, `OneRecorder`); `LedgerPromise`: LedgerDb implements Ledger; `EveryCallReturns`: no path keeps the write lock |
| `MCRedisStore.cfg` | 2 callers that ask repeatedly, 1 key, 2 bodies, 2 expiries, 1 clear between any commands; 64 650 states | the commands keep the atomic contract until something expires or is cleared (`KeepsContract`); one worker until the first clear; the response behind a claim belongs to its body unless it outlived an older claim (`ResponseFitsClaim`); `claim()` always answers |
| `MCPayment.cfg` | 2 requests, 2 keys, 2 bodies, owner or stranger, both stores, ACE, a party registered late, exceptions, 1 incident (a death, a Redis that restarts or evicts, a reset); 884 388 states | a key goes to the switch once (`OneAuthorisation`); approved means recorded; refused means no money moved; retries get one answer (`SameAnswer`); the ledger holds nothing the switch has not approved (`LedgerMatchesSwitch`); what is approved and not posted is reported (`BackstopCatches`); `ClaimsAreAnswered` |
| `MCCorrelation.cfg` | 2 callers that interrupt each other inside `next_stan()`, answers in any order, STANs that come round at 4, onto some in use; 6 183 584 states | each caller gets the answer to its own `0200`, and only payments whose caller timed out are reversed, but for those that bear a STAN drawn twice; a STAN that was drawn undisturbed is not drawn again before the counter comes round (`UndisturbedIsUnique`); the pending map holds waiting callers only |
| `MCCorrelationReconnect.cfg` | 1 caller, 2 connections, 1 echo with an interruptible `next_stan`; 668 914 states | the client never believes a connection nobody reads; every call returns; the thread listens again; on a connection that held, an approval is answered or reversed |
| `MCWire.cfg` | 2 threads, a transfer with every field the program sends, an echo, a reversal, a `0210`, in pieces, 1 broken connection; 222 360 states | what is parsed is what was sent, whole and in order, on each connection by itself; STANs survive both trips and DE 90; every `send_message()` returns; what was written is read. Its assumptions evaluate the codec on every data element, empty, short and full |
| `MCWarehouseSync.cfg` | 3 payments with any timestamps that commit in any order, pages of 2, 2 pods, 2 failed runs, also in the middle of an insert; 847 485 states | the only rows skipped are those a page overtook (`NothingSkipped`), and every other payment is loaded in the end; the watermark never goes back; the aggregate counts a payment again only after a failed run |
| `MCHsmKeys.cfg` | 3 starts one after another, 3 payments, 2 master keys or none, threads that interrupt each other, deaths at every step; 414 614 states | what was encrypted under the persisted key opens after any number of deaths and restarts (`BlocksSurvive`); two blocks share a key only across a restart, or if the draw of one was overlapped (`OwnKey`); a start fails only for a torn file or another master key. Its assumptions evaluate the PIN block |
| `MCVelocity.cfg` | 4 attempts, limits 1 and 2, a window of 4, both trackers, clocks 1 apart, recordings delayed by 1, 1 restart; 1 023 513 states | the count has what is in the window of the latest attempt and nothing outside the caller's own (`CountIsTrue`); no burst passes the limits (`LimitHolds`). Its assumption: more attempts or more money never make the verdict milder |
| `MCIdentity.cfg` | 2 replicas, 2 persons, 2 callers, 3 ids, a row from before passwords, tokens that expire, a lost database; 1 746 741 states | a password that was confirmed stays the password (`PasswordIsKept`); who is let through debits the account of who logged in, and a 401 has one of three reasons (`TokenIsItsUser`) |

Runs in which the code breaks what the repository says of it (each stops at a
counterexample of a few steps):

| Run | Property | What happens |
|---|---|---|
| `MCPaymentCollision.cfg` | `ApprovedIsRecorded` | An rrn is the second plus one of 100 numbers (`api/routes/transactions.py:61-62`). Two payments may draw the same: the ledger answers `already_recorded` for the second, its client is told approved, and nothing was posted for it. |
| `MCCorrelationUnreachable.cfg` | `UnreachableMeansUnsent` | The connection is down when a wait times out. Sending the reversal raises `ConnectionError`, which `authorize()` takes for "Never reached the switch": an approved payment is reported with the reason of one that never left. |

Further disagreements met while modelling. Most are a passing run with one
premise dropped, which the text names:

- `OneAuthorisation`, `RefusedMeansUntouched` and `SameAnswer` are stated for keys the store
  remembers (`Remembers`). After a restart with the in-memory store, a restart
  or an eviction of Redis, or a reset, a retry goes to the switch again
  (`README.md:97` says a repeated key never does). The comment at
  `openshift/microfinance-stack.yaml:225-229` calls the ledger's primary key the
  backstop for that; but a retry draws a new rrn, which the key does not refuse:
  it is posted twice.
- A response stored after its claim was evicted stays in Redis, and answers the
  next request that claims the key, which may carry another body
  (`cache/idempotency_store.py:113-140`): "approved" then names a posting of
  another payment. `ApprovedIsRecorded` promises, for keys the store did not
  remember, a posting under the same key only. It takes three requests to see
  this: without that disjunct, an instance with three requests and one key fails.
- The 404 and 403 exits come after the claim and never store a response, so the
  key answers 409 "already being processed" until its TTL ends though nobody
  is processing it: `InProgressIsTrue` as an invariant of `MCPayment.cfg` fails
  (`cache/idempotency_store.py:18` defines in_progress as "another caller claimed
  it and hasn't finished yet").
- A run of the warehouse job that dies between its insert and its watermark
  loads the page again, and the materialized view, which counts inserts, counts
  it twice: `HonestAggregates` as an invariant of `MCWarehouseSync.cfg` fails
  (`analytics/sync_to_warehouse.py:146`).
- `BackstopCatches` with `RrnsCollide = TRUE` fails: `reconcile()` collects rows
  in dicts by rrn, so two settlement entries of one rrn and one amount are one
  and the payment that was not posted is not reported (`ops/reconciliation.py:45`).
- `ResponseFitsClaim` of RedisStore fails without either of its premises. The
  response key gets its full TTL when it is written, later than its claim,
  outlives it, and then answers the retry of the next claim, which may be for
  another body (`cache/idempotency_store.py:140`); and after a `clear_all()` the
  late `store_response()` of a handler that was cleared away does the same.
- `next_stan()` is not atomic (`switch/client.py:93-95`), and the counter may come
  round on a STAN in use: two threads draw one STAN, one registers over the other
  and gets the other's `0210` (`docs/architecture.html:707` calls DE 11 "Unique per
  connection"). Both happen in `MCCorrelation.cfg`: `OwnAnswer` and
  `OnlyTimedOutReversed` without the exception for `repeated` fail, as does
  `UndisturbedIsUnique` for all draws. With the exceptions they say how far the harm
  goes: to the payments that bear the STAN, and not beyond.
- `RefusedMeansUntouched` is checked for the two faults `authorize()` looks for
  and for requests ACE rejects. Every other fault is told as declined "because
  nothing reached the switch" (`switch/transport.py:208-213`) without a look at
  `is_client_fault`; with one raised after the `0200` went out (`AceFaults <-
  MCAllFaults`) the property fails: declined, while the switch approved.
- `NothingSkipped` and `AllLoaded` without `overtaken` fail: of two rows with one
  timestamp, or a row that commits after a later stamp was loaded, one stays behind the
  watermark for ever (`analytics/sync_to_warehouse.py:88`), which lines 69-71 there
  say the ORDER BY prevents ("skipping them permanently"). Both cases are in the run;
  the properties say that these rows are the only ones.
- A two-digit entry mode is one digit short of DE 22, is sent as `005`, and
  `decode_meaning()` reads its first two digits, `00` (unknown), where the
  sender meant `05` (`Normal` in Codec says what arrives).
- `_call()` takes every `httpx.RequestError` for a peer it could not reach,
  "Nothing was sent, so no reversal needed" (`switch/soap_client.py:69-70`);
  a connection that breaks while the answer is read is one as well. In Payment
  this is the `TimesOut` without a reversal.
- A FIXED number longer than its field is not cut (`iso8583/parser.py:307`), and
  the receiver loses its place. The risk engine keeps amounts short; the entry
  mode is the one such field whose length nothing limits (`api/schemas.py:17`).

- `security/mock_hsm.py:12-17` promises that "each transaction gets its own key".
  `OwnKey` has two exceptions, and `MCHsmKeys.cfg` fails
  without either: the counter starts at 0 in every process while the base key
  persists, and two threads in `_next_ksn()` may format one number. An overlap may
  also leave the counter behind, so that a later request, whose draw nothing
  overlapped, repeats the number of one of those (it takes four requests): what
  never happens is that two such requests share a key.
- With `OneAtATime = FALSE`, two first starts at once, `BlocksSurvive` and `StartsUnlessTorn`
  fail: each generates a base key, the file keeps one of them, and a start that
  finds the file created but not written fails. A process that dies at that
  point leaves a file at which every later start fails until it is removed.
- `LimitHolds` is stated for the window less `Delay` and `Skew`. An attempt takes its
  time before the lock (`cache/velocity_tracker.py:35`), so one recorded late is
  pruned against its own, earlier time, and is missing in counts of attempts
  that were recorded before it. The two trackers disagree on an attempt exactly
  one window old.
- `set_password()` "only works once" (`api/routes/auth.py:2-10`): two calls that both
  read the empty hash both succeed, and the second password holds.
  `PasswordIsKept` without `raced` fails.
- A retry through another replica is answered 401, not the cached result:
  `get_current_user` looks the token's user up in this replica's database
  before the handler claims the key (`auth/dependencies.py:27`), while
  `verify_cross_replica.py:9-11` and `README.md:270-277` promise "the identical cached
  result" from a replica that has never seen that user. For the same reason
  only three of that script's six attempts reach the velocity window, one less
  than a review takes. `TokenIsItsUser` without `issuer # at` fails.
- `openshift/microfinance-stack.yaml:93` says its volume holds "The SQLite ledger and the wrapped
  HSM key"; the ledger's path is the directory of `api/main.py`
  (`api/main.py:146-147`), so it goes with the container. `LoseDb` of Identity is
  that loss.

### Why the bounds are enough

- *Ledger.* The write lock admits one writer, so two sessions show every
  interleaving of a writer with a session that waits, loses, or is refused;
  the three calls contain a shared rrn with different accounts and amounts, a
  payment to oneself and a second rrn. Crashes are not bounded. `MaxResets` is
  1 because a reset brings the tables back to an earlier shape. The proofs
  remove these bounds for `DoubleEntry` and `LedgerPromise`.
- *Store.* The properties are about two callers of one key, who ask again as often
  as they like. Keys do not interact. Two expiries let a key be claimed three
  times.
- *Payment.* Every property speaks of one request or of two, and two keys share
  only the ledger, whose rows are told apart by rrn. What a third request of a
  key meets, and a second incident, is covered by the proofs, which remove the
  bounds from all safety properties. ACE is the transport, since what can end
  a call over the own socket (`Declined`, `Approved`, `TimesOut`, `Unreachable`)
  can end one over ACE as well.
- *Correlation.* A stolen answer needs two callers. Each draws at most twice, and with
  4 STANs from 2 on the counter comes round on STANs that are pending, in flight
  or those of an approved payment; more STANs put such a collision further apart.
  The switch takes a `0400` after its `0200`, as TCP hands them to it, and everything
  else in any order; a `0400` that overtook its `0200` would reverse nothing
  (`SwitchReorders`; the proofs cover it as well). Two connections and two
  hearts show a heartbeat that sleeps through the reconnection; with a drop
  the second caller is left out, since callers meet only in the pending map
  and the counter.
- *Wire.* `Pieces` halves what is left down to single bytes, which cuts frames in
  the header, at the header's end and inside fields; coarser or finer cuts
  differ in where, and the reader looks at a count only. A third thread waits
  as the second does. One broken connection leaves half a frame on either side
  for the next. The messages have short and full PANs, odd and even lengths,
  one and two bitmaps, a PIN block that ends in blanks; the field codings are
  proved for all values.
- *Warehouse.* Four rows and pages of two give a full page followed by a full,
  a short and an empty one; two failures let a page be loaded three times. The
  proofs cover every size.

- *HsmKeys.* The file changes at the first start only; the second start reads it,
  the third shows that a second generation or a failed start does not change
  that. Three requests let two draws overlap and a third follow.
- *Velocity.* Four attempts exceed the higher limit by two, so that the pruned and
  the late one still leave a burst; `MaxTime` is the window, its slack and one
  tick, after which a key has expired.
- *Identity.* The properties are about one person's row and another's. Three ids
  allow a person to be registered again after a loss; two callers overlap.

Model values stand for keys, accounts, rrns and callers; symmetry is
used where a run has no liveness property: the callers of `MCCorrelation.cfg`, and
HsmKeys, Velocity and Identity.
`CHECK_DEADLOCK FALSE` is used where a run ends when all requests are answered,
all messages sent or all starts used up:
Payment, Correlation, Wire, HsmKeys, Velocity, Identity.

### Fairness

- `LedgerDb.FairSpec`: a thread *inside* `record_purchase` or the reset goes on
  (no fairness for starting a call, registering or crashing). The busy timeout
  bounds the wait for the lock.
- `RedisStore.FairSpec`: a thread inside `claim()` issues its next command. Nothing
  makes its commands succeed; the number of expiries and clears is finite.
- `Payment.FairSpec`: a handler that has claimed goes on, since its only
  wait, for the switch, ends with the timeout. Neither the switch nor a retry
  is assumed to come.
- `Correlation.FairSpec`: callers run because `event.wait(timeout)` is bounded; the
  connection thread runs and some attempt to connect succeeds. `FairSwitchSpec`
  adds that the switch gets to each request it was sent, which
  only `ApprovalIsSettled` needs.
- `Wire.FairSpec`: TCP delivers what was written (weak fairness of `ReadStep`); a
  thread gets the send lock sooner or later and then goes on (strong fairness
  of each sender, whose `Begin` is disabled whenever another holds the lock).
  Python's locks are not first come, first served, but they do not pass over a
  waiting thread for ever, and each sender here sends once.
- `WarehouseSync.FairSpec`: the CronJob fires again and a started run takes its steps;
  runs may still fail, finitely often.

## 4. The proofs

`LedgerDbProofs` assumes the named assumptions of Ledger and LedgerDb only
(amounts are naturals, calls are well typed, `NoSession` is not a session).

- `TypeCorrect`: `Spec => []TypeOK`.
- `AlwaysDoubleEntry`: `Spec => []DoubleEntry`. `DoubleEntry` is not inductive: a
  commit replaces the tables by the draft, so one has to know the draft. `IInv`
  adds `WriterInv` (exactly the holder of the lock is between two statements)
  and `DraftInv` (at each statement the draft is the committed tables plus the
  rows inserted so far, and the accounts those rows name exist).
- `Implements`: `Spec => LedgerPromise`. With the same invariant a commit is one
  `RecordPurchase` or `WipeLedger` of Ledger, `Register` is its registration,
  and every other step leaves the committed tables alone.
- `AnswersAreTrue`: `Spec => []ToldIsTrue`, and `OneIsToldRecorded`: `Spec =>
  []OneRecorder`. `AnswerInv` adds that no answer is of a later reset than the
  last; then only a commit tells anybody "recorded", its rrn was not there
  before, and rows leave the tables in a reset only.

`WarehouseSyncProofs` assumes `SyncAssumption`.

- `TypeCorrect`: `Spec => []TypeOK`.
- `WatermarkNeverBack`: `Spec => WatermarkAdvances`. `JobInv`: one run at a time
  (`concurrencyPolicy`), a run works from the watermark the warehouse holds,
  and its page has newer rows only.
- `NeverSkips`: `Spec => []NothingSkipped`, whatever the timestamps and the order of
  the commits. `SyncInv` follows a page from its extraction to its mark: each
  committed row it leaves out is newer than the whole page or has been overtaken
  (`OldestInv`), so a row that the mark passes is in the page, was passed before,
  or is one of those; and before the mark the page was loaded whole.
- `RecountsAreBounded`: `Spec => []RecountsAreFailures`.
  `CountInv` leaves one count in reserve for a row that was inserted and not
  marked yet: a run that would load it again can only start after the run that
  inserted it, or a part of it, has failed. `RowInv`: a payment is one row.

`WireProofs` is about Codec first, where it assumes `Catalogue` only: which data
elements the tables list, a fact without parameters that TLC evaluates.

- `BcdReturns`: decoding what was encoded returns it, for every digit string.
  `BcdBytes` gives the bytes; each nibble then comes apart again.
- `FieldReturns`: between any bytes before and after it, a field of any data
  element that was built from a value that fits is read as that value, normalised,
  and the reader ends exactly behind it. FIXED and variable fields are lemmas of
  their own; `PrefixReturns` is the length in front of the latter, `SliceMiddle`
  the place in the message. A FIXED text depends on its last character that is not
  blank: that there is a last one is `LastExists`.
- `CodecReturns`: for every `WellFormed(m)`, `ParseMessage(BuildMessage(m)) =
  Normal(m)`. `BitmapReturns` is the bitmap. `BuiltStepByStep` and
  `ReadStepByStep` say that the two recursive functions, which are CHOOSE
  expressions, are what their equations say, element by element; `ReaderFollows`
  then takes the reader along with the builder from DE 2 to DE 128. All three are
  inductions over numbers. The library's induction theorems cannot be
  instantiated, so they go through `LeastExists`, that a set of numbers has a
  least element, which follows from a theorem of WellFoundedInduction without an
  operator parameter, and through `SetInduction`.

On Wire it assumes `WireAssumption` and `MessagesAssumption`: a message is
`WellFormed`, two bytes can say how long it is (`to_bytes(2)` raises otherwise), a
request has the DEs its answer repeats, its STAN six digits and a DE 90 42. The
code sends such messages: `next_stan()` formats six digits and
`build_reversal_fields()` fills 42. A value longer than its field is not
`WellFormed`; `build_message()` cuts a text and does not cut digits.

- `ReadInOrder`: `Spec => []InOrder`. `InOrder` says nothing of bytes in flight,
  so it is far from inductive. `IInv` says where every byte is: the frames begun
  on a connection, in the order of the lock, are cut somewhere, what lies before
  the cut was handed to the parser (`ReadInv`), and what follows is, byte by byte,
  what the reader has of a header or a body and what is in flight (`Unread`). On a
  connection that broke that is a beginning of the frames (`Partial`), on one that
  holds it is all of them but what the holder of the lock has still to write
  (`Whole`, `Unwritten`). `LockInv` makes the holder the only writer, `LinkInv`
  keeps writers of a broken connection off the next one, `BodyInv` says that the
  length the reader took from a header is that of the frame that is next. The
  lemmas on `Cuts`, `Carries` and `Lacks` are about sequences alone: what a frame
  begun, a piece written, lost or read does to such a cut. Then `CodecReturns` is
  applied to each message.
- `StanReturns`: `Spec => []AnswerFindsItsRequest`. What is read of a request is
  `Normal`, and fits again (`NormalFits`), so the host's answer is `WellFormed`
  and `CodecReturns` applies to it, too; a number that fills its field is its own
  normal form (`WholeIsNormal`).

`SharedStoreProofs` is about what replicas share in Redis. For RedisStore it
assumes the named assumptions there (nulls are no values, results are responses).

- `OneWorkerAtATime`: `Spec => []OneWorkerUntilCleared`, and `CachedResponseFits`:
  `Spec => []ResponseFitsClaim`. `ClaimInv` ties a caller that works to the hash
  it wrote (`HoldsClaim`): the hash is there, so SET NX fails for all others, and
  the response it will store is for that hash. `StaleIsOutlived` keeps an older
  response apart. All of it ends with the first `clear_all()`.
- `CommandsKeepContract`: `Spec => KeepsContract`, the refinement. Until something
  expires or is cleared, what a caller has read stays so (`ReadIsSo`); then the
  successful SET NX is the contract's `Win`, the last GET of a loser its `Lose`,
  and the commands before it are stutters.

For Velocity it assumes `TimesAssumption`, `CountsAssumption`: limits are
naturals, and what `EXPIRE` adds to the window is no less than clocks and
recordings may be apart.

- `LimitAlwaysHolds`: `VelocitySpec => []LimitHolds`. An attempt is approved
  because of the count it saw, and others are recorded after it, so the invariant
  has to say that what a later attempt does not see is too old to be in one burst
  with it: pruned by an attempt that was already too late for it (`PrunedInv`),
  whatever the clock of its replica, or gone with the key (`ExpiryInv`), which
  outlives all it held by the window. `TimeInv` bounds how far a time and its
  recording are apart. `LimitInv` then counts, for each burst, the attempts let
  through (`RulesRespectCounts`: the last of them had a count within the limit).
- `CountsAreTrue`: `VelocitySpec => CountIsTrue`, the bounds on the count from the
  same invariant: `CloseIsHeld` from below, `KeptIsCounted` from above.

`HsmKeysProofs` assumes `NullsAssumption` and `OneAtATime`, what the OpenShift manifest
asks for (`replicas: 1`, `strategy: Recreate`).

- `EveryBlockSurvives`: `Spec => []BlocksSurvive`. Two processes that never met agree on a
  key only through the file, so the invariant says what the file holds:
  `StartInv` at each step of a start, `UpInv` while a process is up, `BlockInv` for
  each block that is there. `WrittenStays` is the heart: a process opens the
  file only if there was none, and no other process is alive to write it since
  (`OneProcess`).
- `EveryFailureIsExplained`: `Spec => []StartsUnlessTorn`, from where an empty and a
  written file come from (`FileInv`).
- `EveryBlockHasItsKey`: `Spec => []OwnKey`, also without `OneAtATime`. `CounterInv`: a
  draw that nothing has overlapped is the only one under way, and the counter, and
  whatever a draw under way has read of it, never falls below the number of an
  undisturbed one, wherever races leave it.

`PaymentProofs` assumes Payment's named assumptions. Its seven theorems share one
inductive invariant, `IInv`; the last three add a part each, on what cached
refusals say (`RefusalInv`), whose an rrn is (`RrnInv`) and what cached approvals
say (`AnswerInv`). `TypeCorrect` is `Spec => []TypeOK` here and in the next two.

- `OneAuthorisationHolds`, `SameAnswerHolds`, `LedgerIsBacked`: `OneAuthorisation`,
  `SameAnswer` and `LedgerMatchesSwitch`, without premise. Of all requests whose
  key the store remembers, one is past the claim (`OneWorker`, `ClaimInv`), what
  is cached is its response, and each transaction has a request whose `0210`
  approved it and that no longer sends a reversal (`PosterInv`).
- `RefusalIsFinal`: `FaultsAreNamed` implies `Spec => []RefusedMeansUntouched`. The
  premise is the disagreement about client faults of section 3.
- `ApprovalIsRecorded` and `BackstopHolds`: `ApprovedIsRecorded` and
  `BackstopCatches` where rrns do not collide; with collisions
  `MCPaymentCollision.cfg` refutes the first and section 3 the second.

`IdentityProofs` has no premise but Identity's named assumptions.

- `PasswordHolds`: `Spec => []PasswordIsKept`. An `UPDATE` is made by a call that read
  an empty hash; unless two calls were between their steps at once (`raced`), the
  hash is still empty then.
- `TokenHolds`: `Spec => []TokenIsItsUser`. `IdInv`: an id is drawn once, so
  wherever the token's id is found, on whatever replica, the row is of the person
  it was drawn for. `TokenInv` gives the three reasons of a 401.

`CorrelationProofs` assumes the named assumptions of SwitchClient and Correlation.

- `TypeCorrect`, `PendingHolds` (`PendingIsWaiting`) and `ListeningHolds`
  (`ConnectedIsListening`) hold whatever STANs are drawn (`BaseInv`).
- `OwnAnswerHolds`: `Spec => []OwnAnswer`, with nothing assumed of `next_stan()`. In
  `StanInv` a STAN that is not `repeated` has one owner: the thread that drew it, the
  caller that registered it and every message that bears it are of one request. A
  step of the program draws a STAN, registers it, spends it on a message, pays with
  it, or only moves messages on (`Moves`), and each of the five keeps `StanInv`.
  `HandedInv` follows a response from the lookup to the caller.
- `ReversalHolds`: `Spec => []OnlyTimedOutReversed`.
  DE 90 names a payment by its STAN alone, so `InUse` has the STANs of payments that
  may be undone; `SettledInv` follows them from the payment to its reversal.
- `UndisturbedHolds`: `Spec => UndisturbedIsUnique`. `CleanInv`: a draw that nothing
  has overlapped is the only one under way, so when it ends nobody holds an
  older value of the counter to store. From then on every value read or stored
  is at least that STAN, until the counter comes round.

Only model-checked:

- Payment, Correlation and Wire as refinements of an abstract specification:
  none is stated;
- that more attempts or more money never make the verdict of the risk engine
  milder (`RulesAreMonotone`), and PinBlock, on the values its assumptions list;
- liveness (`EveryCallReturns`, `ClaimAnswers`, `ClaimsAreAnswered`, `AllLoaded`,
  `ListensAgain`, `ApprovalIsSettled`, `EverySendReturns`, `SentIsReceived`), which
  the prover does not support.

That `is_balanced()` holds follows from `DoubleEntry` by a sum over the rows; no
run checks it by itself. PinBlock uses the XOR of Bitwise, which the prover
cannot read, and is evaluated on examples.

## 5. Not modelled

- Ciphers, hashes, signatures, the wrapping of keys: cryptography. The models
  assume that a key opens what it closed and that a token is as it was issued.
- The XML of the SOAP client and the inside of ACE: Payment has the ways a call
  to it can end.
- The codec's tables of code meanings, `explain()` and its file helpers.
- `close()` and `sign_off()` of the client; a garbled message, which the
  receive loop treats like a broken connection.
- Several replicas that share Redis but not the ledger, as in `docker-compose.yml`:
  Payment's processes share one database file, Identity has the databases
  apart.
- The shape of requests (`api/schemas.py`), which FastAPI checks before a handler
  runs: the models' inputs satisfy it.
- Audit log, health endpoints, balance queries, diagnostic scripts, deployment
  files other than the CronJob and the limits of Redis: I/O, reads and
  configuration.

## 6. Plan

Every module of section 2 is written and checked, and every safety invariant
and action property that a passing run checks is proved, under the premises that
section 4 names. What could be added:

1. An abstract specification of the payment (claimed, paid, recorded, answered)
   that Payment refines, and one of the connection as a set of messages, from which
   Correlation takes them and which Wire refines.
2. Several replicas that share Redis but not the ledger.
3. `close()`, `sign_off()` and a garbled message in SwitchClient.
