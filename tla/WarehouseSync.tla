---------------------------- MODULE WarehouseSync ---------------------------
(***************************************************************************)
(* analytics/sync_to_warehouse.py and ClickHouseWarehouse: an hourly job   *)
(* copies new rows of the ledger, page by page, into a fact table that     *)
(* deduplicates and an aggregate that does not, and moves a watermark.     *)
(* Beside it payments take their timestamp and commit a little later: in   *)
(* any order, and several of them with the same timestamp.                 *)
(***************************************************************************)
EXTENDS Naturals, FiniteSets

CONSTANTS
    Rrns,             \* payments
    Jobs,             \* pods the CronJob may start
    PageSize,         \* SYNC_PAGE_SIZE
    MaxTime,          \* bound on the clock
    MaxFailures       \* bound on failed runs

ASSUME SyncAssumption ==
    /\ PageSize \in Nat \ {0}
    /\ MaxTime \in Nat /\ MaxFailures \in Nat

VARIABLES
    clock,      \* what datetime.now() returns, from 1
    open,       \* rows stamped and not committed
    ledger,     \* rows committed
    fact,       \* fact_transactions FINAL
    counted,    \* how many times mv_daily_volume counted each payment
    watermark,  \* etl_watermark: a timestamp, 0 for none
    pc,         \* step of each job
    since,      \* the watermark in the memory of each job
    batch,      \* the rows it extracted
    failures,
    overtaken   \* history: rows a page passed before they could be read

ledgerVars == <<clock, open, ledger>>
warehouseVars == <<fact, counted, watermark>>
jobVars == <<pc, since, batch, failures>>
vars == <<ledgerVars, warehouseVars, jobVars, overtaken>>

Row == [rrn : Rrns, at : 1..MaxTime]

TypeOK ==
    /\ clock \in 1..MaxTime + 1
    /\ open \subseteq Row /\ ledger \subseteq Row /\ fact \subseteq Row
    /\ counted \in [Rrns -> Nat]
    /\ watermark \in 0..MaxTime
    /\ pc \in [Jobs -> {"off", "extract", "insert", "mark"}]
    /\ since \in [Jobs -> 0..MaxTime]
    /\ batch \in [Jobs -> SUBSET Row]
    /\ failures \in 0..MaxFailures
    /\ overtaken \subseteq ledger

Init ==
    /\ clock = 1 /\ open = {} /\ ledger = {}
    /\ fact = {} /\ counted = [r \in Rrns |-> 0] /\ watermark = 0
    /\ pc = [j \in Jobs |-> "off"]
    /\ since = [j \in Jobs |-> 0]
    /\ batch = [j \in Jobs |-> {}]
    /\ failures = 0
    /\ overtaken = {}

-----------------------------------------------------------------------------
(* The ledger's side: record_purchase                                      *)

\* Two calls may see one value of the clock.
Tick ==
    /\ clock <= MaxTime
    /\ clock' = clock + 1
    /\ UNCHANGED <<open, ledger, warehouseVars, jobVars, overtaken>>

\* now = datetime.now(): before the transaction takes the write lock.
Stamp(r) ==
    /\ clock <= MaxTime
    /\ \A row \in open \cup ledger : row.rrn # r
    /\ open' = open \cup {[rrn |-> r, at |-> clock]}
    /\ UNCHANGED <<clock, ledger, warehouseVars, jobVars, overtaken>>

\* The watermark has passed the row's timestamp, or will when a page is marked that
\* has been read already.
Passed(row) ==
    row.at <= watermark \/ \E j \in Jobs : \E read \in batch[j] : row.at <= read.at

Commit(row) ==
    /\ row \in open
    /\ open' = open \ {row}
    /\ ledger' = ledger \cup {row}
    /\ overtaken' = IF Passed(row) THEN overtaken \cup {row} ELSE overtaken
    /\ UNCHANGED <<clock, warehouseVars, jobVars>>

-----------------------------------------------------------------------------
(* The job                                                                 *)

GoTo(j, label) == pc' = [pc EXCEPT ![j] = label]

\* Mutant: no concurrencyPolicy.
MutOverlaps(j) ==
    /\ pc[j] = "off"
    /\ GoTo(j, "extract")
    /\ since' = [since EXCEPT ![j] = watermark]
    /\ UNCHANGED <<batch, failures, ledgerVars, warehouseVars, overtaken>>

\* The schedule fires; concurrencyPolicy Forbid waits for the previous run.
Start(j) ==
    /\ \A i \in Jobs : pc[i] = "off"
    /\ GoTo(j, "extract")
    /\ since' = [since EXCEPT ![j] = watermark]
    /\ UNCHANGED <<batch, failures, ledgerVars, warehouseVars, overtaken>>

\* Mutant: no ORDER BY, any rows of the newer ones make a page.
MutUnordered(B, s) ==
    /\ \A row \in B : row.at > s
    /\ IF \E row \in ledger : row.at > s /\ row \notin B
       THEN Cardinality(B) = PageSize ELSE Cardinality(B) <= PageSize

\* B is a page of rows newer than s: the oldest, and as many as fit.
Page(B, s) ==
    /\ \A row \in B : row.at > s
    /\ \A row \in B : \A other \in ledger \ B : other.at > s => row.at <= other.at
    /\ IF \E row \in ledger : row.at > s /\ row \notin B
       THEN Cardinality(B) = PageSize ELSE Cardinality(B) <= PageSize

\* Rows that share the timestamp at which the page ends, and are not on it.
CutOff(B) ==
    {row \in ledger \ B : (\E last \in B : last.at = row.at) /\ \A other \in B : other.at <= row.at}

Extract(j, B) ==
    /\ pc[j] = "extract"
    /\ Page(B, since[j])
    /\ IF B = {} THEN GoTo(j, "off") /\ UNCHANGED batch
                 ELSE GoTo(j, "insert") /\ batch' = [batch EXCEPT ![j] = B]
    /\ overtaken' = overtaken \cup CutOff(B)
    /\ UNCHANGED <<since, failures, ledgerVars, warehouseVars>>

\* ReplacingMergeTree keeps one copy of a row, the materialized view counts every
\* row of every insert.
Loads(stored, viewed) ==
    /\ fact' = fact \cup stored
    /\ counted' = [r \in Rrns |->
                     IF \E row \in viewed : row.rrn = r THEN counted[r] + 1 ELSE counted[r]]

\* Mutant: the watermark moves before the batch is loaded.
MutMarksFirst(j) ==
    /\ pc[j] = "insert"
    /\ \E last \in batch[j] :
          /\ \A row \in batch[j] : row.at <= last.at
          /\ watermark' = last.at
    /\ GoTo(j, "mark")
    /\ UNCHANGED <<fact, counted, since, batch, failures, ledgerVars, overtaken>>

Insert(j) ==
    /\ pc[j] = "insert"
    /\ Loads(batch[j], batch[j])
    /\ GoTo(j, "mark")
    /\ UNCHANGED <<watermark, since, batch, failures, ledgerVars, overtaken>>

\* An exception out of load_transactions(), or a pod lost inside it.  Neither the
\* chunks of batch_size, nor the blocks of one insert, nor the fact table and its
\* view are one transaction: the server may have kept any part of the page.
InsertBreaks(j) ==
    /\ failures < MaxFailures
    /\ pc[j] = "insert"
    /\ \E stored, viewed \in SUBSET batch[j] : Loads(stored, viewed)
    /\ failures' = failures + 1
    /\ GoTo(j, "off")
    /\ batch' = [batch EXCEPT ![j] = {}]
    /\ UNCHANGED <<watermark, since, ledgerVars, overtaken>>

\* The watermark becomes the last row's timestamp; a short page is the last.
Mark(j) ==
    /\ pc[j] = "mark"
    /\ \E last \in batch[j] :
          /\ \A row \in batch[j] : row.at <= last.at
          /\ watermark' = last.at
          /\ since' = [since EXCEPT ![j] = last.at]
    /\ batch' = [batch EXCEPT ![j] = {}]
    /\ GoTo(j, IF Cardinality(batch[j]) < PageSize THEN "off" ELSE "extract")
    /\ UNCHANGED <<fact, counted, failures, ledgerVars, overtaken>>

\* An exception, activeDeadlineSeconds, a lost pod: the run ends before its next
\* step.
Fail(j) ==
    /\ failures < MaxFailures
    /\ pc[j] # "off"
    /\ failures' = failures + 1
    /\ GoTo(j, "off")
    /\ batch' = [batch EXCEPT ![j] = {}]
    /\ UNCHANGED <<since, ledgerVars, warehouseVars, overtaken>>

JobStep(j) == (\E B \in SUBSET ledger : Extract(j, B)) \/ Insert(j) \/ Mark(j)

Next ==
    \/ Tick
    \/ \E r \in Rrns : Stamp(r)
    \/ \E row \in open : Commit(row)
    \/ \E j \in Jobs : Start(j) \/ JobStep(j) \/ InsertBreaks(j) \/ Fail(j)

Spec == Init /\ [][Next]_vars

\* The CronJob fires every hour, and a run goes on until it ends or fails.
FairSpec ==
    /\ Spec
    /\ WF_vars(\E j \in Jobs : Start(j))
    /\ \A j \in Jobs : WF_vars(JobStep(j))

-----------------------------------------------------------------------------
(* Properties *)

Loaded(row) == row \in fact /\ counted[row.rrn] >= 1

\* sync_to_warehouse.py: no "watermark past rows that were never read, skipping
\* them permanently".  The rows the code does skip are those that were stamped
\* before the last row of a page and committed after it was read, and those a page
\* cuts off from others of the same timestamp: any other row below the watermark is
\* in the fact table and in the aggregate, whatever runs broke off between them.
NothingSkipped ==
    \A row \in ledger : row.at <= watermark => Loaded(row) \/ row \in overtaken

\* "The watermark is what keeps these aggregates honest": the aggregate counts
\* every payment of the fact table, and counts it once.
HonestAggregates ==
    \A r \in Rrns : counted[r] = IF \E row \in fact : row.rrn = r THEN 1 ELSE 0

\* The bound that does hold: no payment is counted again more often than runs have
\* failed, in whatever step, and whatever part of a page those runs had loaded.
RecountsAreFailures == \A r \in Rrns : counted[r] <= 1 + failures

\* warehouse.py: "a watermark that goes backwards re-loads rows already
\* present".
WatermarkAdvances == [][watermark' >= watermark]_vars

\* "The next run resumes cleanly": every payment reaches the fact table and the
\* aggregate, whatever runs fail before, unless a page overtook it.
AllLoaded ==
    \A r \in Rrns : (\E row \in ledger : row.rrn = r)
                        ~> (\E row \in ledger : row.rrn = r /\ (Loaded(row) \/ row \in overtaken))
=============================================================================
