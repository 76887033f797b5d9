------------------------- MODULE WarehouseSyncProofs ------------------------
(***************************************************************************)
(* For any number of payments, in whatever order they commit, any number   *)
(* of pods, any page size and any failures, also inside an insert:         *)
(* WarehouseSync is type correct, its watermark never goes back, and the   *)
(* only rows it passes without loading them are those that a page overtook *)
(* or cut off.  NothingSkipped alone is not inductive: what the watermark  *)
(* will pass when a run marks its page depends on which rows the page left *)
(* out, so the invariant follows a page from its extraction to its mark.   *)
(* The aggregate counts a payment again at most once for each run that     *)
(* failed.                                                                 *)
(***************************************************************************)
EXTENDS WarehouseSync, TLAPS

-----------------------------------------------------------------------------
(* The inductive invariant *)

\* concurrencyPolicy Forbid.
OneJob == \A i, j \in Jobs : pc[i] # "off" /\ pc[j] # "off" => i = j

\* A run works from the watermark the warehouse holds.
SinceInv == \A j \in Jobs : pc[j] # "off" => since[j] = watermark

Loading == {"insert", "mark"}

\* The page of a run: committed rows newer than the watermark.
PageInv ==
    \A j \in Jobs :
        /\ batch[j] \subseteq ledger
        /\ pc[j] \in Loading => \A row \in batch[j] : row.at > watermark

JobInv == OneJob /\ SinceInv /\ PageInv

\* A row that a page leaves out is newer than the page or was overtaken; what is to
\* be marked is loaded.
OldestInv ==
    \A j \in Jobs :
        /\ pc[j] \in Loading =>
              \A other \in ledger \ batch[j] : other.at > watermark =>
                  \/ other \in overtaken
                  \/ \A row \in batch[j] : row.at < other.at
        /\ pc[j] = "mark" => \A row \in batch[j] : Loaded(row)

SyncInv == OldestInv /\ NothingSkipped

-----------------------------------------------------------------------------
(* Types *)

LEMMA TypePreserved == TypeOK /\ [Next]_vars => TypeOK'
<1> SUFFICES ASSUME TypeOK, [Next]_vars PROVE TypeOK'
  OBVIOUS
<1> USE SyncAssumption
<1>1. CASE Tick
  BY <1>1 DEF TypeOK, Tick, warehouseVars, jobVars, Row
<1>2. ASSUME NEW r \in Rrns, Stamp(r) PROVE TypeOK'
  <2>1. [rrn |-> r, at |-> clock] \in Row
    BY <1>2 DEF TypeOK, Stamp, Row
  <2> QED BY <1>2, <2>1 DEF TypeOK, Stamp, warehouseVars, jobVars
<1>3. ASSUME NEW row \in open, Commit(row) PROVE TypeOK'
  BY <1>3 DEF TypeOK, Commit, warehouseVars, jobVars
<1>4. ASSUME NEW j \in Jobs, Start(j) PROVE TypeOK'
  BY <1>4 DEF TypeOK, Start, GoTo, warehouseVars, ledgerVars
<1>5. ASSUME NEW j \in Jobs, NEW B \in SUBSET ledger, Extract(j, B) PROVE TypeOK'
  <2>1. B \in SUBSET Row
    BY DEF TypeOK
  <2>2. CutOff(B) \subseteq ledger
    BY DEF CutOff
  <2> QED BY <1>5, <2>1, <2>2 DEF TypeOK, Extract, GoTo, warehouseVars, ledgerVars
<1>6. ASSUME NEW j \in Jobs, NEW stored \in SUBSET batch[j], NEW viewed \in SUBSET batch[j],
             Loads(stored, viewed)
      PROVE  fact' \subseteq Row /\ counted' \in [Rrns -> Nat]
  <2>1. batch[j] \subseteq Row
    BY DEF TypeOK
  <2> QED BY <1>6, <2>1 DEF TypeOK, Loads
<1>a. ASSUME NEW j \in Jobs, Insert(j) PROVE TypeOK'
  <2>1. fact' \subseteq Row /\ counted' \in [Rrns -> Nat]
    BY <1>6, <1>a DEF Insert
  <2> QED BY <1>a, <2>1 DEF TypeOK, Insert, GoTo, ledgerVars
<1>b. ASSUME NEW j \in Jobs, InsertBreaks(j) PROVE TypeOK'
  <2>1. fact' \subseteq Row /\ counted' \in [Rrns -> Nat]
    BY <1>6, <1>b DEF InsertBreaks
  <2> QED BY <1>b, <2>1 DEF TypeOK, InsertBreaks, GoTo, ledgerVars
<1>7. ASSUME NEW j \in Jobs, Mark(j) PROVE TypeOK'
  <2>1. PICK last \in batch[j] : watermark' = last.at /\ since' = [since EXCEPT ![j] = last.at]
    BY <1>7 DEF Mark
  <2>2. last.at \in 0..MaxTime
    BY DEF TypeOK, Row
  <2> QED BY <1>7, <2>1, <2>2 DEF TypeOK, Mark, GoTo, ledgerVars
<1>8. ASSUME NEW j \in Jobs, Fail(j) PROVE TypeOK'
  BY <1>8 DEF TypeOK, Fail, GoTo, warehouseVars, ledgerVars
<1>9. CASE UNCHANGED vars
  BY <1>9 DEF TypeOK, vars, ledgerVars, warehouseVars, jobVars
<1> QED BY <1>1, <1>2, <1>3, <1>4, <1>5, <1>a, <1>b, <1>7, <1>8, <1>9 DEF Next, JobStep

\* Every variable keeps its type: the watermark is a timestamp or none.
THEOREM TypeCorrect == Spec => []TypeOK
<1>1. Init => TypeOK
  BY SyncAssumption DEF Init, TypeOK
<1> QED BY <1>1, TypePreserved, PTL DEF Spec

-----------------------------------------------------------------------------
(* Jobs *)

LEMMA JobPreserved == TypeOK /\ JobInv /\ [Next]_vars => JobInv'
<1> SUFFICES ASSUME TypeOK, JobInv, [Next]_vars PROVE JobInv'
  OBVIOUS
<1> USE DEF JobInv, OneJob, SinceInv, PageInv, Loading
<1>1. CASE Tick
  BY <1>1 DEF Tick, warehouseVars, jobVars
<1>2. ASSUME NEW r \in Rrns, Stamp(r) PROVE JobInv'
  BY <1>2 DEF Stamp, warehouseVars, jobVars
<1>3. ASSUME NEW row \in open, Commit(row) PROVE JobInv'
  BY <1>3 DEF Commit, warehouseVars, jobVars
<1>4. ASSUME NEW j \in Jobs, Start(j) PROVE JobInv'
  BY <1>4 DEF TypeOK, Start, GoTo, warehouseVars, ledgerVars
<1>5. ASSUME NEW j \in Jobs, NEW B \in SUBSET ledger, Extract(j, B) PROVE JobInv'
  BY <1>5 DEF TypeOK, Extract, Page, GoTo, warehouseVars, ledgerVars
<1>6. ASSUME NEW j \in Jobs, Insert(j) PROVE JobInv'
  BY <1>6 DEF TypeOK, Insert, GoTo, ledgerVars
<1>a. ASSUME NEW j \in Jobs, InsertBreaks(j) PROVE JobInv'
  BY <1>a DEF TypeOK, InsertBreaks, GoTo, ledgerVars
<1>7. ASSUME NEW j \in Jobs, Mark(j) PROVE JobInv'
  BY <1>7 DEF TypeOK, Mark, GoTo, ledgerVars
<1>8. ASSUME NEW j \in Jobs, Fail(j) PROVE JobInv'
  BY <1>8 DEF TypeOK, Fail, GoTo, warehouseVars, ledgerVars
<1>9. CASE UNCHANGED vars
  BY <1>9 DEF vars, ledgerVars, warehouseVars, jobVars
<1> QED BY <1>1, <1>2, <1>3, <1>4, <1>5, <1>6, <1>7, <1>8, <1>9, <1>a DEF Next, JobStep

LEMMA JobInvariance == Spec => [](TypeOK /\ JobInv)
<1>1. Init => TypeOK /\ JobInv
  BY SyncAssumption DEF Init, TypeOK, JobInv, OneJob, SinceInv, PageInv, Loading
<1>2. TypeOK /\ JobInv /\ [Next]_vars => (TypeOK /\ JobInv)'
  BY TypePreserved, JobPreserved
<1> QED BY <1>1, <1>2, PTL DEF Spec

LEMMA StepAdvances == TypeOK /\ JobInv /\ [Next]_vars => watermark' >= watermark
<1> SUFFICES ASSUME TypeOK, JobInv, [Next]_vars PROVE watermark' >= watermark
  OBVIOUS
<1>1. watermark \in Nat
  BY DEF TypeOK
<1>2. ASSUME NEW j \in Jobs, Mark(j) PROVE watermark' >= watermark
  <2>1. PICK last \in batch[j] : watermark' = last.at
    BY <1>2 DEF Mark
  <2>2. last.at > watermark /\ last.at \in Nat
    BY <1>2, <2>1 DEF Mark, JobInv, PageInv, Loading, TypeOK, Row
  <2> QED BY <1>1, <2>1, <2>2
<1>3. ASSUME ~ \E j \in Jobs : Mark(j) PROVE watermark' = watermark
  BY <1>3 DEF Next, JobStep, Tick, Stamp, Commit, Start, Extract, Insert, InsertBreaks, Fail,
              vars, warehouseVars
<1> QED BY <1>1, <1>2, <1>3

\* etl_watermark never goes back, for any number of pods, pages and failures:
\* no row below it is read twice because of an older value.
THEOREM WatermarkNeverBack == Spec => WatermarkAdvances
<1>1. TypeOK /\ JobInv /\ [Next]_vars => [watermark' >= watermark]_vars
  BY StepAdvances
<1> QED BY JobInvariance, <1>1, PTL DEF Spec, WatermarkAdvances
-----------------------------------------------------------------------------
(* Rows *)

\* The fact table and the aggregate never lose a row.
LEMMA LoadedStays ==
    TypeOK /\ [Next]_vars => \A row \in Row : Loaded(row) => Loaded(row)'
<1> SUFFICES ASSUME TypeOK, [Next]_vars, NEW row \in Row, Loaded(row) PROVE Loaded(row)'
  OBVIOUS
<1>1. row.rrn \in Rrns /\ counted[row.rrn] \in Nat
  BY DEF TypeOK, Row
<1>2. ASSUME NEW stored, NEW viewed, Loads(stored, viewed) PROVE Loaded(row)'
  BY <1>1, <1>2 DEF Loads, Loaded
<1>3. CASE UNCHANGED <<fact, counted>>
  BY <1>3 DEF Loaded
<1>4. ASSUME NEW j \in Jobs, Insert(j) \/ InsertBreaks(j) PROVE Loaded(row)'
  BY <1>2, <1>4 DEF Insert, InsertBreaks
<1> QED BY <1>3, <1>4
        DEF Next, JobStep, Tick, Stamp, Commit, Start, Extract, Mark, Fail, vars, warehouseVars

\* The timestamps of rows are numbers.
LEMMA StampsAreNumbers ==
    ASSUME TypeOK
    PROVE  /\ watermark \in Nat
           /\ \A row \in open \cup ledger : row \in Row /\ row.at \in Nat
  BY DEF TypeOK, Row

\* A row that commits is newer than every page in memory, or overtaken.
LEMMA OldestAfterCommit ==
    ASSUME TypeOK, JobInv, OldestInv, NEW row \in open, Commit(row)
    PROVE  OldestInv'
<1>1. /\ UNCHANGED <<pc, batch, watermark, fact, counted>>
      /\ ledger' = ledger \cup {row} /\ overtaken \subseteq overtaken'
      /\ Passed(row) => row \in overtaken'
  BY DEF Commit, warehouseVars, jobVars
<1>2. ASSUME NEW j \in Jobs, pc[j] \in Loading, NEW other \in (ledger \cup {row}) \ batch[j],
             other.at > watermark
      PROVE  other \in overtaken' \/ \A read \in batch[j] : read.at < other.at
  <2>1. CASE other \in ledger
    BY <1>1, <1>2, <2>1 DEF OldestInv
  <2>2. CASE other = row
    <3>1. \A read \in batch[j] : read.at \in Nat
      BY StampsAreNumbers DEF JobInv, PageInv
    <3> QED BY <1>1, <2>2, <3>1, StampsAreNumbers DEF Passed
  <2> QED BY <2>1, <2>2
<1>3. \A j \in Jobs : pc[j] = "mark" => \A read \in batch[j] : Loaded(read)
  BY DEF OldestInv
<1> QED BY <1>1, <1>2, <1>3 DEF OldestInv, Loaded

\* A row that a page leaves out is newer, or was cut off.
LEMMA OldestAfterExtract ==
    ASSUME TypeOK, JobInv, OldestInv, NEW j \in Jobs, NEW B \in SUBSET ledger, Extract(j, B)
    PROVE  OldestInv'
<1>1. /\ UNCHANGED <<ledger, fact, counted, watermark>> /\ overtaken' = overtaken \cup CutOff(B)
      /\ Page(B, watermark)
      /\ pc[j] = "extract"
  BY DEF Extract, ledgerVars, warehouseVars, JobInv, SinceInv
<1>2. \A i \in Jobs : pc'[i] # "mark" /\ (pc'[i] = "insert" => i = j /\ batch'[i] = B)
  BY <1>1 DEF Extract, GoTo, TypeOK, JobInv, OneJob
<1>3. ASSUME NEW other \in ledger \ B, other.at > watermark
      PROVE  other \in overtaken' \/ \A row \in B : row.at < other.at
  <2>1. \A row \in B : row.at <= other.at
    BY <1>1, <1>3 DEF Page
  <2>2. CASE \E row \in B : row.at = other.at
    <3>1. other \in CutOff(B)
      BY <1>3, <2>1, <2>2 DEF CutOff
    <3> QED BY <1>1, <3>1
  <2>3. CASE \A row \in B : row.at # other.at
    BY <2>1, <2>3, StampsAreNumbers
  <2> QED BY <2>2, <2>3
<1> QED BY <1>1, <1>2, <1>3 DEF OldestInv, Loading

\* A page that was inserted whole is loaded.
LEMMA OldestAfterInsert ==
    ASSUME TypeOK, JobInv, OldestInv, NEW j \in Jobs, Insert(j)
    PROVE  OldestInv'
<1>1. /\ UNCHANGED <<ledger, watermark, batch, overtaken>>
      /\ pc[j] = "insert" /\ Loads(batch[j], batch[j])
      /\ pc' = [pc EXCEPT ![j] = "mark"]
  BY DEF Insert, GoTo, ledgerVars
<1>2. \A i \in Jobs : i # j => pc'[i] = "off"
  BY <1>1 DEF TypeOK, JobInv, OneJob
<1>3. ASSUME NEW row \in batch[j] PROVE Loaded(row)'
  <2>1. row.rrn \in Rrns /\ counted[row.rrn] \in Nat
    BY StampsAreNumbers DEF TypeOK, Row, JobInv, PageInv
  <2> QED BY <1>1, <2>1 DEF Loads, Loaded
<1> QED BY <1>1, <1>2, <1>3 DEF OldestInv, Loading, Loaded

LEMMA OldestPreserved == TypeOK /\ JobInv /\ OldestInv /\ [Next]_vars => OldestInv'
<1> SUFFICES ASSUME TypeOK, JobInv, OldestInv, [Next]_vars
             PROVE  OldestInv'
  OBVIOUS
<1>1. ASSUME UNCHANGED <<ledger, warehouseVars, jobVars, overtaken>> PROVE OldestInv'
  BY <1>1 DEF OldestInv, Loaded, warehouseVars, jobVars
<1>2. ASSUME NEW row \in open, Commit(row) PROVE OldestInv'
  BY <1>2, OldestAfterCommit
<1>3. ASSUME NEW j \in Jobs, Start(j) PROVE OldestInv'
  <2>1. \A i \in Jobs : pc'[i] \notin Loading
    BY <1>3 DEF TypeOK, Start, GoTo, Loading
  <2> QED BY <2>1 DEF OldestInv, Loading
<1>4. ASSUME NEW j \in Jobs, NEW B \in SUBSET ledger, Extract(j, B) PROVE OldestInv'
  BY <1>4, OldestAfterExtract
<1>5. ASSUME NEW j \in Jobs, Insert(j) PROVE OldestInv'
  BY <1>5, OldestAfterInsert
<1>6. ASSUME NEW j \in Jobs, Mark(j) \/ InsertBreaks(j) \/ Fail(j) PROVE OldestInv'
  <2>1. \A i \in Jobs : pc'[i] \notin Loading
    BY <1>6 DEF TypeOK, Mark, InsertBreaks, Fail, GoTo, JobInv, OneJob, Loading
  <2> QED BY <2>1 DEF OldestInv, Loading
<1> QED BY <1>1, <1>2, <1>3, <1>4, <1>5, <1>6
        DEF Next, JobStep, Tick, Stamp, vars, ledgerVars

-----------------------------------------------------------------------------
(* No row is skipped *)

\* The page that is marked: a row up to its last one is loaded, in the page or
\* before it, or was overtaken.
LEMMA MarkSkipsNothing ==
    ASSUME TypeOK, JobInv, SyncInv, NEW j \in Jobs, Mark(j)
    PROVE  NothingSkipped'
<1>1. PICK last \in batch[j] : watermark' = last.at
  BY DEF Mark
<1>2. pc[j] = "mark" /\ UNCHANGED <<ledger, fact, counted, overtaken>>
  BY DEF Mark, ledgerVars
<1>3. last \in ledger /\ last.at \in Nat
  BY StampsAreNumbers DEF JobInv, PageInv
<1>4. ASSUME NEW row \in ledger, row.at <= last.at PROVE Loaded(row) \/ row \in overtaken
  <2>1. CASE row.at <= watermark
    BY <2>1 DEF SyncInv, NothingSkipped
  <2>2. CASE row \in batch[j]
    BY <1>2, <2>2 DEF SyncInv, OldestInv
  <2>3. CASE row.at > watermark /\ row \notin batch[j]
    <3>1. row \in overtaken \/ last.at < row.at
      BY <2>3, <1>2 DEF SyncInv, OldestInv, Loading
    <3> QED BY <3>1, <1>3, <1>4, StampsAreNumbers
  <2> QED BY <2>1, <2>2, <2>3, StampsAreNumbers
<1> QED BY <1>1, <1>2, <1>4 DEF NothingSkipped, Loaded

LEMMA SkippedPreserved == TypeOK /\ JobInv /\ SyncInv /\ [Next]_vars => NothingSkipped'
<1> SUFFICES ASSUME TypeOK, JobInv, SyncInv, [Next]_vars PROVE NothingSkipped'
  OBVIOUS
<1>1. ASSUME NEW row \in open, Commit(row) PROVE NothingSkipped'
  <2>1. /\ ledger' = ledger \cup {row} /\ overtaken \subseteq overtaken'
        /\ row.at <= watermark => row \in overtaken'
        /\ UNCHANGED <<watermark, fact, counted>>
    BY <1>1 DEF Commit, Passed, warehouseVars
  <2> QED BY <2>1 DEF SyncInv, NothingSkipped, Loaded
<1>2. ASSUME NEW j \in Jobs, Mark(j) PROVE NothingSkipped'
  BY <1>2, MarkSkipsNothing
<1>3. CASE ledger' = ledger /\ watermark' = watermark /\ overtaken \subseteq overtaken'
  <2>1. \A row \in ledger : Loaded(row) => Loaded(row)'
    BY LoadedStays, StampsAreNumbers
  <2> QED BY <1>3, <2>1 DEF SyncInv, NothingSkipped
<1> QED BY <1>1, <1>2, <1>3
        DEF Next, JobStep, Tick, Stamp, Start, Extract, Insert, InsertBreaks, Fail,
            vars, ledgerVars, warehouseVars

\* "Watermark past rows that were never read, skipping them permanently": of the
\* rows the watermark has passed, none is missing from the fact table or from the
\* aggregate but those a page overtook or cut off; in whatever order rows commit and
\* however many share a timestamp, whatever the page size, the number of pods and
\* the steps, inside an insert too, at which runs fail.
THEOREM NeverSkips == Spec => []NothingSkipped
<1> DEFINE Inv == TypeOK /\ JobInv /\ SyncInv
<1>1. Init => Inv
  BY SyncAssumption DEF Init, TypeOK, JobInv, OneJob, SinceInv, PageInv, Loading,
     SyncInv, OldestInv, NothingSkipped
<1>2. Inv /\ [Next]_vars => Inv'
  BY TypePreserved, JobPreserved, OldestPreserved, SkippedPreserved DEF SyncInv
<1>3. Inv => NothingSkipped
  BY DEF SyncInv
<1> QED BY <1>1, <1>2, <1>3, PTL DEF Spec

-----------------------------------------------------------------------------
(* The aggregate.  The bound does not follow from itself: it grows with a   *)
(* failure only, so the invariant knows that a row whose load has not been  *)
(* marked was counted once less, unless its page is about to be marked.     *)

\* A payment has one row, in the ledger before it is counted.
RowInv == \A x, y \in open \cup ledger : x.rrn = y.rrn => x = y

AboutToBeMarked(row) == \E j \in Jobs : pc[j] = "mark" /\ row \in batch[j]

CountInv ==
    /\ \A r \in Rrns : (\A row \in ledger : row.rrn # r) => counted[r] = 0
    /\ \A row \in ledger :
          /\ counted[row.rrn] <= 1 + failures
          /\ row.at > watermark /\ ~AboutToBeMarked(row) => counted[row.rrn] <= failures

LEMMA RowPreserved == TypeOK /\ RowInv /\ [Next]_vars => RowInv'
<1> SUFFICES ASSUME TypeOK, RowInv, [Next]_vars PROVE RowInv'
  OBVIOUS
<1>1. ASSUME NEW r \in Rrns, Stamp(r) PROVE RowInv'
  BY <1>1 DEF Stamp, RowInv, warehouseVars
<1>2. ASSUME NEW row \in open, Commit(row) PROVE RowInv'
  BY <1>2 DEF Commit, RowInv, warehouseVars
<1>3. CASE UNCHANGED <<open, ledger>>
  BY <1>3 DEF RowInv
<1> QED BY <1>1, <1>2, <1>3
        DEF Next, JobStep, Tick, Start, Extract, Insert, InsertBreaks, Mark, Fail, vars, ledgerVars

\* The numbers of one payment.
LEMMA CountsAreNumbers ==
    ASSUME TypeOK
    PROVE  /\ failures \in Nat /\ watermark \in Nat
           /\ \A row \in open \cup ledger : row.rrn \in Rrns /\ row.at \in Nat
           /\ \A r \in Rrns : counted[r] \in Nat
  BY DEF TypeOK, Row

\* What a page adds, whole or in part: one to payments of the page, which were
\* counted once less than they may be.
LEMMA LoadCounts ==
    ASSUME TypeOK, JobInv, RowInv, CountInv, NEW j \in Jobs, pc[j] = "insert",
           NEW stored \in SUBSET batch[j], NEW viewed \in SUBSET batch[j],
           Loads(stored, viewed)
    PROVE  /\ \A r \in Rrns : (\A row \in ledger : row.rrn # r) => counted'[r] = 0
           /\ \A row \in ledger : counted'[row.rrn] <= 1 + failures
           /\ \A row \in ledger :
                 row.at > watermark /\ row \notin batch[j] => counted'[row.rrn] <= failures
<1>1. counted' = [r \in Rrns |-> IF \E row \in viewed : row.rrn = r THEN counted[r] + 1
                                                                   ELSE counted[r]]
  BY DEF Loads
<1>2. \A i \in Jobs : pc[i] # "mark"
  BY DEF JobInv, OneJob
<1>3. viewed \subseteq ledger /\ batch[j] \subseteq ledger
      /\ \A row \in batch[j] : row.at > watermark
  BY DEF JobInv, PageInv, Loading
<1>4. ASSUME NEW r \in Rrns, \A row \in ledger : row.rrn # r
      PROVE  counted'[r] = 0
  BY <1>1, <1>3, <1>4 DEF CountInv
<1>5. ASSUME NEW row \in ledger, row \in viewed
      PROVE  counted'[row.rrn] <= 1 + failures
  <2>1. counted'[row.rrn] = counted[row.rrn] + 1
    BY <1>1, <1>5, CountsAreNumbers
  <2>2. counted[row.rrn] <= failures
    BY <1>2, <1>3, <1>5 DEF CountInv, AboutToBeMarked
  <2>3. counted[row.rrn] \in Nat /\ failures \in Nat
    BY CountsAreNumbers
  <2> QED BY <2>1, <2>2, <2>3
<1>6. ASSUME NEW row \in ledger, row \notin viewed
      PROVE  counted'[row.rrn] = counted[row.rrn]
  <2>1. \A other \in viewed : other.rrn # row.rrn
    BY <1>3, <1>6 DEF RowInv
  <2> QED BY <1>1, <2>1, CountsAreNumbers
<1>7. \A row \in ledger : counted'[row.rrn] <= 1 + failures
  BY <1>5, <1>6 DEF CountInv
<1>8. ASSUME NEW row \in ledger, row.at > watermark, row \notin batch[j]
      PROVE  counted'[row.rrn] <= failures
  <2>1. ~AboutToBeMarked(row)
    BY <1>2 DEF AboutToBeMarked
  <2> QED BY <1>6, <1>8, <2>1 DEF CountInv
<1> QED BY <1>4, <1>7, <1>8

LEMMA InsertCounts ==
    ASSUME TypeOK, JobInv, RowInv, CountInv, NEW j \in Jobs, Insert(j)
    PROVE  CountInv'
<1>1. /\ UNCHANGED <<ledger, watermark, batch, failures>>
      /\ pc[j] = "insert" /\ pc' = [pc EXCEPT ![j] = "mark"]
      /\ Loads(batch[j], batch[j])
  BY DEF Insert, GoTo, ledgerVars
<1>2. \A row \in batch[j] : AboutToBeMarked(row)'
  BY <1>1 DEF TypeOK, AboutToBeMarked
<1>3. /\ \A r \in Rrns : (\A row \in ledger : row.rrn # r) => counted'[r] = 0
      /\ \A row \in ledger : counted'[row.rrn] <= 1 + failures
      /\ \A row \in ledger :
            row.at > watermark /\ row \notin batch[j] => counted'[row.rrn] <= failures
  BY <1>1, LoadCounts
<1> QED BY <1>1, <1>2, <1>3 DEF CountInv

\* A failure pays for the rows it leaves unmarked.
LEMMA InsertBreaksCounts ==
    ASSUME TypeOK, JobInv, RowInv, CountInv, NEW j \in Jobs, InsertBreaks(j)
    PROVE  CountInv'
<1>1. /\ UNCHANGED <<ledger, watermark>> /\ failures' = failures + 1
      /\ pc[j] = "insert"
  BY DEF InsertBreaks, ledgerVars
<1>2. PICK stored \in SUBSET batch[j], viewed \in SUBSET batch[j] : Loads(stored, viewed)
  BY DEF InsertBreaks
<1>3. /\ \A r \in Rrns : (\A row \in ledger : row.rrn # r) => counted'[r] = 0
      /\ \A row \in ledger : counted'[row.rrn] <= 1 + failures
  BY <1>1, <1>2, LoadCounts
<1>4. ASSUME NEW row \in ledger
      PROVE  counted'[row.rrn] <= failures' /\ counted'[row.rrn] <= 1 + failures'
  <2>1. counted'[row.rrn] \in Nat /\ failures \in Nat
    BY CountsAreNumbers, <1>2 DEF Loads
  <2>2. counted'[row.rrn] <= 1 + failures
    BY <1>3
  <2> QED BY <1>1, <2>1, <2>2
<1> QED BY <1>1, <1>3, <1>4 DEF CountInv

LEMMA FailCounts ==
    ASSUME TypeOK, JobInv, RowInv, CountInv, NEW j \in Jobs, Fail(j)
    PROVE  CountInv'
<1>1. UNCHANGED <<ledger, counted, watermark>> /\ failures' = failures + 1
  BY DEF Fail, warehouseVars, ledgerVars
<1>2. ASSUME NEW row \in ledger
      PROVE  counted[row.rrn] <= failures' /\ counted[row.rrn] <= 1 + failures'
  <2>1. counted[row.rrn] \in Nat /\ failures \in Nat /\ counted[row.rrn] <= 1 + failures
    BY CountsAreNumbers DEF CountInv
  <2> QED BY <1>1, <2>1
<1>3. \A r \in Rrns : (\A row \in ledger : row.rrn # r) => counted[r] = 0
  BY DEF CountInv
<1> QED BY <1>1, <1>2, <1>3 DEF CountInv

\* The mark passes every row of its page.
LEMMA MarkCounts ==
    ASSUME TypeOK, JobInv, RowInv, CountInv, NEW j \in Jobs, Mark(j)
    PROVE  CountInv'
<1>1. PICK last \in batch[j] :
          (\A row \in batch[j] : row.at <= last.at) /\ watermark' = last.at
  BY DEF Mark
<1>2. UNCHANGED <<ledger, counted, failures>> /\ pc[j] = "mark"
  BY DEF Mark, ledgerVars
<1>3. last.at > watermark /\ last.at \in Nat
  BY <1>2, CountsAreNumbers DEF JobInv, PageInv, Loading
<1>4. ASSUME NEW row \in ledger, row.at > watermark'
      PROVE  counted[row.rrn] <= failures
  <2>1. row.at > watermark
    BY <1>1, <1>3, <1>4, CountsAreNumbers
  <2>2. row \notin batch[j]
    <3>1. row.at \in Nat
      BY CountsAreNumbers
    <3> QED BY <1>1, <1>3, <1>4, <3>1
  <2>3. ~AboutToBeMarked(row)
    BY <1>2, <2>2 DEF AboutToBeMarked, JobInv, OneJob
  <2> QED BY <2>1, <2>3 DEF CountInv
<1> QED BY <1>2, <1>4 DEF CountInv

\* A payment that commits has not been counted.
LEMMA CommitCounts ==
    ASSUME TypeOK, RowInv, CountInv, NEW row \in open, Commit(row)
    PROVE  CountInv'
<1>1. /\ UNCHANGED <<counted, watermark, failures, pc, batch>>
      /\ ledger' = ledger \cup {row}
  BY DEF Commit, warehouseVars, jobVars
<1>2. row \notin ledger => counted[row.rrn] = 0
  BY CountsAreNumbers DEF RowInv, CountInv
<1>3. failures \in Nat
  BY CountsAreNumbers
<1>4. \A r \in Rrns : (\A other \in ledger' : other.rrn # r) => counted'[r] = 0
  BY <1>1 DEF CountInv
<1>5. ASSUME NEW other \in ledger'
      PROVE  /\ counted[other.rrn] <= 1 + failures
             /\ other.at > watermark /\ ~AboutToBeMarked(other) => counted[other.rrn] <= failures
  <2>1. CASE other \in ledger
    BY <2>1 DEF CountInv
  <2>2. CASE other = row /\ row \notin ledger
    BY <1>2, <1>3, <2>2
  <2> QED BY <1>1, <2>1, <2>2
<1> QED BY <1>1, <1>4, <1>5 DEF CountInv, AboutToBeMarked

LEMMA CountPreserved ==
    TypeOK /\ JobInv /\ RowInv /\ CountInv /\ [Next]_vars => CountInv'
<1> SUFFICES ASSUME TypeOK, JobInv, RowInv, CountInv, [Next]_vars PROVE CountInv'
  OBVIOUS
<1>1. ASSUME UNCHANGED <<ledger, counted, watermark, failures>>,
             \A row \in ledger : AboutToBeMarked(row) => AboutToBeMarked(row)'
      PROVE  CountInv'
  BY <1>1 DEF CountInv
<1>2. ASSUME NEW j \in Jobs, Start(j) PROVE CountInv'
  <2>1. \A i \in Jobs : pc[i] # "mark"
    BY <1>2 DEF Start
  <2> QED BY <1>1, <1>2, <2>1 DEF Start, warehouseVars, ledgerVars, AboutToBeMarked
<1>3. ASSUME NEW j \in Jobs, NEW B \in SUBSET ledger, Extract(j, B) PROVE CountInv'
  <2>1. \A i \in Jobs : pc[i] # "mark"
    BY <1>3 DEF Extract, JobInv, OneJob
  <2> QED BY <1>1, <1>3, <2>1 DEF Extract, warehouseVars, ledgerVars, AboutToBeMarked
<1>4. CASE UNCHANGED <<ledger, warehouseVars, jobVars>>
  BY <1>1, <1>4 DEF warehouseVars, jobVars, AboutToBeMarked
<1>5. ASSUME NEW j \in Jobs, Insert(j) \/ InsertBreaks(j) \/ Mark(j) \/ Fail(j) PROVE CountInv'
  BY <1>5, InsertCounts, InsertBreaksCounts, MarkCounts, FailCounts
<1>6. ASSUME NEW row \in open, Commit(row) PROVE CountInv'
  BY <1>6, CommitCounts
<1> QED BY <1>2, <1>3, <1>4, <1>5, <1>6 DEF Next, JobStep, Tick, Stamp, vars, ledgerVars

\* The aggregate counts a payment again at most once for every run that failed:
\* whatever the order in which rows commit, the page size, the number of pods, the
\* step at which each run fails and the part of its page it had loaded by then.
THEOREM RecountsAreBounded == Spec => []RecountsAreFailures
<1> DEFINE Inv == RowInv /\ CountInv
<1>1. Init => Inv
  <2> SUFFICES ASSUME Init PROVE RowInv /\ CountInv
    OBVIOUS
  <2> QED BY DEF Init, RowInv, CountInv
<1>2. TypeOK /\ JobInv /\ Inv /\ [Next]_vars => Inv'
  BY RowPreserved, CountPreserved
<1>3. TypeOK /\ Inv => RecountsAreFailures
  <2> SUFFICES ASSUME TypeOK, RowInv, CountInv, NEW r \in Rrns
               PROVE  counted[r] <= 1 + failures
    BY DEF RecountsAreFailures
  <2>1. counted[r] \in Nat /\ failures \in Nat
    BY CountsAreNumbers
  <2>2. CASE \E row \in ledger : row.rrn = r
    BY <2>2 DEF CountInv
  <2>3. CASE ~ \E row \in ledger : row.rrn = r
    BY <2>1, <2>3 DEF CountInv
  <2> QED BY <2>2, <2>3
<1> HIDE DEF Inv
<1> QED BY <1>1, <1>2, <1>3, JobInvariance, PTL DEF Spec
=============================================================================
