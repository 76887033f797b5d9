--------------------------- MODULE LedgerDbProofs ---------------------------
(***************************************************************************)
(* For any number of sessions, accounts, rrns and amounts: LedgerDb is     *)
(* type correct, its committed tables are always double entry, and it      *)
(* implements Ledger.  DoubleEntry is not inductive by itself: the draft a *)
(* writer is about to commit has to be known, statement by statement, and  *)
(* only the holder of the write lock may be between two statements.  What  *)
(* callers were told stays true as well, until the next reset.             *)
(***************************************************************************)
EXTENDS LedgerDb, TLAPS

-----------------------------------------------------------------------------
(* The inductive invariant *)

\* A session between its first statement and its commit holds the lock.
WriterInv ==
    \A s \in Sessions : pc[s] \in Writing <=> writer = s

DebitRow(s) == EntryRow(lastId + 1, call[s].rrn, call[s].debit, "debit", call[s].amount)
CreditRow(s) == EntryRow(lastId + 2, call[s].rrn, call[s].credit, "credit", call[s].amount)

\* The draft after n of the two postings were inserted.
DraftWith(s, rows, n) ==
    /\ call[s].rrn \notin RrnsIn(transactions)
    /\ draft.transactions = transactions \cup {TransactionRow(call[s])}
    /\ draft.entries = entries \cup rows
    /\ draft.lastId = lastId + n

DraftInv ==
    \A s \in Sessions :
        /\ pc[s] = "insert_debit" => DraftWith(s, {}, 0)
        /\ pc[s] = "insert_credit" =>
              DraftWith(s, {DebitRow(s)}, 1) /\ call[s].debit \in accounts
        /\ pc[s] = "commit" =>
              /\ DraftWith(s, {DebitRow(s), CreditRow(s)}, 2)
              /\ call[s].debit \in accounts /\ call[s].credit \in accounts
        /\ pc[s] \in {"delete_transactions", "delete_sequence", "commit_reset"}
              => draft.entries = {}
        /\ pc[s] \in {"delete_sequence", "commit_reset"} => draft.transactions = {}
        /\ pc[s] = "commit_reset" => draft.lastId = 0

IInv == TypeOK /\ WriterInv /\ DraftInv /\ DoubleEntry

-----------------------------------------------------------------------------
(* What the commits do to the tables *)

\* Inserting a fresh rrn with one debit and one credit keeps double entry.
LEMMA RecordKeepsDoubleEntry ==
    ASSUME LedgerTypeOK, DoubleEntry,
           NEW r \in Rrns, NEW d \in accounts, NEW c \in accounts, NEW m \in Amounts,
           r \notin RrnsIn(transactions),
           transactions' = transactions \cup {[rrn |-> r, amount |-> m]},
           entries' = entries \cup {EntryRow(lastId + 1, r, d, "debit", m),
                                    EntryRow(lastId + 2, r, c, "credit", m)},
           accounts' = accounts
    PROVE  DoubleEntry'
<1> DEFINE new == [rrn |-> r, amount |-> m]
           debit == EntryRow(lastId + 1, r, d, "debit", m)
           credit == EntryRow(lastId + 2, r, c, "credit", m)
<1>1. /\ debit.rrn = r /\ debit.type = "debit" /\ debit.account = d /\ debit.amount = m
      /\ credit.rrn = r /\ credit.type = "credit" /\ credit.account = c /\ credit.amount = m
      /\ new.rrn = r /\ new.amount = m
  BY DEF EntryRow
<1>2. \A e \in entries : e.rrn # r
  BY DEF DoubleEntry, NoOrphanEntries
<1>3. \A t \in transactions : t.rrn # r
  BY DEF RrnsIn
<1> HIDE DEF new, debit, credit
<1>4. transactions' = transactions \cup {new} /\ entries' = entries \cup {debit, credit}
  BY DEF new, debit, credit
<1>5. RrnIsPrimaryKey'
  BY <1>1, <1>3, <1>4 DEF DoubleEntry, RrnIsPrimaryKey
<1>6. \A t \in transactions' : OnePosting(t, "debit")' /\ OnePosting(t, "credit")'
  <2> SUFFICES ASSUME NEW t \in transactions', NEW type \in {"debit", "credit"}
               PROVE  OnePosting(t, type)'
    OBVIOUS
  <2>1. CASE t = new
    <3>1. CASE type = "debit"
      BY <1>1, <1>2, <1>4, <2>1, <3>1 DEF OnePosting
    <3>2. CASE type = "credit"
      BY <1>1, <1>2, <1>4, <2>1, <3>2 DEF OnePosting
    <3> QED BY <3>1, <3>2
  <2>2. CASE t \in transactions
    <3>1. OnePosting(t, type)
      BY <2>2 DEF DoubleEntry
    <3>2. t.rrn # r
      BY <1>3, <2>2
    <3> QED BY <1>1, <1>4, <3>1, <3>2 DEF OnePosting
  <2> QED BY <1>4, <2>1, <2>2
<1>7. NoOrphanEntries'
  <2> SUFFICES ASSUME NEW e \in entries'
               PROVE  e.rrn \in RrnsIn(transactions') /\ e.account \in accounts'
    BY DEF NoOrphanEntries
  <2>1. CASE e \in entries
    BY <1>4, <2>1 DEF DoubleEntry, NoOrphanEntries, RrnsIn
  <2>2. CASE e = debit \/ e = credit
    BY <1>1, <1>4, <2>2 DEF RrnsIn
  <2> QED BY <1>4, <2>1, <2>2
<1> QED BY <1>5, <1>6, <1>7 DEF DoubleEntry

\* Tables that do not change, or lose every row, stay double entry.
LEMMA SameTablesKeepDoubleEntry ==
    ASSUME DoubleEntry, UNCHANGED <<transactions, entries>>, accounts \subseteq accounts'
    PROVE  DoubleEntry'
  BY DEF DoubleEntry, RrnIsPrimaryKey, OnePosting, NoOrphanEntries, RrnsIn

LEMMA EmptyTablesAreDoubleEntry ==
    ASSUME transactions' = {}, entries' = {}
    PROVE  DoubleEntry'
  BY DEF DoubleEntry, RrnIsPrimaryKey, NoOrphanEntries

-----------------------------------------------------------------------------
(* Type correctness *)

LEMMA InitEstablishesIInv == Init => IInv
<1> SUFFICES ASSUME Init PROVE IInv
  OBVIOUS
<1> USE SessionAssumption DEF Init, LedgerInit
<1>1. TypeOK
  BY DEF TypeOK, LedgerTypeOK, Committed, Tables, Image, Answer
<1>2. WriterInv /\ DraftInv
  BY DEF WriterInv, DraftInv, Writing
<1>3. DoubleEntry
  BY DEF DoubleEntry, RrnIsPrimaryKey, NoOrphanEntries
<1> QED BY <1>1, <1>2, <1>3 DEF IInv

\* Rows built from typed parts are rows of their tables.
LEMMA TransactionRowType ==
    ASSUME TypeOK, NEW s \in Sessions
    PROVE  TransactionRow(call[s]) \in Transaction
<1>1. call[s] \in [rrn : Rrns, debit : Accounts, credit : Accounts, amount : Amounts]
  BY CallsAssumption DEF TypeOK
<1> QED BY <1>1 DEF TransactionRow, Transaction

LEMMA EntryRowType ==
    ASSUME TypeOK, NEW s \in Sessions, NEW n \in Nat, NEW a \in Accounts,
           NEW type \in {"debit", "credit"}
    PROVE  EntryRow(n + 1, call[s].rrn, a, type, call[s].amount) \in Entry
<1>1. call[s] \in [rrn : Rrns, debit : Accounts, credit : Accounts, amount : Amounts]
  BY CallsAssumption DEF TypeOK
<1> QED BY <1>1 DEF EntryRow, Entry

LEMMA TypePreserved == TypeOK /\ [Next]_vars => TypeOK'
<1> SUFFICES ASSUME TypeOK, [Next]_vars PROVE TypeOK'
  OBVIOUS
<1>1. /\ accounts \subseteq Accounts /\ transactions \subseteq Transaction
      /\ entries \subseteq Entry /\ lastId \in Nat
  BY DEF TypeOK, LedgerTypeOK
<1>2. Committed \in Image
  BY <1>1 DEF Committed, Tables, Image
<1>3. draft.transactions \subseteq Transaction /\ draft.entries \subseteq Entry
      /\ draft.lastId \in Nat
  BY DEF TypeOK, Image
<1>4. \A s \in Sessions :
         call[s] \in [rrn : Rrns, debit : Accounts, credit : Accounts, amount : Amounts]
  BY CallsAssumption DEF TypeOK
<1> USE DEF TypeOK, ledgerVars
<1>5. ASSUME NEW s \in Sessions, NEW c \in Calls, BeginRecord(s, c) PROVE TypeOK'
  BY <1>1, <1>5 DEF BeginRecord, GoTo, LedgerTypeOK
<1>6. ASSUME NEW s \in Sessions, InsertTransaction(s) PROVE TypeOK'
  <2>1. draft' \in Image
    BY <1>1, <1>2, <1>6, TransactionRowType DEF InsertTransaction, Committed, Tables, Image
  <2> QED BY <1>1, <1>6, <2>1 DEF InsertTransaction, GoTo, LedgerTypeOK, Writing
<1>7. ASSUME NEW s \in Sessions, DuplicateRrn(s) \/ Locked(s) PROVE TypeOK'
  BY <1>1, <1>7 DEF DuplicateRrn, Locked, Finish, LedgerTypeOK, Answer
<1>8. ASSUME NEW s \in Sessions, NEW at, NEW type \in {"debit", "credit"},
             NEW a \in Accounts, NEW next \in Writing, InsertEntry(s, at, type, a, next)
      PROVE  TypeOK'
  <2>1. draft' \in Image
    BY <1>3, <1>8, EntryRowType DEF InsertEntry, Tables, Image
  <2> QED BY <1>1, <1>8, <2>1 DEF InsertEntry, GoTo, LedgerTypeOK
<1>9. ASSUME NEW s \in Sessions, InsertDebit(s) \/ InsertCredit(s) PROVE TypeOK'
  BY <1>4, <1>8, <1>9 DEF InsertDebit, InsertCredit, Writing
<1>10. ASSUME NEW s \in Sessions, ForeignKeyError(s) \/ CommitFails(s) PROVE TypeOK'
  <2>1. CASE ForeignKeyError(s)
    BY <1>1, <1>2, <2>1 DEF ForeignKeyError, Finish, LedgerTypeOK, Answer
  <2>2. CASE CommitFails(s)
    BY <1>1, <1>2, <2>2 DEF CommitFails, Finish, LedgerTypeOK, Answer
  <2> QED BY <1>10, <2>1, <2>2
<1>11. ASSUME NEW s \in Sessions, Commit(s) PROVE TypeOK'
  BY <1>1, <1>3, <1>11 DEF Commit, Finish, LedgerTypeOK, Answer
<1>12. ASSUME NEW s \in Sessions, BeginReset(s) PROVE TypeOK'
  BY <1>1, <1>12 DEF BeginReset, GoTo, LedgerTypeOK
<1>13. ASSUME NEW s \in Sessions, DeleteEntries(s) PROVE TypeOK'
  <2>1. draft' \in Image
    BY <1>1, <1>2, <1>13 DEF DeleteEntries, Committed, Tables, Image
  <2> QED BY <1>1, <1>13, <2>1 DEF DeleteEntries, GoTo, LedgerTypeOK, Writing
<1>14. ASSUME NEW s \in Sessions, DeleteTransactions(s) \/ DeleteSequence(s) PROVE TypeOK'
  <2>1. draft' \in Image
    BY <1>3, <1>14 DEF DeleteTransactions, DeleteSequence, Tables, Image
  <2> QED BY <1>1, <1>14, <2>1
          DEF DeleteTransactions, DeleteSequence, GoTo, LedgerTypeOK, Writing
<1>15. ASSUME NEW s \in Sessions, CommitReset(s) PROVE TypeOK'
  BY <1>1, <1>3, <1>15 DEF CommitReset, Finish, LedgerTypeOK, Answer
<1>16. ASSUME NEW a \in Accounts, Register(a) PROVE TypeOK'
  BY <1>1, <1>16 DEF Register, RegisterAccount, LedgerTypeOK, dbVars
<1>17. CASE Crash
  BY <1>1, <1>2, <1>17 DEF Crash, LedgerTypeOK, Answer
<1>18. CASE UNCHANGED vars
  BY <1>18 DEF vars, dbVars, LedgerTypeOK
<1> QED BY <1>5, <1>6, <1>7, <1>9, <1>10, <1>11, <1>12, <1>13, <1>14, <1>15,
           <1>16, <1>17, <1>18 DEF Next, SessionStep

-----------------------------------------------------------------------------
(* The lock and the draft *)

LEMMA WriterPreserved == TypeOK /\ WriterInv /\ [Next]_vars => WriterInv'
<1> SUFFICES ASSUME TypeOK, WriterInv, [Next]_vars PROVE WriterInv'
  OBVIOUS
<1> USE SessionAssumption DEF TypeOK, WriterInv, Writing
<1>1. ASSUME NEW s \in Sessions, SessionStep(s) PROVE WriterInv'
  <2>1. ASSUME NEW c \in Calls, BeginRecord(s, c) PROVE WriterInv'
    BY <2>1 DEF BeginRecord, GoTo
  <2>2. CASE InsertTransaction(s)
    BY <2>2 DEF InsertTransaction, GoTo
  <2>3. CASE DuplicateRrn(s) \/ Locked(s)
    BY <2>3 DEF DuplicateRrn, Locked, Finish
  <2>4. CASE InsertDebit(s) \/ InsertCredit(s)
    BY <2>4 DEF InsertDebit, InsertCredit, InsertEntry, GoTo
  <2>5. CASE ForeignKeyError(s) \/ CommitFails(s)
    BY <2>5 DEF ForeignKeyError, CommitFails, Finish
  <2>6. CASE Commit(s) \/ CommitReset(s)
    BY <2>6 DEF Commit, CommitReset, Finish
  <2>7. CASE BeginReset(s) \/ DeleteEntries(s) \/ DeleteTransactions(s) \/ DeleteSequence(s)
    BY <2>7 DEF BeginReset, DeleteEntries, DeleteTransactions, DeleteSequence, GoTo
  <2> QED BY <1>1, <2>1, <2>2, <2>3, <2>4, <2>5, <2>6, <2>7 DEF SessionStep
<1>2. ASSUME NEW a \in Accounts, Register(a) PROVE WriterInv'
  BY <1>2 DEF Register, dbVars
<1>3. CASE Crash
  BY <1>3 DEF Crash
<1>4. CASE UNCHANGED vars
  BY <1>4 DEF vars, dbVars
<1> QED BY <1>1, <1>2, <1>3, <1>4 DEF Next

\* While a session writes, no other session can disturb draft or tables.
LEMMA OthersAreNotWriting ==
    ASSUME WriterInv, NEW s \in Sessions, pc[s] \in Writing \/ writer = NoSession,
           NEW u \in Sessions, u # s
    PROVE  pc[u] \notin Writing
  BY SessionAssumption DEF WriterInv

LEMMA DraftPreserved == TypeOK /\ WriterInv /\ DraftInv /\ [Next]_vars => DraftInv'
<1> SUFFICES ASSUME TypeOK, WriterInv, DraftInv, [Next]_vars PROVE DraftInv'
  OBVIOUS
<1> USE DEF TypeOK, DraftInv, DraftWith, DebitRow, CreditRow
<1>1. ASSUME NEW s \in Sessions, SessionStep(s) PROVE DraftInv'
  <2>1. ASSUME NEW c \in Calls, BeginRecord(s, c) PROVE DraftInv'
    BY <2>1 DEF BeginRecord, GoTo, ledgerVars
  <2>2. CASE InsertTransaction(s)
    <3>1. \A u \in Sessions \ {s} : pc[u] \notin Writing
      BY <2>2, OthersAreNotWriting DEF InsertTransaction
    <3>2. lastId = lastId + 0 /\ entries = entries \cup {}
      BY DEF LedgerTypeOK
    <3> QED BY <2>2, <3>1, <3>2 DEF InsertTransaction, Tables, GoTo, ledgerVars, Writing
  <2>3. CASE DuplicateRrn(s) \/ Locked(s)
    BY <2>3 DEF DuplicateRrn, Locked, Finish, ledgerVars
  <2>4. CASE InsertDebit(s)
    <3>1. \A u \in Sessions \ {s} : pc[u] \notin Writing
      BY <2>4, OthersAreNotWriting DEF InsertDebit, InsertEntry, Writing
    <3>2. /\ pc'[s] = "insert_credit" /\ \A u \in Sessions \ {s} : pc'[u] = pc[u]
          /\ UNCHANGED <<accounts, transactions, entries, lastId, call>>
          /\ draft' = Tables(draft.transactions, draft.entries \cup
                 {EntryRow(draft.lastId + 1, call[s].rrn, call[s].debit, "debit",
                           call[s].amount)}, draft.lastId + 1)
          /\ call[s].debit \in accounts
      BY <2>4 DEF InsertDebit, InsertEntry, GoTo, ledgerVars
    <3>3. /\ call[s].rrn \notin RrnsIn(transactions)
          /\ draft.transactions = transactions \cup {TransactionRow(call[s])}
          /\ draft.entries = entries \cup {} /\ draft.lastId = lastId + 0
      BY <2>4 DEF InsertDebit, InsertEntry
    <3>4. draft.lastId = lastId
      BY <3>3 DEF LedgerTypeOK
    <3>5. DraftWith(s, {DebitRow(s)}, 1)'
      BY <3>2, <3>3, <3>4 DEF Tables, RrnsIn
    <3> QED BY <3>1, <3>2, <3>5 DEF Writing
  <2>5. CASE InsertCredit(s)
    <3>1. \A u \in Sessions \ {s} : pc[u] \notin Writing
      BY <2>5, OthersAreNotWriting DEF InsertCredit, InsertEntry, Writing
    <3>2. /\ pc'[s] = "commit" /\ \A u \in Sessions \ {s} : pc'[u] = pc[u]
          /\ UNCHANGED <<accounts, transactions, entries, lastId, call>>
          /\ draft' = Tables(draft.transactions, draft.entries \cup
                 {EntryRow(draft.lastId + 1, call[s].rrn, call[s].credit, "credit",
                           call[s].amount)}, draft.lastId + 1)
          /\ call[s].credit \in accounts
      BY <2>5 DEF InsertCredit, InsertEntry, GoTo, ledgerVars
    <3>3. /\ call[s].rrn \notin RrnsIn(transactions)
          /\ draft.transactions = transactions \cup {TransactionRow(call[s])}
          /\ draft.entries = entries \cup {DebitRow(s)} /\ draft.lastId = lastId + 1
          /\ call[s].debit \in accounts
      BY <2>5 DEF InsertCredit, InsertEntry
    <3>4. draft.lastId + 1 = lastId + 2
      BY <3>3 DEF LedgerTypeOK
    <3>5. DraftWith(s, {DebitRow(s), CreditRow(s)}, 2)'
      BY <3>2, <3>3, <3>4 DEF Tables, RrnsIn
    <3> QED BY <3>1, <3>2, <3>3, <3>5 DEF Writing
  <2>6. CASE ForeignKeyError(s) \/ CommitFails(s)
    <3>1. \A u \in Sessions \ {s} : pc[u] \notin Writing
      BY <2>6, OthersAreNotWriting DEF ForeignKeyError, CommitFails, Writing
    <3> QED BY <2>6, <3>1 DEF ForeignKeyError, CommitFails, Finish, ledgerVars, Writing
  <2>7. CASE Commit(s) \/ CommitReset(s)
    <3>1. \A u \in Sessions \ {s} : pc[u] \notin Writing
      BY <2>7, OthersAreNotWriting DEF Commit, CommitReset, Writing
    <3> QED BY <2>7, <3>1 DEF Commit, CommitReset, Finish, Writing
  <2>8. CASE BeginReset(s)
    BY <2>8 DEF BeginReset, GoTo, ledgerVars
  <2>9. CASE DeleteEntries(s)
    <3>1. \A u \in Sessions \ {s} : pc[u] \notin Writing
      BY <2>9, OthersAreNotWriting DEF DeleteEntries
    <3> QED BY <2>9, <3>1 DEF DeleteEntries, Tables, GoTo, ledgerVars, Writing
  <2>10. CASE DeleteTransactions(s) \/ DeleteSequence(s)
    <3>1. \A u \in Sessions \ {s} : pc[u] \notin Writing
      BY <2>10, OthersAreNotWriting DEF DeleteTransactions, DeleteSequence, Writing
    <3> QED BY <2>10, <3>1
            DEF DeleteTransactions, DeleteSequence, Tables, GoTo, ledgerVars, Writing
  <2> QED BY <1>1, <2>1, <2>2, <2>3, <2>4, <2>5, <2>6, <2>7, <2>8, <2>9, <2>10
          DEF SessionStep
<1>2. ASSUME NEW a \in Accounts, Register(a) PROVE DraftInv'
  BY <1>2 DEF Register, RegisterAccount, dbVars
<1>3. CASE Crash
  BY <1>3 DEF Crash
<1>4. CASE UNCHANGED vars
  BY <1>4 DEF vars, dbVars, ledgerVars
<1> QED BY <1>1, <1>2, <1>3, <1>4 DEF Next

-----------------------------------------------------------------------------
(* Every step is a step of Ledger *)

\* Only the two commits and a registration touch the committed tables; a
\* commit is the whole purchase, or the whole reset, of the module Ledger.
LEMMA StepIsLedgerStep ==
    TypeOK /\ WriterInv /\ DraftInv /\ [Next]_vars => [LedgerNext]_ledgerVars
<1> SUFFICES ASSUME TypeOK, WriterInv, DraftInv, [Next]_vars
             PROVE  [LedgerNext]_ledgerVars
  OBVIOUS
<1>1. ASSUME NEW s \in Sessions, Commit(s)
      PROVE  \E r \in Rrns, d, c \in Accounts, m \in Amounts : RecordPurchase(r, d, c, m)
  <2>1. call[s] \in [rrn : Rrns, debit : Accounts, credit : Accounts, amount : Amounts]
    BY CallsAssumption DEF TypeOK
  <2>2. /\ DraftWith(s, {DebitRow(s), CreditRow(s)}, 2)
        /\ call[s].debit \in accounts /\ call[s].credit \in accounts
    BY <1>1 DEF Commit, DraftInv
  <2>3. RecordResult(call[s].rrn, call[s].debit, call[s].credit) = "recorded"
    BY <2>2 DEF DraftWith, RecordResult
  <2>4. RecordPurchase(call[s].rrn, call[s].debit, call[s].credit, call[s].amount)
    BY <1>1, <2>2, <2>3
       DEF Commit, RecordPurchase, DraftWith, DebitRow, CreditRow, TransactionRow
  <2> QED BY <2>1, <2>4
<1>2. ASSUME NEW s \in Sessions, CommitReset(s) PROVE WipeLedger
  BY <1>2 DEF CommitReset, WipeLedger, DraftInv
<1>3. ASSUME NEW s \in Sessions, SessionStep(s), ~Commit(s), ~CommitReset(s)
      PROVE  UNCHANGED ledgerVars
  BY <1>3 DEF SessionStep, BeginRecord, InsertTransaction, DuplicateRrn, Locked,
     InsertDebit, InsertCredit, InsertEntry, ForeignKeyError, CommitFails, BeginReset,
     DeleteEntries, DeleteTransactions, DeleteSequence
<1>4. ASSUME NEW a \in Accounts, Register(a) PROVE RegisterAccount(a)
  BY <1>4 DEF Register
<1>5. CASE Crash \/ UNCHANGED vars
  BY <1>5 DEF Crash, vars
<1> QED BY <1>1, <1>2, <1>3, <1>4, <1>5 DEF Next, LedgerNext

LEMMA DoubleEntryPreserved == IInv /\ [Next]_vars => DoubleEntry'
<1> SUFFICES ASSUME IInv, [Next]_vars PROVE DoubleEntry'
  OBVIOUS
<1>1. TypeOK /\ DoubleEntry /\ [LedgerNext]_ledgerVars
  BY StepIsLedgerStep DEF IInv
<1>2. ASSUME NEW r \in Rrns, NEW d \in Accounts, NEW c \in Accounts,
             NEW m \in Amounts, RecordPurchase(r, d, c, m)
      PROVE  DoubleEntry'
  <2>1. CASE RecordResult(r, d, c) = "recorded"
    <3>1. r \notin RrnsIn(transactions) /\ d \in accounts /\ c \in accounts
      BY <2>1 DEF RecordResult
    <3> QED BY <1>1, <1>2, <2>1, <3>1, RecordKeepsDoubleEntry DEF RecordPurchase, TypeOK
  <2>2. CASE RecordResult(r, d, c) # "recorded"
    BY <1>1, <1>2, <2>2, SameTablesKeepDoubleEntry DEF RecordPurchase
  <2> QED BY <2>1, <2>2
<1>3. CASE WipeLedger
  BY <1>3, EmptyTablesAreDoubleEntry DEF WipeLedger
<1>4. ASSUME NEW a \in Accounts, RegisterAccount(a) PROVE DoubleEntry'
  BY <1>1, <1>4, SameTablesKeepDoubleEntry DEF RegisterAccount
<1>5. CASE UNCHANGED ledgerVars
  BY <1>1, <1>5, SameTablesKeepDoubleEntry DEF ledgerVars
<1> QED BY <1>1, <1>2, <1>3, <1>4, <1>5 DEF LedgerNext

-----------------------------------------------------------------------------
(* Theorems *)

LEMMA Invariance == Spec => []IInv
<1>1. IInv /\ [Next]_vars => IInv'
  BY TypePreserved, WriterPreserved, DraftPreserved, DoubleEntryPreserved DEF IInv
<1> QED BY InitEstablishesIInv, <1>1, PTL DEF Spec

\* Every variable keeps its type: rows stay rows, the lock names a session.
THEOREM TypeCorrect == Spec => []TypeOK
<1>1. IInv => TypeOK
  BY DEF IInv
<1> QED BY Invariance, <1>1, PTL

\* record_purchase is all or nothing for every number of sessions, whatever
\* statements, rollbacks, lock timeouts, crashes and resets interleave: the
\* committed tables always hold one debit and one credit per transaction.
THEOREM AlwaysDoubleEntry == Spec => []DoubleEntry
<1>1. IInv => DoubleEntry
  BY DEF IInv
<1> QED BY Invariance, <1>1, PTL

\* The SQL statements of ledger/service.py and reset_ledger implement the
\* atomic ledger the rest of the system is modelled against.
THEOREM Implements == Spec => LedgerPromise
<1>1. Init => LedgerInit
  BY DEF Init
<1>2. IInv /\ [Next]_vars => [LedgerNext]_ledgerVars
  BY StepIsLedgerStep DEF IInv
<1> QED BY Invariance, <1>1, <1>2, PTL DEF Spec, LedgerSpec, LedgerPromise

-----------------------------------------------------------------------------
(* What a session was told *)

\* An answer is of the ledger as it was before the resets it has not seen.
AnswerInv ==
    /\ \A s \in Sessions : result[s].resets <= resets
    /\ ToldIsTrue /\ OneRecorder

LEMMA ResetsAreNumbers ==
    ASSUME TypeOK
    PROVE  resets \in Nat /\ \A s \in Sessions : result[s].resets \in Nat
  BY DEF TypeOK

\* A step that only adds rows, and tells nobody of a recording, leaves what was
\* told true.
LEMMA GrowingKeepsAnswers ==
    ASSUME TypeOK, AnswerInv, resets' = resets,
           transactions \subseteq transactions', entries \subseteq entries',
           \A s \in Sessions : \/ result'[s] = result[s]
                               \/ /\ result'[s].status \notin {"recorded", "already_recorded"}
                                  /\ result'[s].resets = resets
    PROVE  AnswerInv'
<1>1. \A s \in Sessions : result'[s].resets <= resets'
  BY ResetsAreNumbers DEF AnswerInv
<1>2. ASSUME NEW s \in Sessions, NEW status \in {"recorded", "already_recorded"},
             Told(s, status)'
      PROVE  Told(s, status) /\ result'[s] = result[s]
  BY <1>2 DEF Told
<1>3. ToldIsTrue'
  <2> SUFFICES ASSUME NEW s \in Sessions
               PROVE  /\ Told(s, "recorded")' =>
                            /\ TransactionRow(result'[s].call) \in transactions'
                            /\ \A side \in {<<"debit", result'[s].call.debit>>,
                                            <<"credit", result'[s].call.credit>>} :
                                  \E e \in entries' :
                                     /\ e.rrn = result'[s].call.rrn
                                     /\ e.amount = result'[s].call.amount
                                     /\ <<e.type, e.account>> = side
                      /\ Told(s, "already_recorded")'
                            => result'[s].call.rrn \in RrnsIn(transactions')
    BY DEF ToldIsTrue, TransactionRow, RrnsIn
  <2>1. RrnsIn(transactions) \subseteq RrnsIn(transactions')
    BY DEF RrnsIn
  <2>2. CASE Told(s, "recorded")'
    <3>1. Told(s, "recorded") /\ result'[s] = result[s]
      BY <1>2, <2>2
    <3>2. ~Told(s, "already_recorded")'
      BY <2>2 DEF Told
    <3> QED BY <3>1, <3>2 DEF AnswerInv, ToldIsTrue
  <2>3. CASE Told(s, "already_recorded")'
    <3>1. Told(s, "already_recorded") /\ result'[s] = result[s]
      BY <1>2, <2>3
    <3>2. ~Told(s, "recorded")'
      BY <2>3 DEF Told
    <3> QED BY <2>1, <3>1, <3>2 DEF AnswerInv, ToldIsTrue
  <2> QED BY <2>2, <2>3
<1>4. OneRecorder'
  BY <1>2 DEF AnswerInv, OneRecorder
<1> QED BY <1>1, <1>3, <1>4 DEF AnswerInv

\* Committing adds the call's own row and postings, under an rrn nobody was told
\* of since the last reset.
LEMMA CommitTellsTheTruth ==
    ASSUME IInv, AnswerInv, NEW s \in Sessions, Commit(s)
    PROVE  AnswerInv'
<1> DEFINE c == call[s]
<1>1. /\ DraftWith(s, {DebitRow(s), CreditRow(s)}, 2)
  BY DEF IInv, DraftInv, Commit
<1>2. /\ c.rrn \notin RrnsIn(transactions)
      /\ transactions' = transactions \cup {TransactionRow(c)}
      /\ entries' = entries \cup {DebitRow(s), CreditRow(s)}
      /\ resets' = resets
  BY <1>1 DEF DraftWith, Commit
<1>3. /\ result'[s].status = "recorded" /\ result'[s].call = c /\ result'[s].resets = resets
      /\ \A u \in Sessions : u # s => result'[u] = result[u]
  BY DEF Commit, Finish, IInv, TypeOK
<1>4. /\ DebitRow(s).rrn = c.rrn /\ DebitRow(s).amount = c.amount
      /\ DebitRow(s).type = "debit" /\ DebitRow(s).account = c.debit
      /\ CreditRow(s).rrn = c.rrn /\ CreditRow(s).amount = c.amount
      /\ CreditRow(s).type = "credit" /\ CreditRow(s).account = c.credit
  BY DEF DebitRow, CreditRow, EntryRow
<1> HIDE DEF c
<1>5. \A u \in Sessions : result'[u].resets <= resets'
  BY <1>2, <1>3, ResetsAreNumbers DEF AnswerInv, IInv
<1>6. ASSUME NEW u \in Sessions, u # s, NEW status
      PROVE  Told(u, status)' <=> Told(u, status)
  BY <1>2, <1>3, <1>6 DEF Told
<1>7. ASSUME NEW u \in Sessions, u # s, Told(u, "recorded")
      PROVE  /\ TransactionRow(result[u].call) \in transactions
             /\ \A side \in {<<"debit", result[u].call.debit>>, <<"credit", result[u].call.credit>>} :
                   \E e \in entries : /\ e.rrn = result[u].call.rrn
                                      /\ e.amount = result[u].call.amount
                                      /\ <<e.type, e.account>> = side
  BY <1>7 DEF AnswerInv, ToldIsTrue
<1>8. ASSUME NEW u \in Sessions, u # s, Told(u, "already_recorded")
      PROVE  result[u].call.rrn \in RrnsIn(transactions)
  BY <1>8 DEF AnswerInv, ToldIsTrue
<1>9. ToldIsTrue'
  <2> SUFFICES ASSUME NEW u \in Sessions
               PROVE  /\ Told(u, "recorded")' =>
                            /\ TransactionRow(result'[u].call) \in transactions'
                            /\ \A side \in {<<"debit", result'[u].call.debit>>,
                                            <<"credit", result'[u].call.credit>>} :
                                  \E e \in entries' :
                                     /\ e.rrn = result'[u].call.rrn
                                     /\ e.amount = result'[u].call.amount
                                     /\ <<e.type, e.account>> = side
                      /\ Told(u, "already_recorded")'
                            => result'[u].call.rrn \in RrnsIn(transactions')
    BY DEF ToldIsTrue, TransactionRow, RrnsIn
  <2>1. CASE u = s
    <3>1. ~Told(u, "already_recorded")'
      BY <1>3, <2>1 DEF Told
    <3>2. \A side \in {<<"debit", c.debit>>, <<"credit", c.credit>>} :
              \E e \in {DebitRow(s), CreditRow(s)} :
                  /\ e.rrn = c.rrn /\ e.amount = c.amount /\ <<e.type, e.account>> = side
      BY <1>4
    <3> QED BY <1>2, <1>3, <2>1, <3>1, <3>2
  <2>2. CASE u # s
    <3>1. RrnsIn(transactions) \subseteq RrnsIn(transactions')
      BY <1>2 DEF RrnsIn
    <3>2. result'[u] = result[u]
      BY <1>3, <2>2
    <3> QED BY <1>2, <1>6, <1>7, <1>8, <2>2, <3>1, <3>2
  <2> QED BY <2>1, <2>2
<1>10. ASSUME NEW u \in Sessions, u # s, Told(u, "recorded")
       PROVE  result[u].call.rrn # c.rrn
  <2>1. TransactionRow(result[u].call).rrn \in RrnsIn(transactions)
    BY <1>7, <1>10 DEF RrnsIn
  <2> QED BY <1>2, <2>1 DEF TransactionRow
<1>11. ASSUME NEW u \in Sessions, NEW v \in Sessions, Told(u, "recorded")', Told(v, "recorded")',
              result'[u].call.rrn = result'[v].call.rrn
       PROVE  u = v
  <2>1. CASE u # s /\ v # s
    BY <1>3, <1>6, <1>11, <2>1 DEF AnswerInv, OneRecorder
  <2>2. CASE u = s /\ v # s
    BY <1>3, <1>6, <1>10, <1>11, <2>2
  <2>3. CASE u # s /\ v = s
    BY <1>3, <1>6, <1>10, <1>11, <2>3
  <2> QED BY <2>1, <2>2, <2>3
<1> QED BY <1>5, <1>9, <1>11 DEF AnswerInv, OneRecorder

LEMMA AnswersPreserved == IInv /\ AnswerInv /\ [Next]_vars => AnswerInv'
<1> SUFFICES ASSUME IInv, AnswerInv, [Next]_vars PROVE AnswerInv'
  OBVIOUS
<1> USE DEF ledgerVars
<1>0. TypeOK /\ result \in [Sessions -> [status : Answer, call : Calls, resets : Nat]]
  BY DEF IInv, TypeOK
<1>1. ASSUME UNCHANGED <<transactions, entries, result, resets>> PROVE AnswerInv'
  BY <1>0, <1>1, GrowingKeepsAnswers
<1>2. ASSUME NEW s \in Sessions, SessionStep(s) PROVE AnswerInv'
  <2>1. CASE DuplicateRrn(s)
    <3>1. /\ call[s].rrn \in RrnsIn(transactions)
          /\ UNCHANGED <<transactions, entries, resets>>
          /\ result' = [result EXCEPT ![s] =
                 [status |-> "already_recorded", call |-> call[s], resets |-> resets]]
      BY <2>1 DEF DuplicateRrn, Finish
    <3>2. /\ result'[s] = [status |-> "already_recorded", call |-> call[s], resets |-> resets]
          /\ \A u \in Sessions : u # s => result'[u] = result[u]
      BY <1>0, <3>1
    <3>3. \A u \in Sessions : result'[u].resets <= resets'
      BY <1>0, <3>1, <3>2, ResetsAreNumbers DEF AnswerInv
    <3>4. \A u \in Sessions : Told(u, "recorded")' => u # s /\ Told(u, "recorded")
      BY <3>1, <3>2 DEF Told
    <3>5. \A u \in Sessions : u # s /\ Told(u, "already_recorded")' => Told(u, "already_recorded")
      BY <3>1, <3>2 DEF Told
    <3>6. OneRecorder'
      BY <3>2, <3>4 DEF AnswerInv, OneRecorder
    <3>7. ToldIsTrue'
      <4> SUFFICES ASSUME NEW u \in Sessions
                   PROVE  /\ Told(u, "recorded")' =>
                                /\ TransactionRow(result'[u].call) \in transactions
                                /\ \A side \in {<<"debit", result'[u].call.debit>>,
                                                <<"credit", result'[u].call.credit>>} :
                                      \E e \in entries :
                                         /\ e.rrn = result'[u].call.rrn
                                         /\ e.amount = result'[u].call.amount
                                         /\ <<e.type, e.account>> = side
                          /\ Told(u, "already_recorded")'
                                => result'[u].call.rrn \in RrnsIn(transactions)
        BY <3>1 DEF ToldIsTrue, TransactionRow, RrnsIn
      <4>1. CASE u = s
        BY <3>1, <3>2, <3>4, <4>1
      <4>2. CASE u # s
        BY <3>2, <3>4, <3>5, <4>2 DEF AnswerInv, ToldIsTrue
      <4> QED BY <4>1, <4>2
    <3> QED BY <3>3, <3>6, <3>7 DEF AnswerInv
  <2>2. CASE Commit(s)
    BY <2>2, CommitTellsTheTruth
  <2>3. CASE CommitReset(s)
    <3>1. /\ resets' = resets + 1
          /\ \A u \in Sessions : result'[u] = result[u] \/ result'[u].resets = resets
      BY <1>0, <2>3 DEF CommitReset, Finish
    <3>2. \A u \in Sessions : result'[u].resets <= resets
      BY <1>0, <3>1, ResetsAreNumbers DEF AnswerInv
    <3>3. \A u \in Sessions : result'[u].resets <= resets' /\ result'[u].resets # resets'
      <4>1. resets \in Nat
        BY <1>0, ResetsAreNumbers
      <4> SUFFICES ASSUME NEW u \in Sessions
                   PROVE  result'[u].resets <= resets' /\ result'[u].resets # resets'
        OBVIOUS
      <4>2. result'[u].resets \in Nat /\ result'[u].resets <= resets
        BY <1>0, <3>1, <3>2, ResetsAreNumbers
      <4> QED BY <3>1, <4>1, <4>2
    <3> QED BY <3>3 DEF AnswerInv, ToldIsTrue, OneRecorder, Told
  <2>4. CASE Locked(s) \/ ForeignKeyError(s) \/ CommitFails(s)
    <3>1. /\ UNCHANGED <<transactions, entries, resets>>
          /\ \E status \in {"locked", "fk_error"} :
                result' = [result EXCEPT ![s] =
                    [status |-> status, call |-> call[s], resets |-> resets]]
      BY <2>4 DEF Locked, ForeignKeyError, CommitFails, Finish
    <3>2. \A u \in Sessions : \/ result'[u] = result[u]
                              \/ /\ result'[u].status \notin {"recorded", "already_recorded"}
                                 /\ result'[u].resets = resets
      BY <1>0, <3>1
    <3> QED BY <1>0, <3>1, <3>2, GrowingKeepsAnswers
  <2> QED
    BY <1>1, <1>2, <2>1, <2>2, <2>3, <2>4
       DEF SessionStep, BeginRecord, InsertTransaction, InsertDebit, InsertCredit, InsertEntry,
           BeginReset, DeleteEntries, DeleteTransactions, DeleteSequence, GoTo
<1>3. ASSUME NEW a \in Accounts, Register(a) PROVE AnswerInv'
  BY <1>1, <1>3 DEF Register, RegisterAccount, dbVars
<1>4. CASE Crash
  <2>1. \A u \in Sessions : \/ result'[u] = result[u]
                            \/ /\ result'[u].status \notin {"recorded", "already_recorded"}
                               /\ result'[u].resets = resets
    BY <1>0, <1>4 DEF Crash
  <2> QED BY <1>0, <1>4, <2>1, GrowingKeepsAnswers DEF Crash
<1>5. CASE UNCHANGED vars
  BY <1>1, <1>5 DEF vars, dbVars
<1> QED BY <1>2, <1>3, <1>4, <1>5 DEF Next

LEMMA AnswersHold == Spec => []AnswerInv
<1>1. Init => AnswerInv
  <2> SUFFICES ASSUME Init PROVE AnswerInv
    OBVIOUS
  <2>1. \A s \in Sessions : result[s].status = "none" /\ result[s].resets = 0
    BY DEF Init
  <2> QED BY <2>1 DEF Init, AnswerInv, ToldIsTrue, OneRecorder, Told
<1> QED BY <1>1, AnswersPreserved, Invariance, PTL DEF Spec

\* What record_purchase answers stays true until a reset, for any number of sessions:
\* "recorded" means the caller's own row and both its postings, "already_recorded"
\* that the rrn is there, and a foreign key failure is mistaken for neither.
THEOREM AnswersAreTrue == Spec => []ToldIsTrue
<1>1. AnswerInv => ToldIsTrue
  BY DEF AnswerInv
<1> QED BY <1>1, AnswersHold, PTL

\* Of any number of sessions that race with one rrn at most one is told "recorded".
THEOREM OneIsToldRecorded == Spec => []OneRecorder
<1>1. AnswerInv => OneRecorder
  BY DEF AnswerInv
<1> QED BY <1>1, AnswersHold, PTL
=============================================================================
