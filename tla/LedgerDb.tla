------------------------------ MODULE LedgerDb ------------------------------
(***************************************************************************)
(* The ledger as sessions on one SQLite file.  record_purchase() is three  *)
(* INSERTs inside "with conn", reset_ledger() is three DELETEs; each       *)
(* statement is a step here, other sessions run between the steps, and the *)
(* process may die between any two of them.  SQLite itself is external: it *)
(* lets one session write at a time, shows the others the committed image, *)
(* and drops an uncommitted image when its session fails.                  *)
(***************************************************************************)
EXTENDS Ledger

CONSTANTS
    Sessions,    \* connections of concurrent request handlers
    NoSession,   \* no session holds the write lock
    Calls,       \* argument lists of record_purchase
    MaxResets    \* a reset is called only while fewer have committed (bound)

ASSUME SessionAssumption == NoSession \notin Sessions
ASSUME CallsAssumption ==
    Calls \subseteq [rrn : Rrns, debit : Accounts, credit : Accounts, amount : Amounts]
ASSUME ResetsAssumption == MaxResets \in Nat

VARIABLES
    writer,   \* the session holding SQLite's write lock
    draft,    \* the writer's uncommitted image of the two tables
    pc,       \* next statement of each session
    call,     \* arguments of each session's record_purchase call
    result,   \* what each session's last call returned or raised, the call,
              \* and the resets committed by then
    resets    \* resets committed so far

dbVars == <<writer, draft, pc, call, result, resets>>
vars == <<ledgerVars, dbVars>>

-----------------------------------------------------------------------------
(* Types *)

Image == [transactions : SUBSET Transaction, entries : SUBSET Entry, lastId : Nat]

Tables(txns, rows, id) == [transactions |-> txns, entries |-> rows, lastId |-> id]

Committed == Tables(transactions, entries, lastId)

Writing == {"insert_debit", "insert_credit", "commit",
            "delete_transactions", "delete_sequence", "commit_reset"}

Answer == {"none", "recorded", "already_recorded", "fk_error", "locked", "lost", "reset"}

TypeOK ==
    /\ LedgerTypeOK
    /\ writer \in Sessions \cup {NoSession}
    /\ draft \in Image
    /\ pc \in [Sessions -> Writing \cup {"idle", "insert_transaction", "delete_entries"}]
    /\ call \in [Sessions -> Calls]
    /\ result \in [Sessions -> [status : Answer, call : Calls, resets : Nat]]
    /\ resets \in Nat

Init ==
    /\ LedgerInit
    /\ writer = NoSession
    /\ draft = Committed
    /\ pc = [s \in Sessions |-> "idle"]
    /\ call \in {[s \in Sessions |-> c] : c \in Calls}
    /\ result = [s \in Sessions |-> [status |-> "none", call |-> call[s], resets |-> 0]]
    /\ resets = 0

-----------------------------------------------------------------------------
(* Steps of a session *)

Finish(s, status) ==
    /\ pc' = [pc EXCEPT ![s] = "idle"]
    /\ result' = [result EXCEPT ![s] =
                     [status |-> status, call |-> call[s], resets |-> resets]]

GoTo(s, label) ==
    /\ pc' = [pc EXCEPT ![s] = label]
    /\ UNCHANGED result

\* A handler calls record_purchase(conn, rrn, debit, credit, amount).
BeginRecord(s, c) ==
    /\ pc[s] = "idle"
    /\ call' = [call EXCEPT ![s] = c]
    /\ GoTo(s, "insert_transaction")
    /\ UNCHANGED <<ledgerVars, writer, draft, resets>>

TransactionRow(c) == [rrn |-> c.rrn, amount |-> c.amount]

\* Mutant: a transactions table whose rrn is not a PRIMARY KEY.
MutNoPrimaryKey(s) ==
    /\ pc[s] = "insert_transaction"
    /\ writer = NoSession
    /\ writer' = s
    /\ draft' = Tables(transactions \cup {TransactionRow(call[s])}, entries, lastId)
    /\ GoTo(s, "insert_debit")
    /\ UNCHANGED <<ledgerVars, call, resets>>

\* INSERT INTO transactions on a fresh rrn: takes the write lock.
InsertTransaction(s) ==
    /\ pc[s] = "insert_transaction"
    /\ writer = NoSession
    /\ call[s].rrn \notin RrnsIn(transactions)
    /\ writer' = s
    /\ draft' = Tables(transactions \cup {TransactionRow(call[s])}, entries, lastId)
    /\ GoTo(s, "insert_debit")
    /\ UNCHANGED <<ledgerVars, call, resets>>

\* The same INSERT on a recorded rrn: IntegrityError, answered as
\* already_recorded with nothing applied.
DuplicateRrn(s) ==
    /\ pc[s] = "insert_transaction"
    /\ writer = NoSession
    /\ call[s].rrn \in RrnsIn(transactions)
    /\ Finish(s, "already_recorded")
    /\ UNCHANGED <<ledgerVars, writer, draft, call, resets>>

\* The write lock was not free within SQLite's busy timeout: OperationalError
\* leaves record_purchase and the handler.
Locked(s) ==
    /\ pc[s] \in {"insert_transaction", "delete_entries"}
    /\ writer \notin {s, NoSession}
    /\ Finish(s, "locked")
    /\ UNCHANGED <<ledgerVars, writer, draft, call, resets>>

\* Mutant: the id is taken before the AUTOINCREMENT counter moves.
MutIdOffByOne(s, at, type, account, next) ==
    /\ pc[s] = at
    /\ account \in accounts
    /\ LET row == EntryRow(draft.lastId, call[s].rrn, account, type, call[s].amount)
       IN  draft' = Tables(draft.transactions, draft.entries \cup {row}, draft.lastId + 1)
    /\ GoTo(s, next)
    /\ UNCHANGED <<ledgerVars, writer, call, resets>>

\* INSERT INTO ledger_entries, debit or credit: adds the row to the draft.
InsertEntry(s, at, type, account, next) ==
    /\ pc[s] = at
    /\ account \in accounts
    /\ LET row == EntryRow(draft.lastId + 1, call[s].rrn, account, type, call[s].amount)
       IN  draft' = Tables(draft.transactions, draft.entries \cup {row}, draft.lastId + 1)
    /\ GoTo(s, next)
    /\ UNCHANGED <<ledgerVars, writer, call, resets>>

\* Mutant: the credit INSERT is forgotten.
MutNoCredit(s) == InsertEntry(s, "insert_debit", "debit", call[s].debit, "commit")

InsertDebit(s) == InsertEntry(s, "insert_debit", "debit", call[s].debit, "insert_credit")

InsertCredit(s) == InsertEntry(s, "insert_credit", "credit", call[s].credit, "commit")

\* Mutant: every IntegrityError is taken for a duplicate rrn.
MutForeignKeySwallowed(s) ==
    /\ \/ pc[s] = "insert_debit" /\ call[s].debit \notin accounts
       \/ pc[s] = "insert_credit" /\ call[s].credit \notin accounts
    /\ writer' = NoSession
    /\ draft' = Committed
    /\ Finish(s, "already_recorded")
    /\ UNCHANGED <<ledgerVars, call, resets>>

\* Mutant: the error leaves without rolling back, the write lock stays taken.
MutNoRollback(s) ==
    /\ \/ pc[s] = "insert_debit" /\ call[s].debit \notin accounts
       \/ pc[s] = "insert_credit" /\ call[s].credit \notin accounts
    /\ Finish(s, "fk_error")
    /\ UNCHANGED <<ledgerVars, writer, draft, call, resets>>

\* FOREIGN KEY constraint failed: "with conn" rolls back, the error is re-raised.
ForeignKeyError(s) ==
    /\ \/ pc[s] = "insert_debit" /\ call[s].debit \notin accounts
       \/ pc[s] = "insert_credit" /\ call[s].credit \notin accounts
    /\ writer' = NoSession
    /\ draft' = Committed
    /\ Finish(s, "fk_error")
    /\ UNCHANGED <<ledgerVars, call, resets>>

\* Leaving "with conn" commits the draft.
Commit(s) ==
    /\ pc[s] = "commit"
    /\ transactions' = draft.transactions
    /\ entries' = draft.entries
    /\ lastId' = draft.lastId
    /\ writer' = NoSession
    /\ Finish(s, "recorded")
    /\ UNCHANGED <<accounts, draft, call, resets>>

\* Mutant: a failed COMMIT is not noticed, the caller is told "recorded".
MutCommitUnchecked(s) ==
    /\ pc[s] \in {"commit", "commit_reset"}
    /\ writer' = NoSession
    /\ draft' = Committed
    /\ Finish(s, IF pc[s] = "commit" THEN "recorded" ELSE "reset")
    /\ UNCHANGED <<ledgerVars, call, resets>>

\* COMMIT itself fails: a reader keeps its SHARED lock longer than the busy
\* timeout, or the disk is full.  Leaving "with conn" then rolls back, for a
\* purchase as for a reset, and the error leaves the handler.
CommitFails(s) ==
    /\ pc[s] \in {"commit", "commit_reset"}
    /\ writer' = NoSession
    /\ draft' = Committed
    /\ Finish(s, "locked")
    /\ UNCHANGED <<ledgerVars, call, resets>>

-----------------------------------------------------------------------------
(* POST /ledger/reset *)

BeginReset(s) ==
    /\ pc[s] = "idle"
    /\ resets < MaxResets
    /\ GoTo(s, "delete_entries")
    /\ UNCHANGED <<ledgerVars, writer, draft, call, resets>>

\* Mutant: a reset that only empties ledger_entries.
MutResetForgetsTransactions(s) ==
    /\ pc[s] = "delete_entries"
    /\ writer = NoSession
    /\ writer' = s
    /\ draft' = Tables(transactions, {}, lastId)
    /\ GoTo(s, "commit_reset")
    /\ UNCHANGED <<ledgerVars, call, resets>>

DeleteEntries(s) ==
    /\ pc[s] = "delete_entries"
    /\ writer = NoSession
    /\ writer' = s
    /\ draft' = Tables(transactions, {}, lastId)
    /\ GoTo(s, "delete_transactions")
    /\ UNCHANGED <<ledgerVars, call, resets>>

DeleteTransactions(s) ==
    /\ pc[s] = "delete_transactions"
    /\ draft' = Tables({}, draft.entries, draft.lastId)
    /\ GoTo(s, "delete_sequence")
    /\ UNCHANGED <<ledgerVars, writer, call, resets>>

DeleteSequence(s) ==
    /\ pc[s] = "delete_sequence"
    /\ draft' = Tables(draft.transactions, draft.entries, 0)
    /\ GoTo(s, "commit_reset")
    /\ UNCHANGED <<ledgerVars, writer, call, resets>>

CommitReset(s) ==
    /\ pc[s] = "commit_reset"
    /\ transactions' = draft.transactions
    /\ entries' = draft.entries
    /\ lastId' = draft.lastId
    /\ writer' = NoSession
    /\ resets' = resets + 1
    /\ Finish(s, "reset")
    /\ UNCHANGED <<accounts, draft, call>>

-----------------------------------------------------------------------------
(* The rest of the world *)

\* POST /users/register, a transaction of its own that waits for the lock.
Register(a) ==
    /\ writer = NoSession
    /\ RegisterAccount(a)
    /\ UNCHANGED dbVars

\* The process dies: no session survives, the rollback journal undoes the
\* draft.  Answers not yet delivered are lost.
Crash ==
    /\ \E s \in Sessions : pc[s] # "idle"
    /\ writer' = NoSession
    /\ draft' = Committed
    /\ pc' = [s \in Sessions |-> "idle"]
    /\ result' = [s \in Sessions |-> IF pc[s] = "idle" THEN result[s]
                                     ELSE [status |-> "lost", call |-> call[s],
                                           resets |-> resets]]
    /\ UNCHANGED <<ledgerVars, call, resets>>

SessionStep(s) ==
    \/ \E c \in Calls : BeginRecord(s, c)
    \/ InsertTransaction(s) \/ DuplicateRrn(s) \/ Locked(s)
    \/ InsertDebit(s) \/ InsertCredit(s) \/ ForeignKeyError(s)
    \/ Commit(s) \/ CommitFails(s)
    \/ BeginReset(s) \/ DeleteEntries(s) \/ DeleteTransactions(s)
    \/ DeleteSequence(s) \/ CommitReset(s)

Next ==
    \/ \E s \in Sessions : SessionStep(s)
    \/ \E a \in Accounts : Register(a)
    \/ Crash

\* A thread that is inside record_purchase or reset_ledger keeps running.
Advance(s) == pc[s] # "idle" /\ SessionStep(s)

Spec == Init /\ [][Next]_vars

FairSpec == Spec /\ \A s \in Sessions : WF_vars(Advance(s))

-----------------------------------------------------------------------------
(* Properties *)

\* ledger/service.py: there is no in-between state.  Whatever statements,
\* commits, rollbacks and crashes come between, the committed tables change
\* by whole purchases, whole resets and whole registrations.
LedgerPromise == LedgerSpec

\* What record_purchase answered about the current ledger (no reset since).
Told(s, status) == result[s].status = status /\ result[s].resets = resets

\* Both answers stay true until a reset.  "recorded": the caller's own row and
\* its two postings, on its accounts and for its amount, are in the ledger.
\* "already_recorded": the ledger has that rrn, a foreign key failure is never
\* mistaken for it (the docstring of record_purchase).
ToldIsTrue ==
    \A s \in Sessions : LET c == result[s].call IN
        /\ Told(s, "recorded") =>
              /\ TransactionRow(c) \in transactions
              /\ \A side \in {<<"debit", c.debit>>, <<"credit", c.credit>>} :
                    \E e \in entries : /\ e.rrn = c.rrn /\ e.amount = c.amount
                                       /\ <<e.type, e.account>> = side
        /\ Told(s, "already_recorded") => c.rrn \in RrnsIn(transactions)

\* Of all sessions that race with one rrn at most one is told "recorded".
OneRecorder ==
    \A s, u \in Sessions :
        /\ Told(s, "recorded") /\ Told(u, "recorded")
        /\ result[s].call.rrn = result[u].call.rrn
        => s = u

\* A session inside record_purchase or reset_ledger always gets out: the
\* single write lock is given back on every path, errors and crashes included.
EveryCallReturns == \A s \in Sessions : pc[s] # "idle" ~> pc[s] = "idle"
=============================================================================
