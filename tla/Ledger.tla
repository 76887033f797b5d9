------------------------------- MODULE Ledger -------------------------------
(***************************************************************************)
(* What the ledger promises its callers: ledger/service.py seen from the   *)
(* outside, where a purchase is one indivisible change of the database.    *)
(* LedgerDb opens that change up into the SQL statements that make it and  *)
(* is shown to implement this module.  Payment uses these operators as the *)
(* ledger its request handlers post to.                                    *)
(***************************************************************************)
EXTENDS Integers, FiniteSets

CONSTANTS
    Accounts,   \* wallet ids a registration may create
    Rrns,       \* retrieval reference numbers
    Amounts     \* amounts in cents; the code rounds, so 0 is one of them

ASSUME AmountsAssumption == Amounts \subseteq Nat

VARIABLES
    accounts,      \* ids in the accounts table
    transactions,  \* rows of the transactions table, without created_at
    entries,       \* rows of the ledger_entries table
    lastId         \* the AUTOINCREMENT counter of ledger_entries

ledgerVars == <<accounts, transactions, entries, lastId>>

-----------------------------------------------------------------------------
(* Types *)

Transaction == [rrn : Rrns, amount : Amounts]

Entry == [id : Nat \ {0}, rrn : Rrns, account : Accounts,
          type : {"debit", "credit"}, amount : Amounts]

LedgerTypeOK ==
    /\ accounts \subseteq Accounts
    /\ transactions \subseteq Transaction
    /\ entries \subseteq Entry
    /\ lastId \in Nat

LedgerInit ==
    /\ accounts = {}
    /\ transactions = {}
    /\ entries = {}
    /\ lastId = 0

-----------------------------------------------------------------------------
(* Queries *)

RrnsIn(txns) == {t.rrn : t \in txns}

EntryRow(id, r, a, type, amount) ==
    [id |-> id, rrn |-> r, account |-> a, type |-> type, amount |-> amount]

-----------------------------------------------------------------------------
(* Operations *)

\* What record_purchase answers, or the error it raises: the PRIMARY KEY on
\* rrn is hit by the first INSERT, a foreign key only by the later ones.
RecordResult(r, debit, credit) ==
    IF r \in RrnsIn(transactions) THEN "already_recorded"
    ELSE IF {debit, credit} \subseteq accounts THEN "recorded" ELSE "fk_error"

\* record_purchase: both postings or nothing.
RecordPurchase(r, debit, credit, amount) ==
    /\ accounts' = accounts
    /\ IF RecordResult(r, debit, credit) = "recorded"
       THEN /\ transactions' = transactions \cup {[rrn |-> r, amount |-> amount]}
            /\ entries' = entries \cup
                          {EntryRow(lastId + 1, r, debit, "debit", amount),
                           EntryRow(lastId + 2, r, credit, "credit", amount)}
            /\ lastId' = lastId + 2
       ELSE UNCHANGED <<transactions, entries, lastId>>

\* The database half of POST /ledger/reset.
WipeLedger ==
    /\ transactions' = {}
    /\ entries' = {}
    /\ lastId' = 0
    /\ accounts' = accounts

\* POST /users/register: identity, wallet and card in one transaction, here
\* the wallet they create.  A card or CNIC already taken answers 400.
RegisterAccount(a) ==
    /\ a \notin accounts
    /\ accounts' = accounts \cup {a}
    /\ UNCHANGED <<transactions, entries, lastId>>

LedgerNext ==
    \/ \E r \in Rrns, d, c \in Accounts, amount \in Amounts :
          RecordPurchase(r, d, c, amount)
    \/ WipeLedger
    \/ \E a \in Accounts : RegisterAccount(a)

LedgerSpec == LedgerInit /\ [][LedgerNext]_ledgerVars

-----------------------------------------------------------------------------
(* What a committed ledger looks like *)

\* A recorded rrn has one row.
RrnIsPrimaryKey ==
    \A t, u \in transactions : t.rrn = u.rrn => t = u

\* Exactly one posting of the given type, for the transaction's amount.
OnePosting(t, type) ==
    \E e \in entries :
        /\ e.rrn = t.rrn /\ e.type = type /\ e.amount = t.amount
        /\ \A f \in entries : f.rrn = t.rrn /\ f.type = type => f = e

\* Every posting belongs to a transaction and to a registered account.
NoOrphanEntries ==
    \A e \in entries : e.rrn \in RrnsIn(transactions) /\ e.account \in accounts

\* ledger/service.py promises "no in-between state": every transaction the
\* database shows has exactly its debit and its credit, and there is no
\* posting besides.
DoubleEntry ==
    /\ RrnIsPrimaryKey
    /\ \A t \in transactions : OnePosting(t, "debit") /\ OnePosting(t, "credit")
    /\ NoOrphanEntries
=============================================================================
