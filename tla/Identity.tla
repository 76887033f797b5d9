------------------------------ MODULE Identity ------------------------------
(***************************************************************************)
(* Who may pay: registration, the one-time password, login, tokens, and    *)
(* the checks at the head of each payment.  Every replica has a database   *)
(* of its own, all have one JWT secret.  A registration makes one user,    *)
(* one account and one card in one transaction and none of them changes    *)
(* afterwards but the password, so they are one row here; the account has  *)
(* the id of its user.  Hashes are the passwords they were made from.      *)
(***************************************************************************)
EXTENDS Integers, FiniteSets

CONSTANTS
    Replicas, Cnics, Cards, Passwords,
    Ids,         \* usr_... and acc_... a registration may draw
    Legacy,      \* rows from before password_hash was added to the schema
    NoPassword,  \* what the migration puts there: ''
    Callers,     \* requests that take several steps
    NoRow, NoToken,
    Lifetime,    \* ACCESS_TOKEN_LIFETIME_SECONDS
    MaxTime, MaxTokens, MaxLosses  \* bounds

ASSUME NoPasswordAssumption == NoPassword \notin Passwords
ASSUME TimesAssumption == {Lifetime, MaxTime, MaxTokens, MaxLosses} \subseteq Nat

Rows == [id : Ids, cnic : Cnics, card : Cards, password : Passwords \cup {NoPassword}]

\* users.user_id and cards.card_number are PRIMARY KEYs, users.cnic is UNIQUE.
SameKey(v, w) == v.id = w.id \/ v.cnic = w.cnic \/ v.card = w.card

ASSUME LegacyAssumption ==
    /\ \A w \in Legacy : w \in Rows /\ w.password = NoPassword
    /\ \A v, w \in Legacy : SameKey(v, w) => v = w

VARIABLES
    db,      \* replica -> its users, accounts and cards
    epoch,   \* replica -> how often it lost its database
    drawn,   \* ids that were given out
    tokens,  \* tokens that were issued
    now,
    call,    \* caller -> its request and where that is
    told,    \* passwords whose owner was told success
    raced    \* users for whom two set_password() calls overlapped

vars == <<db, epoch, drawn, tokens, now, call, told, raced>>

-----------------------------------------------------------------------------
(* Types *)

\* sub and exp are the claims; issuer, epoch and cnic say who logged in where.
Tokens == [sub : Ids, exp : Nat, issuer : Replicas, epoch : Nat, cnic : Cnics]

Answers == {"idle", "401", "403", "404", "debits"}

Calls == [place : Answers \cup {"known", "writing"}, at : Replicas,
          token : Tokens \cup {NoToken}, password : Passwords \cup {NoPassword},
          row : Rows \cup {NoRow}]

Call(place, d, token, password, row) ==
    [place |-> place, at |-> d, token |-> token, password |-> password, row |-> row]

Told(d, cnic, password) ==
    [at |-> d, epoch |-> epoch[d], cnic |-> cnic, password |-> password]

TypeOK ==
    /\ db \in [Replicas -> SUBSET Rows]
    /\ epoch \in [Replicas -> 0..MaxLosses]
    /\ drawn \subseteq Ids
    /\ tokens \subseteq Tokens
    /\ now \in 0..MaxTime
    /\ call \in [Callers -> Calls]
    /\ told \subseteq [at : Replicas, epoch : Nat, cnic : Cnics, password : Passwords]
    /\ raced \subseteq Ids

\* One replica started on a database from before passwords, or none did.
Init ==
    /\ \E old \in SUBSET Replicas :
          /\ Cardinality(old) <= 1
          /\ db = [d \in Replicas |-> IF d \in old THEN Legacy ELSE {}]
    /\ epoch = [d \in Replicas |-> 0]
    /\ drawn = {w.id : w \in Legacy}
    /\ tokens = {}
    /\ now = 0
    /\ \E d \in Replicas :
          call = [c \in Callers |-> Call("idle", d, NoToken, NoPassword, NoRow)]
    /\ told = {}
    /\ raced = {}

-----------------------------------------------------------------------------
(* Registration and passwords *)

Become(c, new) == call' = [call EXCEPT ![c] = new]

\* Mutant: ids are counted up in each database.
MutCountsIds(d, id) == \A w \in db[d] : w.id # id

\* uuid4(): no id is drawn twice, on no replica.
FreshId(d, id) == id \notin drawn

Row(id, cnic, card, password) ==
    [id |-> id, cnic |-> cnic, card |-> card, password |-> password]

\* Three INSERTs in one transaction; a CNIC or card the database has already
\* is an IntegrityError that rolls all of them back.
Register(d, id, cnic, card, password) ==
    /\ FreshId(d, id)
    /\ \A w \in db[d] : w.cnic # cnic /\ w.card # card
    /\ db' = [db EXCEPT ![d] = @ \cup {Row(id, cnic, card, password)}]
    /\ drawn' = drawn \cup {id}
    /\ told' = told \cup {Told(d, cnic, password)}
    /\ UNCHANGED <<epoch, tokens, now, call, raced>>

Writing(d, w) == {c \in Callers : /\ call[c].place = "writing"
                                  /\ call[c].at = d /\ call[c].row.id = w.id}

\* Mutant: it sets a password whether or not there is one.
MutSetsAnyway(c, d, w, password) ==
    /\ call[c].place \in Answers
    /\ w \in db[d]
    /\ Become(c, Call("writing", d, NoToken, password, w))
    /\ raced' = IF Writing(d, w) = {} THEN raced ELSE raced \cup {w.id}
    /\ UNCHANGED <<db, epoch, drawn, tokens, now, told>>

\* set_password() finds the user without a password ...
ReadHash(c, d, w, password) ==
    /\ call[c].place \in Answers
    /\ w \in db[d]
    /\ w.password = NoPassword
    /\ Become(c, Call("writing", d, NoToken, password, w))
    /\ raced' = IF Writing(d, w) = {} THEN raced ELSE raced \cup {w.id}
    /\ UNCHANGED <<db, epoch, drawn, tokens, now, told>>

\* ... and updates the row by its id, whatever the hash is by now.
WriteHash(c) ==
    LET k == call[c] IN
    /\ k.place = "writing"
    /\ db' = [db EXCEPT ![k.at] = {IF w.id = k.row.id THEN [w EXCEPT !.password = k.password]
                                                       ELSE w : w \in @}]
    /\ told' = told \cup {Told(k.at, k.row.cnic, k.password)}
    /\ Become(c, Call("idle", k.at, NoToken, NoPassword, NoRow))
    /\ UNCHANGED <<epoch, drawn, tokens, now, raced>>

\* verify_password(): the migrated '' is never a valid password.
VerifyPassword(password, stored) == stored # NoPassword /\ stored = password

Login(d, w, password) ==
    /\ w \in db[d]
    /\ VerifyPassword(password, w.password)
    /\ tokens' = tokens \cup {[sub |-> w.id, exp |-> now + Lifetime, issuer |-> d,
                               epoch |-> epoch[d], cnic |-> w.cnic]}
    /\ Cardinality(tokens') <= MaxTokens
    /\ UNCHANGED <<db, epoch, drawn, now, call, told, raced>>

-----------------------------------------------------------------------------
(* The head of a payment *)

Expired(token) == token.exp < now

\* get_current_user(): signed, not expired, and a user of this replica.
GetCurrentUser(c, d, token) ==
    /\ call[c].place \in Answers
    /\ Become(c, Call(IF Expired(token) \/ \A w \in db[d] : w.id # token.sub
                      THEN "401" ELSE "known", d, token, NoPassword, NoRow))
    /\ UNCHANGED <<db, epoch, drawn, tokens, now, told, raced>>

\* resolve_account(): a card first, then an account id.  Card numbers and
\* account ids are taken to be different strings.
ResolveAccount(d, identifier) ==
    LET byCard == {w \in db[d] : w.card = identifier} IN
    IF byCard # {} THEN byCard ELSE {w \in db[d] : w.id = identifier}

\* Mutant: a valid token is taken for the right to debit.
MutAnyAccount(w, user) == TRUE

\* _assert_owns_account()
OwnsAccount(w, user) == w.id = user

\* The pre-check of purchase() and transfer(), and of check_balance().
Authorise(c, identifier) ==
    LET k == call[c]  found == ResolveAccount(k.at, identifier) IN
    /\ k.place = "known"
    /\ IF found = {} THEN Become(c, Call("404", k.at, k.token, NoPassword, NoRow))
       ELSE \E w \in found :
               Become(c, Call(IF OwnsAccount(w, k.token.sub) THEN "debits" ELSE "403",
                              k.at, k.token, NoPassword, w))
    /\ UNCHANGED <<db, epoch, drawn, tokens, now, told, raced>>

-----------------------------------------------------------------------------

\* The container is replaced: api/ledger.db is in its file system, not on a
\* volume, and the requests it was serving are gone as well.
LoseDb(d) ==
    /\ epoch[d] < MaxLosses
    /\ db' = [db EXCEPT ![d] = {}]
    /\ epoch' = [epoch EXCEPT ![d] = @ + 1]
    /\ call' = [c \in Callers |->
                   IF call[c].at = d /\ call[c].place \notin Answers
                   THEN Call("idle", d, NoToken, NoPassword, NoRow) ELSE call[c]]
    /\ UNCHANGED <<drawn, tokens, now, told, raced>>

Tick ==
    /\ now < MaxTime
    /\ now' = now + 1
    /\ UNCHANGED <<db, epoch, drawn, tokens, call, told, raced>>

Next ==
    \/ \E d \in Replicas :
          \/ \E id \in Ids, cnic \in Cnics, card \in Cards, password \in Passwords :
                Register(d, id, cnic, card, password)
          \/ \E w \in db[d], password \in Passwords :
                \/ Login(d, w, password)
                \/ \E c \in Callers : ReadHash(c, d, w, password)
          \/ \E c \in Callers, token \in tokens : GetCurrentUser(c, d, token)
          \/ LoseDb(d)
    \/ \E c \in Callers :
          \/ WriteHash(c)
          \/ \E identifier \in Cards \cup Ids : Authorise(c, identifier)
    \/ Tick

Spec == Init /\ [][Next]_vars

-----------------------------------------------------------------------------
(* Properties *)

\* "deliberately only works once, for accounts that have never had a real
\* password": who was told success logs in with that password as long as the
\* database is there, unless two bootstraps of one user overlapped.
PasswordIsKept ==
    \A t \in told : t.epoch = epoch[t.at] =>
        \E w \in db[t.at] :
            w.cnic = t.cnic /\ (w.password = t.password \/ w.id \in raced)

\* Whoever is let through debits the account of the person that logged in for
\* the token, a 403 is for the account of another; and a token is refused only
\* when it expired, on a replica that did not issue it, or after that replica
\* lost its database.
TokenIsItsUser ==
    \A c \in Callers : LET k == call[c] IN
        /\ k.place = "debits" => k.row.cnic = k.token.cnic
        /\ k.place = "403" => k.row.cnic # k.token.cnic
        /\ k.place = "401" => \/ Expired(k.token)
                              \/ k.token.issuer # k.at
                              \/ k.token.epoch # epoch[k.at]
=============================================================================
