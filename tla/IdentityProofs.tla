--------------------------- MODULE IdentityProofs ---------------------------
(***************************************************************************)
(* For any number of replicas, persons, callers and lost databases: a      *)
(* bootstrapped password stays, and a token leads to the account of the    *)
(* person it was issued to.  Both rest on ids that are drawn once, on no   *)
(* replica again (IdInv), and on what a call may rely on between its       *)
(* steps (CallInv).                                                        *)
(***************************************************************************)
EXTENDS Identity, TLAPS

-----------------------------------------------------------------------------
(* The inductive invariant *)

\* PRIMARY KEY and UNIQUE: within one database an id or a CNIC is one row.
KeyInv == \A d \in Replicas : \A v, w \in db[d] : v.id = w.id \/ v.cnic = w.cnic => v = w

\* An id was drawn for one person, wherever it turns up.
IdInv ==
    /\ \A d \in Replicas : \A w \in db[d] : w.id \in drawn
    /\ \A t \in tokens : t.sub \in drawn
    /\ \A d, e \in Replicas : \A v \in db[d], w \in db[e] : v.id = w.id => v.cnic = w.cnic
    /\ \A t \in tokens, d \in Replicas : \A w \in db[d] : t.sub = w.id => t.cnic = w.cnic

\* A token's user is in the database it was issued from, until that is lost.
TokenInv ==
    \A t \in tokens : /\ t.epoch <= epoch[t.issuer]
                      /\ t.epoch = epoch[t.issuer] => \E w \in db[t.issuer] : w.id = t.sub

\* What a call may rely on between its steps, and what it was answered.
CallFits(c) ==
    LET k == call[c] IN
    /\ k.place \in {"known", "401", "403", "404", "debits"} => k.token \in tokens
    /\ k.place = "known" => \E w \in db[k.at] : w.id = k.token.sub
    /\ k.place = "writing" =>
          /\ k.row \in Rows /\ k.password \in Passwords
          /\ \E w \in db[k.at] : /\ w.id = k.row.id /\ w.cnic = k.row.cnic
                                 /\ w.password = NoPassword \/ w.id \in raced
    /\ k.place = "debits" => k.row.cnic = k.token.cnic
    /\ k.place = "403" => k.row.cnic # k.token.cnic
    /\ k.place = "401" => \/ Expired(k.token)
                          \/ k.token.issuer # k.at
                          \/ k.token.epoch < epoch[k.at]

CallInv == \A c \in Callers : CallFits(c)

\* Two calls about to write one row have overlapped.
RaceInv ==
    \A b, c \in Callers :
        /\ b # c /\ call[b].place = "writing" /\ call[c].place = "writing"
        /\ call[b].at = call[c].at /\ call[b].row.id = call[c].row.id
        => call[c].row.id \in raced

\* PasswordIsKept of one answer, which can only be about the present database
\* or an earlier one.
Kept(t) ==
    /\ t.epoch <= epoch[t.at]
    /\ t.epoch = epoch[t.at] =>
          \E w \in db[t.at] : w.cnic = t.cnic /\ (w.password = t.password \/ w.id \in raced)

ToldInv == \A t \in told : Kept(t)

IInv == TypeOK /\ KeyInv /\ IdInv /\ TokenInv /\ CallInv /\ RaceInv /\ ToldInv

-----------------------------------------------------------------------------
(* Types *)

LEMMA CallsAreTyped ==
    ASSUME NEW place \in Answers \cup {"known", "writing"}, NEW d \in Replicas,
           NEW token \in Tokens \cup {NoToken}, NEW password \in Passwords \cup {NoPassword},
           NEW row \in Rows \cup {NoRow}
    PROVE  Call(place, d, token, password, row) \in Calls
BY DEF Call, Calls

LEMMA InitIsTyped == Init => TypeOK
<1> SUFFICES ASSUME Init PROVE TypeOK
  OBVIOUS
<1>1. db \in [Replicas -> SUBSET Rows]
  <2>1. Legacy \subseteq Rows
    BY LegacyAssumption
  <2> QED BY <2>1 DEF Init
<1>2. call \in [Callers -> Calls]
  <2>1. PICK d \in Replicas : call = [c \in Callers |-> Call("idle", d, NoToken, NoPassword, NoRow)]
    BY DEF Init
  <2>2. Call("idle", d, NoToken, NoPassword, NoRow) \in Calls
    BY CallsAreTyped DEF Answers
  <2> QED BY <2>1, <2>2
<1>3. drawn \subseteq Ids
  BY LegacyAssumption DEF Init, Rows
<1>4. epoch \in [Replicas -> 0..MaxLosses] /\ now \in 0..MaxTime
  BY TimesAssumption DEF Init
<1> QED BY <1>1, <1>2, <1>3, <1>4 DEF Init, TypeOK

LEMMA TypePreserved == TypeOK /\ CallInv /\ [Next]_vars => TypeOK'
<1> SUFFICES ASSUME TypeOK, CallInv, [Next]_vars PROVE TypeOK'
  OBVIOUS
<1> USE DEF TypeOK
<1>a. ASSUME NEW d \in Replicas, NEW cnic \in Cnics, NEW password \in Passwords
      PROVE  Told(d, cnic, password)
                 \in [at : Replicas, epoch : Nat, cnic : Cnics, password : Passwords]
  BY TimesAssumption DEF Told
<1>b. ASSUME NEW c \in Callers, NEW new \in Calls, Become(c, new) PROVE call' \in [Callers -> Calls]
  BY <1>b DEF Become
<1>1. ASSUME NEW d \in Replicas, NEW id \in Ids, NEW cnic \in Cnics, NEW card \in Cards,
             NEW password \in Passwords, Register(d, id, cnic, card, password)
      PROVE  TypeOK'
  <2>1. Row(id, cnic, card, password) \in Rows
    BY DEF Row, Rows
  <2> QED BY <1>1, <1>a, <2>1 DEF Register
<1>2. ASSUME NEW d \in Replicas, NEW w \in db[d], NEW password \in Passwords, Login(d, w, password)
      PROVE  TypeOK'
  <2>1. [sub |-> w.id, exp |-> now + Lifetime, issuer |-> d, epoch |-> epoch[d], cnic |-> w.cnic]
            \in Tokens
    BY TimesAssumption DEF Tokens, Rows
  <2> QED BY <1>2, <2>1 DEF Login
<1>3. ASSUME NEW d \in Replicas, NEW w \in db[d], NEW password \in Passwords, NEW c \in Callers,
             ReadHash(c, d, w, password)
      PROVE  TypeOK'
  <2>1. Call("writing", d, NoToken, password, w) \in Calls
    BY CallsAreTyped
  <2>2. w.id \in Ids
    BY DEF Rows
  <2> QED BY <1>3, <1>b, <2>1, <2>2 DEF ReadHash
<1>4. ASSUME NEW d \in Replicas, NEW c \in Callers, NEW token \in tokens, GetCurrentUser(c, d, token)
      PROVE  TypeOK'
  <2>1. \A place \in {"401", "known"} : Call(place, d, token, NoPassword, NoRow) \in Calls
    BY CallsAreTyped DEF Answers
  <2> QED BY <1>4, <1>b, <2>1 DEF GetCurrentUser
<1>5. ASSUME NEW d \in Replicas, LoseDb(d) PROVE TypeOK'
  <2>1. Call("idle", d, NoToken, NoPassword, NoRow) \in Calls
    BY CallsAreTyped DEF Answers
  <2>2. epoch' \in [Replicas -> 0..MaxLosses]
    BY <1>5, TimesAssumption DEF LoseDb
  <2> QED BY <1>5, <2>1, <2>2 DEF LoseDb
<1>6. ASSUME NEW c \in Callers, WriteHash(c) PROVE TypeOK'
  <2>1. /\ call[c].at \in Replicas /\ call[c].row \in Rows /\ call[c].password \in Passwords
        /\ call[c].row.cnic \in Cnics
    BY <1>6 DEF WriteHash, CallInv, CallFits, Calls, Rows
  <2>2. Call("idle", call[c].at, NoToken, NoPassword, NoRow) \in Calls
    BY <2>1, CallsAreTyped DEF Answers
  <2>3. \A w \in Rows : [w EXCEPT !.password = call[c].password] \in Rows
    BY <2>1 DEF Rows
  <2>4. db' \in [Replicas -> SUBSET Rows]
    BY <1>6, <2>1, <2>3 DEF WriteHash
  <2> QED BY <1>6, <1>a, <1>b, <2>1, <2>2, <2>4 DEF WriteHash
<1>7. ASSUME NEW c \in Callers, NEW identifier \in Cards \cup Ids, Authorise(c, identifier)
      PROVE  TypeOK'
  <2>1. call[c].at \in Replicas /\ call[c].token \in Tokens \cup {NoToken}
    BY DEF Calls
  <2>2. ResolveAccount(call[c].at, identifier) \subseteq Rows
    BY <2>1 DEF ResolveAccount
  <2>3. PICK place \in {"404", "403", "debits"}, row \in Rows \cup {NoRow} :
            Become(c, Call(place, call[c].at, call[c].token, NoPassword, row))
    BY <1>7, <2>2 DEF Authorise
  <2>4. Call(place, call[c].at, call[c].token, NoPassword, row) \in Calls
    BY <2>1, CallsAreTyped DEF Answers
  <2> QED BY <1>7, <1>b, <2>3, <2>4 DEF Authorise
<1>8. CASE Tick
  BY <1>8, TimesAssumption DEF Tick
<1>9. CASE UNCHANGED vars
  BY <1>9 DEF vars
<1> QED BY <1>1, <1>2, <1>3, <1>4, <1>5, <1>6, <1>7, <1>8, <1>9 DEF Next

-----------------------------------------------------------------------------
(* The rest of the invariant, action by action *)

Rules == KeyInv /\ IdInv /\ TokenInv /\ CallInv /\ RaceInv /\ ToldInv

\* A call that does not move still fits, if nothing is taken from it.
LEMMA FitsStill ==
    ASSUME TypeOK, NEW c \in Callers, CallFits(c), call'[c] = call[c],
           tokens \subseteq tokens', raced \subseteq raced',
           now' \in Nat, now <= now',
           epoch' \in [Replicas -> Nat], epoch[call[c].at] <= epoch'[call[c].at],
           call[c].place = "known" =>
               \A w \in db[call[c].at] : \E v \in db'[call[c].at] : v.id = w.id,
           call[c].place = "writing" =>
               \A w \in db[call[c].at] :
                   w.id = call[c].row.id /\ (w.password = NoPassword \/ w.id \in raced) =>
                       \E v \in db'[call[c].at] : /\ v.id = w.id /\ v.cnic = w.cnic
                                                  /\ v.password = NoPassword \/ v.id \in raced'
    PROVE  CallFits(c)'
<1> DEFINE k == call[c]
<1>1. /\ k.place \in {"known", "401", "403", "404", "debits"} => k.token \in tokens'
      /\ k.place = "debits" => k.row.cnic = k.token.cnic
      /\ k.place = "403" => k.row.cnic # k.token.cnic
  BY DEF CallFits
<1>2. k.place = "401" => \/ k.token.exp < now'
                         \/ k.token.issuer # k.at
                         \/ k.token.epoch < epoch'[k.at]
  <2>1. k.place = "401" => k.token \in Tokens /\ k.at \in Replicas
    BY DEF CallFits, TypeOK, Calls
  <2>2. now \in Nat /\ epoch \in [Replicas -> Nat] /\ \A t \in Tokens : t.exp \in Nat /\ t.epoch \in Nat
    BY TimesAssumption DEF TypeOK, Tokens
  <2> QED BY <2>1, <2>2 DEF CallFits, Expired
<1>3. k.place = "known" => \E w \in db'[k.at] : w.id = k.token.sub
  BY DEF CallFits
<1>4. k.place = "writing" =>
          /\ k.row \in Rows /\ k.password \in Passwords
          /\ \E w \in db'[k.at] : /\ w.id = k.row.id /\ w.cnic = k.row.cnic
                                  /\ w.password = NoPassword \/ w.id \in raced'
  BY DEF CallFits
<1> QED BY <1>1, <1>2, <1>3, <1>4 DEF CallFits, Expired

LEMMA NumbersAreNaturals ==
    ASSUME TypeOK
    PROVE  /\ now \in Nat /\ epoch \in [Replicas -> Nat]
           /\ \A t \in tokens : /\ t.exp \in Nat /\ t.epoch \in Nat /\ t.issuer \in Replicas
           /\ \A t \in told : t.epoch \in Nat /\ t.at \in Replicas
           /\ \A c \in Callers : call[c].at \in Replicas
BY TimesAssumption DEF TypeOK, Tokens, Calls

LEMMA RegisterKeeps ==
    ASSUME TypeOK, Rules, NEW d \in Replicas, NEW id \in Ids, NEW cnic \in Cnics,
           NEW card \in Cards, NEW password \in Passwords, Register(d, id, cnic, card, password)
    PROVE  Rules'
<1> DEFINE row == Row(id, cnic, card, password)
<1>1. /\ db' = [db EXCEPT ![d] = db[d] \cup {row}] /\ db \in [Replicas -> SUBSET Rows]
      /\ id \notin drawn /\ drawn' = drawn \cup {id}
      /\ \A w \in db[d] : w.cnic # cnic
      /\ told' = told \cup {Told(d, cnic, password)}
      /\ UNCHANGED <<epoch, tokens, now, call, raced>>
      /\ row.id = id /\ row.cnic = cnic /\ row.password = password
  BY DEF Register, FreshId, Row, TypeOK
<1> HIDE DEF row
<1>2. /\ \A e \in Replicas : db[e] \subseteq db'[e] /\ db'[e] \subseteq db[e] \cup {row}
      /\ \A e \in Replicas \ {d} : db'[e] = db[e]
      /\ row \in db'[d]
  BY <1>1
<1>3. \A e \in Replicas : \A w \in db[e] : w.id # row.id
  BY <1>1 DEF Rules, IdInv
<1>4. KeyInv'
  BY <1>1, <1>2, <1>3 DEF Rules, KeyInv
<1>5. IdInv'
  <2>1. \A e \in Replicas : \A w \in db'[e] : w.id \in drawn'
    BY <1>1, <1>2 DEF Rules, IdInv
  <2>2. \A e, f \in Replicas : \A v \in db'[e], w \in db'[f] : v.id = w.id => v.cnic = w.cnic
    BY <1>2, <1>3 DEF Rules, IdInv
  <2>3. \A t \in tokens, e \in Replicas : \A w \in db'[e] : t.sub = w.id => t.cnic = w.cnic
    BY <1>1, <1>2 DEF Rules, IdInv
  <2> QED BY <1>1, <2>1, <2>2, <2>3 DEF Rules, IdInv
<1>6. TokenInv'
  BY <1>1, <1>2, NumbersAreNaturals DEF Rules, TokenInv
<1>7. CallInv'
  <2> SUFFICES ASSUME NEW c \in Callers PROVE CallFits(c)'
    BY DEF CallInv
  <2>1. db[call[c].at] \subseteq db'[call[c].at]
    BY <1>2, NumbersAreNaturals
  <2>2. now <= now' /\ epoch[call[c].at] <= epoch'[call[c].at]
    BY NumbersAreNaturals DEF Register
  <2> QED BY <1>1, <2>1, <2>2, FitsStill, NumbersAreNaturals DEF Rules, CallInv
<1>8. RaceInv'
  BY <1>1 DEF Rules, RaceInv
<1>9. ToldInv'
  <2>1. \A t \in told : Kept(t)'
    BY <1>1, <1>2, NumbersAreNaturals DEF Rules, ToldInv, Kept
  <2>2. ASSUME NEW t, t = Told(d, cnic, password) PROVE Kept(t)'
    <3>1. t.at = d /\ t.epoch = epoch[d] /\ t.cnic = cnic /\ t.password = password
      BY <2>2 DEF Told
    <3>2. epoch[d] <= epoch'[d]
      BY NumbersAreNaturals DEF Register
    <3> QED BY <1>1, <1>2, <3>1, <3>2 DEF Kept
  <2> QED BY <1>1, <2>1, <2>2 DEF ToldInv
<1> QED BY <1>4, <1>5, <1>6, <1>7, <1>8, <1>9 DEF Rules

LEMMA LoginKeeps ==
    ASSUME TypeOK, Rules, NEW d \in Replicas, NEW w \in db[d], NEW password \in Passwords,
           Login(d, w, password)
    PROVE  Rules'
<1> DEFINE token == [sub |-> w.id, exp |-> now + Lifetime, issuer |-> d, epoch |-> epoch[d],
                     cnic |-> w.cnic]
<1>1. /\ tokens' = tokens \cup {token}
      /\ UNCHANGED <<db, epoch, drawn, now, call, told, raced>>
  BY DEF Login
<1>2. token.sub = w.id /\ token.issuer = d /\ token.epoch = epoch[d] /\ token.cnic = w.cnic
  OBVIOUS
<1> HIDE DEF token
<1>3. KeyInv' /\ RaceInv' /\ ToldInv'
  BY <1>1 DEF Rules, KeyInv, RaceInv, ToldInv, Kept
<1>4. IdInv'
  BY <1>1, <1>2 DEF Rules, IdInv
<1>5. TokenInv'
  BY <1>1, <1>2, NumbersAreNaturals DEF Rules, TokenInv
<1>6. CallInv'
  <2> SUFFICES ASSUME NEW c \in Callers PROVE CallFits(c)'
    BY DEF CallInv
  <2>1. now <= now' /\ epoch[call[c].at] <= epoch'[call[c].at]
    BY <1>1, NumbersAreNaturals
  <2> QED BY <1>1, <2>1, FitsStill, NumbersAreNaturals DEF Rules, CallInv
<1> QED BY <1>3, <1>4, <1>5, <1>6 DEF Rules

\* Steps of one call that change nothing but the call, and who has overlapped.
LEMMA CallerKeeps ==
    ASSUME TypeOK, Rules, NEW c \in Callers, NEW new, Become(c, new), CallFits(c)', RaceInv',
           UNCHANGED <<db, epoch, drawn, tokens, now, told>>, raced \subseteq raced'
    PROVE  Rules'
<1>1. KeyInv' /\ IdInv' /\ TokenInv'
  BY DEF Rules, KeyInv, IdInv, TokenInv
<1>2. ToldInv'
  BY DEF Rules, ToldInv, Kept
<1>3. ASSUME NEW e \in Callers \ {c} PROVE CallFits(e)'
  <2>1. call'[e] = call[e]
    BY DEF Become, TypeOK
  <2>2. now <= now' /\ epoch[call[e].at] <= epoch'[call[e].at]
    BY NumbersAreNaturals
  <2> QED BY <2>1, <2>2, FitsStill, NumbersAreNaturals DEF Rules, CallInv
<1> QED BY <1>1, <1>2, <1>3 DEF Rules, CallInv

LEMMA ReadHashKeeps ==
    ASSUME TypeOK, Rules, NEW c \in Callers, NEW d \in Replicas, NEW w \in db[d],
           NEW password \in Passwords, ReadHash(c, d, w, password)
    PROVE  Rules'
<1> DEFINE new == Call("writing", d, NoToken, password, w)
<1>1. /\ Become(c, new) /\ w.password = NoPassword /\ w \in Rows
      /\ UNCHANGED <<db, epoch, drawn, tokens, now, told>>
      /\ raced' = IF Writing(d, w) = {} THEN raced ELSE raced \cup {w.id}
  BY DEF ReadHash, TypeOK
<1>2. /\ new.place = "writing" /\ new.at = d /\ new.row = w /\ new.password = password
  BY DEF Call
<1> HIDE DEF new
<1>3. call'[c] = new /\ \A e \in Callers \ {c} : call'[e] = call[e]
  BY <1>1 DEF Become, TypeOK
<1>4. CallFits(c)'
  BY <1>1, <1>2, <1>3 DEF CallFits
<1>5. RaceInv'
  <2>1. \A e \in Callers \ {c} : call[e].place = "writing" /\ call[e].at = d /\ call[e].row.id = w.id
            => w.id \in raced'
    BY <1>1 DEF Writing
  <2> QED BY <1>1, <1>2, <1>3, <2>1 DEF Rules, RaceInv
<1> QED BY <1>1, <1>4, <1>5, CallerKeeps

LEMMA GetCurrentUserKeeps ==
    ASSUME TypeOK, Rules, NEW c \in Callers, NEW d \in Replicas, NEW token \in tokens,
           GetCurrentUser(c, d, token)
    PROVE  Rules'
<1>1. UNCHANGED <<db, epoch, drawn, tokens, now, told, raced>>
  BY DEF GetCurrentUser
<1>2. PICK new : /\ Become(c, new) /\ new.at = d /\ new.token = token
                 /\ new.place = IF Expired(token) \/ \A w \in db[d] : w.id # token.sub
                                THEN "401" ELSE "known"
  BY DEF GetCurrentUser, Call
<1>3. call'[c] = new /\ \A e \in Callers \ {c} : call'[e] = call[e]
  BY <1>2 DEF Become, TypeOK
<1>4. new.place = "401" => Expired(token) \/ token.issuer # d \/ token.epoch < epoch[d]
  <2>1. token.issuer = d /\ token.epoch = epoch[d] => \E w \in db[d] : w.id = token.sub
    BY DEF Rules, TokenInv
  <2>2. token.issuer = d => token.epoch < epoch[d] \/ token.epoch = epoch[d]
    BY NumbersAreNaturals DEF Rules, TokenInv
  <2> QED BY <1>2, <2>1, <2>2
<1>5. CallFits(c)'
  BY <1>1, <1>2, <1>3, <1>4 DEF CallFits, Expired
<1>6. RaceInv'
  BY <1>1, <1>2, <1>3 DEF Rules, RaceInv
<1> QED BY <1>1, <1>2, <1>5, <1>6, CallerKeeps

LEMMA AuthoriseKeeps ==
    ASSUME TypeOK, Rules, NEW c \in Callers, NEW identifier \in Cards \cup Ids,
           Authorise(c, identifier)
    PROVE  Rules'
<1> DEFINE k == call[c]
<1>1. UNCHANGED <<db, epoch, drawn, tokens, now, told, raced>> /\ k.place = "known"
  BY DEF Authorise
<1>2. PICK new : /\ Become(c, new) /\ new.at = k.at /\ new.token = k.token
                 /\ \/ new.place = "404"
                    \/ /\ new.row \in db[k.at]
                       /\ new.place = IF new.row.id = k.token.sub THEN "debits" ELSE "403"
  <2>1. ResolveAccount(k.at, identifier) \subseteq db[k.at]
    BY DEF ResolveAccount
  <2>2. CASE ResolveAccount(k.at, identifier) = {}
    BY <2>2 DEF Authorise, Call
  <2>3. ASSUME NEW w \in db[k.at],
               Become(c, Call(IF OwnsAccount(w, k.token.sub) THEN "debits" ELSE "403",
                              k.at, k.token, NoPassword, w))
        PROVE  \E new : /\ Become(c, new) /\ new.at = k.at /\ new.token = k.token
                        /\ new.row \in db[k.at]
                        /\ new.place = IF new.row.id = k.token.sub THEN "debits" ELSE "403"
    BY <2>3 DEF OwnsAccount, Call
  <2> QED BY <2>1, <2>2, <2>3 DEF Authorise
<1>3. call'[c] = new /\ \A e \in Callers \ {c} : call'[e] = call[e]
  BY <1>2 DEF Become, TypeOK
<1>4. PICK w \in db[k.at] : w.id = k.token.sub
  BY <1>1 DEF Rules, CallInv, CallFits
<1>5. k.token \in tokens /\ k.at \in Replicas /\ w.cnic = k.token.cnic
  BY <1>1, <1>4, NumbersAreNaturals DEF Rules, CallInv, CallFits, IdInv
<1>6. /\ new.place = "debits" => new.row.cnic = k.token.cnic
      /\ new.place = "403" => new.row.cnic # k.token.cnic
  BY <1>2, <1>4, <1>5 DEF Rules, KeyInv
<1>7. CallFits(c)'
  BY <1>1, <1>2, <1>3, <1>5, <1>6 DEF CallFits
<1>8. RaceInv'
  BY <1>1, <1>2, <1>3 DEF Rules, RaceInv
<1> QED BY <1>1, <1>2, <1>7, <1>8, CallerKeeps

LEMMA WriteHashKeeps ==
    ASSUME TypeOK, Rules, NEW c \in Callers, WriteHash(c)
    PROVE  Rules'
<1> DEFINE k == call[c]
           d == k.at
           After(w) == IF w.id = k.row.id THEN [w EXCEPT !.password = k.password] ELSE w
<1>1. /\ db' = [db EXCEPT ![d] = {After(w) : w \in db[d]}] /\ db \in [Replicas -> SUBSET Rows]
      /\ told' = told \cup {Told(d, k.row.cnic, k.password)}
      /\ UNCHANGED <<epoch, drawn, tokens, now, raced>>
      /\ k.place = "writing" /\ d \in Replicas /\ k.password \in Passwords
      /\ Become(c, Call("idle", d, NoToken, NoPassword, NoRow))
  BY NumbersAreNaturals DEF WriteHash, TypeOK, Rules, CallInv, CallFits
<1>2. \A w \in db[d] : /\ After(w).id = w.id /\ After(w).cnic = w.cnic
                       /\ After(w).password = IF w.id = k.row.id THEN k.password ELSE w.password
  BY <1>1 DEF Rows
<1> HIDE DEF After
<1>3. /\ \A e \in Replicas \ {d} : db'[e] = db[e]
      /\ db'[d] = {After(w) : w \in db[d]}
  BY <1>1
<1>4. PICK mine \in db[d] : /\ mine.id = k.row.id /\ mine.cnic = k.row.cnic
                            /\ mine.password = NoPassword \/ mine.id \in raced
  BY <1>1 DEF Rules, CallInv, CallFits
<1>5. /\ call'[c].place = "idle" /\ \A e \in Callers \ {c} : call'[e] = call[e]
  BY <1>1 DEF Become, TypeOK, Call
<1>6. \A e \in Replicas : /\ \A v \in db'[e] : \E w \in db[e] : v.id = w.id /\ v.cnic = w.cnic
                          /\ \A w \in db[e] : \E v \in db'[e] : v.id = w.id /\ v.cnic = w.cnic
  BY <1>2, <1>3
<1>7. KeyInv'
  BY <1>2, <1>3 DEF Rules, KeyInv
<1>8. IdInv' /\ TokenInv'
  <2>1. TokenInv'
    <3> SUFFICES ASSUME NEW t \in tokens
                 PROVE  /\ t.epoch <= epoch[t.issuer]
                        /\ t.epoch = epoch[t.issuer] => \E w \in db'[t.issuer] : w.id = t.sub
      BY <1>1 DEF TokenInv
    <3> QED BY <1>6, NumbersAreNaturals DEF Rules, TokenInv
  <2>2. \A e \in Replicas : \A v \in db'[e] : v.id \in drawn
    BY <1>6 DEF Rules, IdInv
  <2>3. \A e, f \in Replicas : \A v \in db'[e], w \in db'[f] : v.id = w.id => v.cnic = w.cnic
    <3> SUFFICES ASSUME NEW e \in Replicas, NEW f \in Replicas, NEW v \in db'[e], NEW w \in db'[f],
                        v.id = w.id
                 PROVE  v.cnic = w.cnic
      OBVIOUS
    <3>1. PICK x \in db[e] : v.id = x.id /\ v.cnic = x.cnic
      BY <1>6
    <3>2. PICK y \in db[f] : w.id = y.id /\ w.cnic = y.cnic
      BY <1>6
    <3>3. \A a, b \in Replicas : \A q \in db[a], z \in db[b] : q.id = z.id => q.cnic = z.cnic
      BY DEF Rules, IdInv
    <3>4. x.id = y.id
      BY <3>1, <3>2
    <3>5. x.cnic = y.cnic
      BY <3>3, <3>4, Zenon
    <3> QED BY <3>1, <3>2, <3>5
  <2>4. \A t \in tokens, e \in Replicas : \A w \in db'[e] : t.sub = w.id => t.cnic = w.cnic
    BY <1>6 DEF Rules, IdInv
  <2>5. IdInv'
    BY <1>1, <2>2, <2>3, <2>4 DEF Rules, IdInv
  <2> QED BY <2>1, <2>5
<1>9. CallInv'
  <2> SUFFICES ASSUME NEW e \in Callers PROVE CallFits(e)'
    BY DEF CallInv
  <2>1. CASE e = c
    BY <1>5, <2>1 DEF CallFits
  <2>2. CASE e # c
    <3>1. call'[e] = call[e] /\ call[e].at \in Replicas
      BY <1>5, <2>2, NumbersAreNaturals
    <3>2. now <= now' /\ epoch[call[e].at] <= epoch'[call[e].at]
      BY <3>1, NumbersAreNaturals DEF WriteHash
    <3>3. \A w \in db[call[e].at] : \E v \in db'[call[e].at] : v.id = w.id
      BY <1>6, <3>1
    <3>4. ASSUME call[e].place = "writing", NEW w \in db[call[e].at], w.id = call[e].row.id,
                 w.password = NoPassword \/ w.id \in raced
          PROVE  \E v \in db'[call[e].at] : /\ v.id = w.id /\ v.cnic = w.cnic
                                            /\ v.password = NoPassword \/ v.id \in raced'
      <4>1. CASE call[e].at # d
        BY <1>1, <1>3, <3>1, <3>4, <4>1
      <4>2. CASE call[e].at = d
        <5>1. w.id = k.row.id => w.id \in raced
          BY <1>1, <2>2, <3>4, <4>2 DEF Rules, RaceInv
        <5>2. After(w) \in db'[d]
          BY <1>3, <4>2
        <5> QED BY <1>1, <1>2, <3>4, <4>2, <5>1, <5>2
      <4> QED BY <4>1, <4>2
    <3> QED BY <1>1, <3>1, <3>2, <3>3, <3>4, FitsStill, NumbersAreNaturals DEF Rules, CallInv
  <2> QED BY <2>1, <2>2
<1>10. RaceInv'
  BY <1>1, <1>5 DEF Rules, RaceInv
<1>11. ToldInv'
  <2>1. ASSUME NEW t \in told PROVE Kept(t)'
    <3>1. CASE t.at # d
      BY <1>1, <1>3, <3>1, NumbersAreNaturals DEF Rules, ToldInv, Kept
    <3>2. CASE t.at = d /\ t.epoch = epoch[d]
      <4>1. PICK w \in db[d] : w.cnic = t.cnic /\ (w.password = t.password \/ w.id \in raced)
        BY <3>2 DEF Rules, ToldInv, Kept
      <4>2. t.password \in Passwords
        BY DEF TypeOK
      <4>3. w.id = k.row.id => w.id \in raced
        BY <1>1, <1>4, <4>1, <4>2, NoPasswordAssumption DEF Rules, KeyInv
      <4>4. After(w) \in db'[d] /\ After(w).cnic = t.cnic
            /\ (After(w).password = t.password \/ After(w).id \in raced')
        BY <1>1, <1>2, <1>3, <4>1, <4>3
      <4> QED BY <1>1, <3>2, <4>4, NumbersAreNaturals DEF Kept
    <3>3. CASE t.at = d /\ t.epoch # epoch[d]
      BY <1>1, <3>3 DEF Rules, ToldInv, Kept
    <3> QED BY <3>1, <3>2, <3>3
  <2>2. ASSUME NEW t, t = Told(d, k.row.cnic, k.password) PROVE Kept(t)'
    <3>1. t.at = d /\ t.epoch = epoch[d] /\ t.cnic = k.row.cnic /\ t.password = k.password
      BY <2>2 DEF Told
    <3>2. epoch[d] <= epoch'[d]
      BY NumbersAreNaturals DEF WriteHash
    <3>3. After(mine) \in db'[d] /\ After(mine).cnic = t.cnic /\ After(mine).password = t.password
      BY <1>2, <1>3, <1>4, <3>1
    <3> QED BY <1>1, <3>1, <3>2, <3>3 DEF Kept
  <2> QED BY <1>1, <2>1, <2>2 DEF ToldInv
<1> QED BY <1>7, <1>8, <1>9, <1>10, <1>11 DEF Rules

LEMMA LoseDbKeeps ==
    ASSUME TypeOK, Rules, NEW d \in Replicas, LoseDb(d)
    PROVE  Rules'
<1>1. /\ db' = [db EXCEPT ![d] = {}] /\ epoch' = [epoch EXCEPT ![d] = epoch[d] + 1]
      /\ db \in [Replicas -> SUBSET Rows]
      /\ UNCHANGED <<drawn, tokens, now, told, raced>>
  BY DEF LoseDb, TypeOK
<1>2. /\ db'[d] = {} /\ \A e \in Replicas \ {d} : db'[e] = db[e]
      /\ \A e \in Replicas : db'[e] \subseteq db[e]
  BY <1>1
<1>3. /\ epoch'[d] > epoch[d] /\ \A e \in Replicas \ {d} : epoch'[e] = epoch[e]
      /\ epoch' \in [Replicas -> Nat]
      /\ \A e \in Replicas : epoch[e] <= epoch'[e]
  BY <1>1, NumbersAreNaturals
<1>4. \A e \in Callers :
          \/ call'[e] = call[e] /\ (call[e].at # d \/ call[e].place \in Answers)
          \/ call'[e].place = "idle"
  BY DEF LoseDb, Call
<1>5. KeyInv' /\ IdInv'
  BY <1>1, <1>2 DEF Rules, KeyInv, IdInv
<1>6. TokenInv'
  <2> SUFFICES ASSUME NEW t \in tokens
               PROVE  /\ t.epoch <= epoch'[t.issuer]
                      /\ t.epoch = epoch'[t.issuer] => \E w \in db'[t.issuer] : w.id = t.sub
    BY <1>1 DEF TokenInv
  <2>1. t.epoch <= epoch[t.issuer] /\ t.epoch \in Nat /\ t.issuer \in Replicas
    BY NumbersAreNaturals DEF Rules, TokenInv
  <2>2. CASE t.issuer = d
    BY <1>3, <2>1, <2>2, NumbersAreNaturals
  <2>3. CASE t.issuer # d
    BY <1>2, <1>3, <2>1, <2>3 DEF Rules, TokenInv
  <2> QED BY <2>2, <2>3
<1>7. CallInv'
  <2> SUFFICES ASSUME NEW c \in Callers PROVE CallFits(c)'
    BY DEF CallInv
  <2>1. CASE call'[c].place = "idle"
    BY <2>1 DEF CallFits
  <2>2. CASE call'[c] = call[c] /\ (call[c].at # d \/ call[c].place \in Answers)
    <3>1. call[c].at \in Replicas /\ epoch[call[c].at] <= epoch'[call[c].at]
      BY <1>3, NumbersAreNaturals
    <3>2. now' \in Nat /\ now <= now'
      BY <1>1, NumbersAreNaturals
    <3>3. call[c].place \in {"known", "writing"} => db'[call[c].at] = db[call[c].at]
      BY <1>2, <2>2, <3>1 DEF Answers
    <3> QED BY <1>1, <1>3, <2>2, <3>1, <3>2, <3>3, FitsStill DEF Rules, CallInv
  <2> QED BY <1>4, <2>1, <2>2
<1>8. RaceInv'
  BY <1>1, <1>4 DEF Rules, RaceInv
<1>9. ToldInv'
  <2> SUFFICES ASSUME NEW t \in told PROVE Kept(t)'
    BY <1>1 DEF ToldInv
  <2>1. t.epoch <= epoch[t.at] /\ t.epoch \in Nat /\ t.at \in Replicas
    BY NumbersAreNaturals DEF Rules, ToldInv, Kept
  <2>2. CASE t.at = d
    BY <1>3, <2>1, <2>2, NumbersAreNaturals DEF Kept
  <2>3. CASE t.at # d
    BY <1>1, <1>2, <1>3, <2>1, <2>3 DEF Rules, ToldInv, Kept
  <2> QED BY <2>2, <2>3
<1> QED BY <1>5, <1>6, <1>7, <1>8, <1>9 DEF Rules

LEMMA TickKeeps ==
    ASSUME TypeOK, Rules, Tick
    PROVE  Rules'
<1>1. UNCHANGED <<db, epoch, drawn, tokens, call, told, raced>> /\ now' = now + 1
  BY DEF Tick
<1>2. CallInv'
  <2> SUFFICES ASSUME NEW c \in Callers PROVE CallFits(c)'
    BY DEF CallInv
  <2>1. now' \in Nat /\ now <= now' /\ epoch[call[c].at] <= epoch'[call[c].at]
    BY <1>1, NumbersAreNaturals
  <2> QED BY <1>1, <2>1, FitsStill, NumbersAreNaturals DEF Rules, CallInv
<1>3. KeyInv' /\ IdInv' /\ TokenInv' /\ RaceInv' /\ ToldInv'
  BY <1>1 DEF Rules, KeyInv, IdInv, TokenInv, RaceInv, ToldInv, Kept
<1> QED BY <1>2, <1>3 DEF Rules

-----------------------------------------------------------------------------
(* The theorems *)

LEMMA InitIInv == Init => IInv
<1> SUFFICES ASSUME Init PROVE IInv
  OBVIOUS
<1>1. \A d \in Replicas : db[d] \subseteq Legacy
  BY DEF Init
<1>2. drawn = {w.id : w \in Legacy} /\ tokens = {} /\ told = {}
  BY DEF Init
<1>3. \A c \in Callers : call[c].place = "idle"
  BY DEF Init, Call
<1>4. \A v, w \in Legacy : v.id = w.id \/ v.cnic = w.cnic => v = w
  BY LegacyAssumption DEF SameKey
<1>5. KeyInv
  BY <1>1, <1>4 DEF KeyInv
<1>6. IdInv
  BY <1>1, <1>2, <1>4 DEF IdInv
<1>7. TokenInv /\ ToldInv
  BY <1>2 DEF TokenInv, ToldInv
<1>8. CallInv /\ RaceInv
  BY <1>3 DEF CallInv, CallFits, RaceInv
<1> QED BY <1>5, <1>6, <1>7, <1>8, InitIsTyped DEF IInv

LEMMA IInvPreserved == IInv /\ [Next]_vars => IInv'
<1> SUFFICES ASSUME IInv, [Next]_vars PROVE IInv'
  OBVIOUS
<1>1. TypeOK /\ Rules
  BY DEF IInv, Rules
<1>2. TypeOK'
  BY <1>1, TypePreserved DEF Rules
<1>3. Rules'
  <2>1. CASE UNCHANGED vars
    BY <1>1, <2>1 DEF vars, Rules, KeyInv, IdInv, TokenInv, CallInv, CallFits, RaceInv, ToldInv, Kept,
                      Expired
  <2>2. CASE Next
    BY <1>1, <2>2, RegisterKeeps, LoginKeeps, ReadHashKeeps, GetCurrentUserKeeps, LoseDbKeeps,
       WriteHashKeeps, AuthoriseKeeps, TickKeeps DEF Next
  <2> QED BY <2>1, <2>2
<1> QED BY <1>2, <1>3 DEF IInv, Rules

LEMMA Invariance == Spec => []IInv
BY InitIInv, IInvPreserved, PTL DEF Spec

\* Whatever is registered, asked and lost, every variable stays within its type.
THEOREM TypeCorrect == Spec => []TypeOK
<1>1. IInv => TypeOK
  BY DEF IInv
<1> QED BY <1>1, Invariance, PTL

\* set_password() works once: a password its owner was told is set stays the
\* password of that person's row while the database lives, unless two calls of
\* set_password() for that user were between their SELECT and their UPDATE at
\* one time.
THEOREM PasswordHolds == Spec => []PasswordIsKept
<1>1. IInv => PasswordIsKept
  BY DEF IInv, ToldInv, Kept, PasswordIsKept
<1> QED BY <1>1, Invariance, PTL

\* get_current_user() and _assert_owns_account(): on whatever replica a token
\* is shown, it leads to the account of the person it was issued to and of
\* nobody else; and it is refused only for a reason.
THEOREM TokenHolds == Spec => []TokenIsItsUser
<1>1. IInv => TokenIsItsUser
  <2> SUFFICES ASSUME IInv, NEW c \in Callers
               PROVE  LET k == call[c] IN
                      /\ k.place = "debits" => k.row.cnic = k.token.cnic
                      /\ k.place = "403" => k.row.cnic # k.token.cnic
                      /\ k.place = "401" => \/ Expired(k.token)
                                            \/ k.token.issuer # k.at
                                            \/ k.token.epoch # epoch[k.at]
    BY DEF TokenIsItsUser
  <2>1. CallFits(c) /\ TypeOK
    BY DEF IInv, CallInv
  <2>2. call[c].place = "401" /\ call[c].token.epoch < epoch[call[c].at] =>
            call[c].token.epoch # epoch[call[c].at]
    BY <2>1, NumbersAreNaturals DEF CallFits
  <2> QED BY <2>1, <2>2 DEF CallFits
<1> QED BY <1>1, Invariance, PTL
=============================================================================
