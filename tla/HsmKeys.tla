------------------------------ MODULE HsmKeys -------------------------------
(***************************************************************************)
(* The keys of security/mock_hsm.py: the base key, which is generated once *)
(* and read back by later processes, and the counter (KSN) from which each *)
(* PIN block's key is derived.  A base key is named after the process that *)
(* generated it, a transaction key is the pair of base key and KSN.  The   *)
(* ciphers are external: what was wrapped under one master key is unwrapped*)
(* under the same one only, a block opens under its own key only.          *)
(***************************************************************************)
EXTENDS Integers

CONSTANTS
    Processes,   \* starts of the service, each at most once
    Requests,    \* payments that reach their PIN encryption
    Masters,     \* values of HSM_MASTER_KEY_HEX
    NoMaster,    \* HSM_MASTER_KEY_HEX or the path is not set
    NoKey,       \* no base key yet
    NoBlock,     \* nothing encrypted yet
    Absent,      \* there is no key file
    Empty,       \* the key file was created and not written
    OneAtATime   \* replicas: 1 and strategy Recreate: no two pods at once

Wrapped(m, k) == [master |-> m, key |-> k]
Envelopes == [master : Masters, key : Processes]

ASSUME NullsAssumption ==
    /\ NoMaster \notin Masters /\ NoKey \notin Processes
    /\ NoBlock \notin Processes \X Nat
    /\ Absent \notin Envelopes /\ Empty \notin Envelopes /\ Absent # Empty
ASSUME OneAtATimeAssumption == OneAtATime \in BOOLEAN

VARIABLES
    file,        \* HSM_KEY_PERSISTENCE_PATH: what a process finds there
    phase,       \* process -> how far its start is
    master,      \* process -> its master key
    base,        \* process -> its base key
    counter,     \* process -> _ksn_counter
    pc,          \* request -> where it is in encrypt_pin_block()
    host,        \* request -> the process that serves it
    loaded,      \* request -> the counter as "+=" read it
    ksn,         \* request -> the KSN that travels with its block
    block,       \* request -> the transaction key its block is encrypted under
    overlapped   \* history: requests that drew their KSN while another was drawing

processVars == <<file, phase, master, base>>
requestVars == <<counter, pc, host, loaded, ksn, block, overlapped>>
vars == <<processVars, requestVars>>

-----------------------------------------------------------------------------
(* Types *)

\* torn: died between creating the file and writing it.
Over == {"off", "failed", "dead", "torn"}
Phases == Over \cup {"looking", "reading", "opening", "writing", "up"}

Places == {"idle", "store", "format", "encrypt", "done", "error", "lost"}

TypeOK ==
    /\ file \in Envelopes \cup {Absent, Empty}
    /\ phase \in [Processes -> Phases]
    /\ master \in [Processes -> Masters \cup {NoMaster}]
    /\ base \in [Processes -> Processes \cup {NoKey}]
    /\ counter \in [Processes -> Nat]
    /\ pc \in [Requests -> Places]
    /\ host \in [Requests -> Processes]
    /\ loaded \in [Requests -> Nat]
    /\ ksn \in [Requests -> Nat]
    /\ block \in [Requests -> (Processes \X Nat) \cup {NoBlock}]
    /\ overlapped \subseteq Requests

Init ==
    /\ file = Absent
    /\ phase = [p \in Processes |-> "off"]
    /\ master \in [Processes -> Masters \cup {NoMaster}]
    /\ base = [p \in Processes |-> NoKey]
    /\ counter = [p \in Processes |-> 0]
    /\ pc = [r \in Requests |-> "idle"]
    /\ \E p \in Processes : host = [r \in Requests |-> p]
    /\ loaded = [r \in Requests |-> 0]
    /\ ksn = [r \in Requests |-> 0]
    /\ block = [r \in Requests |-> NoBlock]
    /\ overlapped = {}

-----------------------------------------------------------------------------
(* A process starts *)

GoTo(p, label) == phase' = [phase EXCEPT ![p] = label]

\* Mutant: a rolling update, the new pod starts beside the old one.
MutRolls(p) ==
    /\ phase[p] = "off"
    /\ master[p] # NoMaster
    /\ GoTo(p, "looking")
    /\ UNCHANGED <<file, master, base, requestVars>>

Alone(p) == OneAtATime => \A q \in Processes \ {p} : phase[q] \in Over

Start(p) ==
    /\ phase[p] = "off"
    /\ master[p] # NoMaster
    /\ Alone(p)
    /\ GoTo(p, "looking")
    /\ UNCHANGED <<file, master, base, requestVars>>

\* Path or master key missing: os.urandom(16), a key of this process only.
StartEphemeral(p) ==
    /\ phase[p] = "off"
    /\ master[p] = NoMaster
    /\ Alone(p)
    /\ base' = [base EXCEPT ![p] = p]
    /\ GoTo(p, "up")
    /\ UNCHANGED <<file, master, requestVars>>

\* os.path.exists(), and generate_data_key() if it says no.
LookForKey(p) ==
    /\ phase[p] = "looking"
    /\ IF file = Absent
       THEN base' = [base EXCEPT ![p] = p] /\ GoTo(p, "opening")
       ELSE base' = base /\ GoTo(p, "reading")
    /\ UNCHANGED <<file, master, requestVars>>

\* open(path, "wb") creates the file, or empties it.
OpenKeyFile(p) ==
    /\ phase[p] = "opening"
    /\ file' = Empty
    /\ GoTo(p, "writing")
    /\ UNCHANGED <<master, base, requestVars>>

WriteKey(p) ==
    /\ phase[p] = "writing"
    /\ file' = Wrapped(master[p], base[p])
    /\ GoTo(p, "up")
    /\ UNCHANGED <<master, base, requestVars>>

Unwraps(p) == file \in Envelopes /\ file.master = master[p]

\* Mutant: a key that does not unwrap is replaced by a fresh one.
MutStartsAnyway(p) ==
    /\ phase[p] = "reading"
    /\ base' = [base EXCEPT ![p] = IF Unwraps(p) THEN file.key ELSE p]
    /\ GoTo(p, "up")
    /\ UNCHANGED <<file, master, requestVars>>

\* The file is read and unwrapped.  An empty one, or one that was wrapped
\* under another master key, raises and the start fails.
ReadKey(p) ==
    /\ phase[p] = "reading"
    /\ IF Unwraps(p) THEN base' = [base EXCEPT ![p] = file.key] /\ GoTo(p, "up")
                     ELSE base' = base /\ GoTo(p, "failed")
    /\ UNCHANGED <<file, master, requestVars>>

\* The process ends, for whatever reason, with the requests it was serving.
Die(p) ==
    /\ phase[p] \notin Over
    /\ GoTo(p, IF phase[p] = "writing" THEN "torn" ELSE "dead")
    /\ pc' = [r \in Requests |->
                 IF host[r] = p /\ pc[r] \in {"store", "format", "encrypt"} THEN "lost" ELSE pc[r]]
    /\ UNCHANGED <<file, master, base, counter, host, loaded, ksn, block, overlapped>>

-----------------------------------------------------------------------------
(* encrypt_pin_block(), one thread per request *)

At(r, label) == pc' = [pc EXCEPT ![r] = label]

Drawing(p) == {r \in Requests : host[r] = p /\ pc[r] \in {"store", "format"}}

\* self._ksn_counter += 1 reads the counter ...
LoadCounter(r, p) ==
    /\ pc[r] = "idle"
    /\ phase[p] = "up"
    /\ host' = [host EXCEPT ![r] = p]
    /\ loaded' = [loaded EXCEPT ![r] = counter[p]]
    /\ overlapped' = IF Drawing(p) = {} THEN overlapped ELSE overlapped \cup Drawing(p) \cup {r}
    /\ At(r, "store")
    /\ UNCHANGED <<processVars, counter, ksn, block>>

\* ... and writes it, ...
StoreCounter(r) ==
    /\ pc[r] = "store"
    /\ counter' = [counter EXCEPT ![host[r]] = loaded[r] + 1]
    /\ At(r, "format")
    /\ UNCHANGED <<processVars, host, loaded, ksn, block, overlapped>>

\* ... and the return statement reads it again.
FormatKsn(r) ==
    /\ pc[r] = "format"
    /\ ksn' = [ksn EXCEPT ![r] = counter[host[r]]]
    /\ At(r, "encrypt")
    /\ UNCHANGED <<processVars, counter, host, loaded, block, overlapped>>

\* Mutant: the key is derived from the counter of the moment.
MutDerivesAgain(r) ==
    /\ pc[r] = "encrypt"
    /\ block' = [block EXCEPT ![r] = <<base[host[r]], counter[host[r]]>>]
    /\ At(r, "done")
    /\ UNCHANGED <<processVars, counter, host, loaded, ksn, overlapped>>

\* The key is derived from the KSN and the PIN block encrypted under it.
Encrypt(r) ==
    /\ pc[r] = "encrypt"
    /\ block' = [block EXCEPT ![r] = <<base[host[r]], ksn[r]>>]
    /\ At(r, "done")
    /\ UNCHANGED <<processVars, counter, host, loaded, ksn, overlapped>>

\* Mutant: the number of a PIN that is refused is given back.
MutGivesBack(r) ==
    /\ pc[r] = "encrypt"
    /\ counter' = [counter EXCEPT ![host[r]] = @ - 1]
    /\ At(r, "error")
    /\ UNCHANGED <<processVars, host, loaded, ksn, block, overlapped>>

\* A PIN that is not digits raises ValueError: its KSN stays unused.
PinRefused(r) ==
    /\ pc[r] = "encrypt"
    /\ At(r, "error")
    /\ UNCHANGED <<processVars, counter, host, loaded, ksn, block, overlapped>>

-----------------------------------------------------------------------------

ProcessStep(p) ==
    \/ Start(p) \/ StartEphemeral(p) \/ LookForKey(p) \/ OpenKeyFile(p)
    \/ WriteKey(p) \/ ReadKey(p) \/ Die(p)

RequestStep(r) ==
    \/ \E p \in Processes : LoadCounter(r, p)
    \/ StoreCounter(r) \/ FormatKsn(r) \/ Encrypt(r) \/ PinRefused(r)

Next ==
    \/ \E p \in Processes : ProcessStep(p)
    \/ \E r \in Requests : RequestStep(r)

Spec == Init /\ [][Next]_vars

-----------------------------------------------------------------------------
(* Properties *)

\* docs/architecture.html: "PIN blocks encrypted before the restart still
\* decrypt after it".  A process that is up with the same master key derives
\* from the KSN that travelled the key the block was encrypted under, whatever
\* process encrypted it and wherever processes died in between.
BlocksSurvive ==
    \A r \in Requests, p \in Processes :
        /\ pc[r] = "done" /\ phase[p] = "up"
        /\ master[p] = master[host[r]] /\ master[p] # NoMaster
        => block[r] = <<base[p], ksn[r]>>

\* "each transaction gets its own key", as far as _next_ksn() gives it without a
\* lock: in one process no block shares its key, but with one that drew its KSN
\* while another request was drawing.  A race never makes two draws equal that
\* were not part of it, wherever it leaves the counter.
OwnKey ==
    \A r, s \in Requests :
        /\ pc[r] = "done" /\ pc[s] = "done" /\ block[r] = block[s]
        => r = s \/ host[r] # host[s] \/ r \in overlapped \/ s \in overlapped

\* A start fails only if a process died between creating the key file and
\* writing it, or if master keys were changed.
StartsUnlessTorn ==
    \A p \in Processes : phase[p] = "failed" =>
        \E q \in Processes : phase[q] = "torn" \/ master[q] \notin {master[p], NoMaster}
=============================================================================
