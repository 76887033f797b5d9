-------------------------------- MODULE Wire --------------------------------
(***************************************************************************)
(* switch/framing.py under send_message() of switch/client.py: the threads *)
(* that share a connection write one length-prefixed message each under    *)
(* the send lock, TCP carries the bytes in pieces of any size, and the     *)
(* reader at the other end puts the messages together again, until the     *)
(* connection breaks and a new one takes its place.  The simulator writes  *)
(* its answers in the same way, so this is either direction.               *)
(***************************************************************************)
EXTENDS Codec, TLC

CONSTANTS
    Senders,   \* threads with a message to send
    Messages,  \* what they may send
    NoOne,     \* nobody holds the send lock
    MaxDrops   \* bound on broken connections

VARIABLES
    msg,       \* the message of each sender
    pc,        \* where each sender is in send_message
    left,      \* what each sender still has to write
    link,      \* the connection each sender writes to
    lock,      \* _send_lock
    up,        \* whether the current connection holds
    drops,     \* how many were lost before it: its number
    pipe,      \* the bytes in flight on the current connection
    phase,     \* what read_exact reads: "header" or "body"
    need,      \* how many bytes it was asked for
    chunks,    \* how many it has: these
    started,   \* history: who began to write on this connection, in this order
    received   \* history: what was handed to parse_message on this connection

senderVars == <<msg, pc, left, link, lock, started>>
readerVars == <<phase, need, chunks, received>>
vars == <<senderVars, readerVars, up, drops, pipe>>

PrefixBytes == 2

ASSUME WireAssumption ==
    /\ NoOne \notin Senders
    /\ MaxDrops \in Nat

TypeOK ==
    /\ msg \in [Senders -> Messages]
    /\ pc \in [Senders -> {"ready", "write", "sent", "failed"}]
    /\ left \in [Senders -> Seq(Byte)]
    /\ \A s \in Senders : pc[s] = "write" <=> left[s] # <<>>
    /\ link \in [Senders -> 0..drops]
    /\ lock \in Senders \cup {NoOne}
    /\ up \in BOOLEAN /\ drops \in 0..MaxDrops
    /\ pipe \in Seq(Byte)
    /\ phase \in {"header", "body"}
    /\ chunks \in Seq(Byte) /\ Len(chunks) < need /\ (phase = "header" => need = PrefixBytes)
    /\ started \in Seq(Senders) /\ received \in Seq(Seq(Byte))

Init ==
    /\ msg \in [Senders -> Messages]
    /\ pc = [s \in Senders |-> "ready"]
    /\ left = [s \in Senders |-> <<>>]
    /\ link = [s \in Senders |-> 0]
    /\ lock = NoOne
    /\ up = TRUE /\ drops = 0
    /\ pipe = <<>>
    /\ phase = "header" /\ need = PrefixBytes /\ chunks = <<>>
    /\ started = <<>> /\ received = <<>>

-----------------------------------------------------------------------------
(* The messages of the program                                             *)

\* sign_on() and the heartbeat.
NetworkMessage(stan, code) ==
    [mti |-> <<0, 8, 0, 0>>, fields |-> (11 :> stan) @@ (70 :> code)]

\* authorize(), with the STAN of send_and_wait(): the account is a transfer's.
Authorization(stan, pan, processing, amount, entryMode, rrn, pinBlock, ksn, account) ==
    [mti |-> <<0, 2, 0, 0>>,
     fields |-> (2 :> pan) @@ (3 :> processing) @@ (4 :> amount) @@ (11 :> stan)
                @@ (22 :> entryMode) @@ (37 :> rrn) @@ (49 :> <<8, 4, 0>>) @@ (52 :> pinBlock)
                @@ (53 :> PadLeft(ksn, 16))
                @@ (IF account = <<>> THEN <<>> ELSE 103 :> account)]

\* build_reversal_fields(): DE 90 is the MTI, the STAN and 32 zeros.
Reversal(stan, original) ==
    [mti |-> <<0, 4, 0, 0>>,
     fields |-> (11 :> stan) @@ (90 :> (<<0, 2, 0, 0>> \o original \o Zeros(32)))]

\* Mutant: the answer to a 0400 has a STAN of its own.
MutOwnStan(m) ==
    [mti |-> [m.mti EXCEPT ![3] = 1], fields |-> (11 :> Zeros(6)) @@ (39 :> <<48, 48>>)]

\* What the host simulator puts in its answer to a request.
AnswerFields(mti) ==
    CASE mti = <<0, 8, 0, 0>> -> {11, 70}
      [] mti = <<0, 2, 0, 0>> -> {11, 37, 38, 39}
      [] mti = <<0, 4, 0, 0>> -> {11, 39}

\* Its answer to a request it has parsed: what it does not set it repeats.
Answer(m) ==
    [mti |-> [m.mti EXCEPT ![3] = 1],
     fields |-> [de \in AnswerFields(m.mti) |->
        CASE de = 38 -> <<65, 49, 56, 48, 48, 56>>
          [] de = 39 -> <<48, 48>>
          [] OTHER -> m.fields[de]]]

IsRequest(m) == m.mti[3] = 0

\* A request is of a kind the simulator answers, with a STAN of six digits and
\* whatever else the answer repeats; a DE 90 is whole.
Answerable(m) ==
    /\ IsRequest(m) =>
          /\ m.mti \in {<<0, 8, 0, 0>>, <<0, 2, 0, 0>>, <<0, 4, 0, 0>>}
          /\ AnswerFields(m.mti) \ {38, 39} \subseteq DOMAIN m.fields
          /\ Len(m.fields[11]) = 6
    /\ 90 \in DOMAIN m.fields => Len(m.fields[90]) = 42

\* What two bytes can say; to_bytes(2) raises for a longer message.
Lengths == 0..65535

ASSUME MessagesAssumption ==
    \A m \in Messages : WellFormed(m) /\ Answerable(m) /\ Len(BuildMessage(m)) \in Lengths

-----------------------------------------------------------------------------
(* Writing                                                                 *)

\* to_bytes(2, "big") and its inverse.
MessageLength(n) == <<n \div 256, n % 256>>

FromBytes(b) == 256 * b[1] + b[2]

Encoded == [m \in Messages |-> BuildMessage(m)]

\* Mutant: the length counts its own two bytes.
MutCountsHeader(raw) == MessageLength(Len(raw) + PrefixBytes) \o raw

Frame(raw) == MessageLength(Len(raw)) \o raw

\* The connection self._sock stands for: the broken one until there is another.
Current == IF up THEN drops ELSE drops - 1

GoTo(s, label) == pc' = [pc EXCEPT ![s] = label]

\* ConnectionError before anything is written.
Refused(s) ==
    /\ pc[s] = "ready" /\ ~up
    /\ GoTo(s, "failed")
    /\ UNCHANGED <<msg, left, link, lock, started, readerVars, up, drops, pipe>>

\* Mutant: no lock.
MutNoLock(s) ==
    /\ pc[s] = "ready"
    /\ lock' = s
    /\ left' = [left EXCEPT ![s] = Frame(Encoded[msg[s]])]
    /\ link' = [link EXCEPT ![s] = Current]
    /\ started' = IF up THEN Append(started, s) ELSE started
    /\ GoTo(s, "write")
    /\ UNCHANGED <<msg, readerVars, up, drops, pipe>>

\* build_message(), then the lock and the socket of the moment, which may be
\* broken already.
Begin(s) ==
    /\ pc[s] = "ready"
    /\ lock = NoOne
    /\ lock' = s
    /\ left' = [left EXCEPT ![s] = Frame(Encoded[msg[s]])]
    /\ link' = [link EXCEPT ![s] = Current]
    /\ started' = IF up THEN Append(started, s) ELSE started
    /\ GoTo(s, "write")
    /\ UNCHANGED <<msg, readerVars, up, drops, pipe>>

\* Bound on the pieces: half of what there is, down to one byte, or all of it.
Pieces(n) == {n, (n + 1) \div 2} \ {0}

Live(s) == up /\ link[s] = drops

\* sendall(): k more bytes leave; those of a broken connection are lost.
Write(s, k) ==
    /\ pc[s] = "write"
    /\ pipe' = IF Live(s) THEN pipe \o Slice(left[s], 0, k) ELSE pipe
    /\ left' = [left EXCEPT ![s] = Slice(@, k, Len(@))]
    /\ IF k = Len(left[s]) THEN GoTo(s, "sent") /\ lock' = NoOne ELSE UNCHANGED <<pc, lock>>
    /\ UNCHANGED <<msg, link, started, readerVars, up, drops>>

\* Mutant: acquire() and release() without a finally clause.
MutKeepsLock(s) ==
    /\ pc[s] = "write" /\ ~Live(s)
    /\ left' = [left EXCEPT ![s] = <<>>]
    /\ GoTo(s, "failed")
    /\ UNCHANGED <<msg, link, lock, started, readerVars, up, drops, pipe>>

\* OSError from sendall(): the rest is not written, the lock is given back.
WriteFails(s) ==
    /\ pc[s] = "write" /\ ~Live(s)
    /\ left' = [left EXCEPT ![s] = <<>>]
    /\ lock' = NoOne
    /\ GoTo(s, "failed")
    /\ UNCHANGED <<msg, link, started, readerVars, up, drops, pipe>>

-----------------------------------------------------------------------------
(* Reading                                                                 *)

\* read_exact() returns: a header is followed by its body, a body goes to the parser.
Complete(bytes) ==
    /\ chunks' = <<>>
    /\ IF phase = "header"
       THEN phase' = "body" /\ need' = FromBytes(bytes) /\ UNCHANGED received
       ELSE /\ phase' = "header" /\ need' = PrefixBytes
            /\ received' = Append(received, bytes)

\* One recv(): k bytes of those still missing.
Receive(k) ==
    LET bytes == chunks \o Slice(pipe, 0, k) IN
    /\ k <= Len(pipe) /\ Len(bytes) <= need
    /\ pipe' = Slice(pipe, k, Len(pipe))
    /\ IF Len(bytes) = need THEN Complete(bytes)
                            ELSE chunks' = bytes /\ UNCHANGED <<phase, need, received>>
    /\ UNCHANGED <<senderVars, up, drops>>

\* recv() returns nothing: read_exact raises, and a new connection starts
\* with an empty buffer.
Reconnect ==
    /\ ~up /\ pipe = <<>>
    /\ up' = TRUE
    /\ phase' = "header" /\ need' = PrefixBytes /\ chunks' = <<>>
    /\ started' = <<>> /\ received' = <<>>
    /\ UNCHANGED <<msg, pc, left, link, lock, drops, pipe>>

\* The connection breaks; what was in flight may still arrive.
Drop ==
    /\ up /\ drops < MaxDrops
    /\ up' = FALSE /\ drops' = drops + 1
    /\ pipe' \in {pipe, <<>>}
    /\ UNCHANGED <<senderVars, readerVars>>

-----------------------------------------------------------------------------

WriteStep(s) == Begin(s) \/ Refused(s) \/ WriteFails(s) \/ \E k \in Pieces(Len(left[s])) : Write(s, k)

ReadStep ==
    \E k \in Pieces(Len(pipe)) \cup Pieces(Smaller(need - Len(chunks), Len(pipe))) : Receive(k)

Next ==
    \/ \E s \in Senders : WriteStep(s)
    \/ ReadStep
    \/ Reconnect
    \/ Drop

Spec == Init /\ [][Next]_vars

\* The threads run, TCP delivers, and the lock is granted sooner or later.
FairSpec == Spec /\ WF_vars(ReadStep) /\ \A s \in Senders : SF_vars(WriteStep(s))

-----------------------------------------------------------------------------
(* Properties *)

\* framing.py: the header "is what lets a receiver correctly split the stream
\* back into individual messages": what was parsed on a connection is what its
\* writers sent, in the order of their turns, each message whole and with every
\* field's value; nothing of a broken frame turns up on the next connection.
InOrder ==
    /\ Len(received) <= Len(started)
    /\ \A i \in 1..Len(received) : ParseMessage(received[i]) = Normal(msg[started[i]])

\* What Correlation takes for granted: the STAN the client registered is the one
\* it finds in the answer, and the one the switch finds in a reversal's DE 90,
\* after two trips through the codec.
AnswerFindsItsRequest ==
    \A i \in 1..Len(received) :
        LET sent == msg[started[i]]
            read == ParseMessage(received[i])
        IN /\ IsRequest(sent) =>
                 ParseMessage(BuildMessage(Answer(read))).fields[11] = sent.fields[11]
           /\ 90 \in DOMAIN sent.fields =>
                 Slice(read.fields[90], 4, 6) = Slice(sent.fields[90], 4, 6)

\* A write that fails leaves the lock to the others: every send_message() ends.
EverySendReturns == \A s \in Senders : <>(pc[s] \in {"sent", "failed"})

Arrived(s) == \E i \in 1..Len(received) : started[i] = s

\* A message that was written on a connection that holds is read at the other end.
SentIsReceived == \A s \in Senders : pc[s] = "sent" ~> Arrived(s) \/ drops > 0
=============================================================================
