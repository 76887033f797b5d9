----------------------------- MODULE Correlation ----------------------------
(***************************************************************************)
(* correlation/tracker.py over the connection of SwitchClient: callers     *)
(* register a pending request under a STAN, send a 0200 and wait; the      *)
(* connection thread hands each response to whoever its STAN is registered *)
(* for; a caller that times out sends a 0400.  The outcome is the one      *)
(* DirectIsoTransport.authorize (switch/transport.py) makes of it.         *)
(***************************************************************************)
EXTENDS SwitchClient

CONSTANTS NoOne, NoAnswer

VARIABLES
    pending,   \* _pending: the caller whose PendingRequest each STAN holds
    stan,      \* the STAN of each caller's 0200
    response,  \* PendingRequest.response, its event set as soon as there is one
    received,  \* the response in the connection thread's hands
    found,     \* ... and the caller it looked up for it
    outcome,   \* what each caller's authorize() returned
    answer,    \* ... with which response
    repeated   \* history: STANs drawn while a request or a payment still bore them

trackerVars == <<pending, stan, response, received, found, outcome, answer>>
vars == <<clientVars, trackerVars, repeated>>

ASSUME TrackerAssumption == NoOne \notin Callers /\ NoAnswer \notin Responses

TypeOK ==
    /\ ClientTypeOK
    /\ pc \in [Threads -> {"stan", "register", "send", "wait", "rstan", "reverse", "pop", "done",
                           "dial", "announce", "signon", "greet", "heart", "receive", "deliver",
                           "cleanup", "off", "asleep", "beat", "echo", "over"}]
    /\ pending \in [Stans -> Callers \cup {NoOne}]
    /\ stan \in [Callers -> Stans]
    /\ response \in [Callers -> Responses \cup {NoAnswer}]
    /\ answer \in [Callers -> Responses \cup {NoAnswer}]
    /\ received \in Responses \cup {NoAnswer}
    /\ found \in Callers \cup {NoOne}
    /\ outcome \in [Callers -> {"none", "answered", "timeout", "unreachable"}]
    /\ repeated \subseteq Stans

Init ==
    /\ ClientInit
    /\ pending = [s \in Stans |-> NoOne]
    /\ stan = [c \in Callers |-> FirstStan]
    /\ response = [c \in Callers |-> NoAnswer]
    /\ answer = [c \in Callers |-> NoAnswer]
    /\ received = NoAnswer /\ found = NoOne
    /\ outcome = [c \in Callers |-> "none"]
    /\ repeated = {}

-----------------------------------------------------------------------------
(* send_and_wait()                                                         *)

Register(c) ==
    /\ pc[c] = "register"
    /\ stan' = [stan EXCEPT ![c] = drawn[c]]
    /\ pending' = [pending EXCEPT ![drawn[c]] = c]
    /\ GoTo(c, "send")
    /\ UNCHANGED <<stanVars, socketVars, switchVars, toSwitch, toClient, beats,
                   response, received, found, outcome, answer>>

\* The caller leaves the try block with this outcome.
Leave(c, how) == outcome' = [outcome EXCEPT ![c] = how] /\ GoTo(c, "pop")

Send(c) ==
    /\ pc[c] = "send"
    /\ \/ /\ SendReturns(Message("0200", stan[c], c, stan[c]))
          /\ GoTo(c, "wait") /\ UNCHANGED outcome
       \/ SendRaises /\ Leave(c, "unreachable")
    /\ UNCHANGED <<stanVars, socketVars, switchVars, toClient, beats,
                   pending, stan, response, received, found, answer>>

Answered(c) ==
    /\ pc[c] = "wait"
    /\ response[c] # NoAnswer
    /\ answer' = [answer EXCEPT ![c] = response[c]]
    /\ Leave(c, "answered")
    /\ UNCHANGED <<stanVars, socketVars, switchVars, toSwitch, toClient, beats,
                   pending, stan, response, received, found>>

\* Mutant: only a broken connection ends the wait.
MutWaitsForever(c) ==
    /\ pc[c] = "wait"
    /\ response[c] = NoAnswer /\ ~connected
    /\ GoTo(c, "rstan")
    /\ UNCHANGED <<stanVars, socketVars, switchVars, toSwitch, toClient, beats, trackerVars>>

TimesOut(c) ==
    /\ pc[c] = "wait"
    /\ response[c] = NoAnswer
    /\ GoTo(c, "rstan")
    /\ UNCHANGED <<stanVars, socketVars, switchVars, toSwitch, toClient, beats, trackerVars>>

\* Mutant: DE 90 holds the reversal's own STAN.
MutReversesWrongStan(c) ==
    /\ pc[c] = "reverse"
    /\ \/ /\ SendReturns(Message("0400", drawn[c], c, drawn[c]))
          /\ Leave(c, "timeout")
       \/ SendRaises /\ Leave(c, "unreachable")
    /\ UNCHANGED <<stanVars, socketVars, switchVars, toClient, beats,
                   pending, stan, response, received, found, answer>>

\* Mutant: DE 90 holds the STAN before the reversal's own.
MutReversesPrevious(c) ==
    /\ pc[c] = "reverse"
    /\ \/ /\ SendReturns(Message("0400", drawn[c], c, (drawn[c] + StanLimit - 1) % StanLimit))
          /\ Leave(c, "timeout")
       \/ SendRaises /\ Leave(c, "unreachable")
    /\ UNCHANGED <<stanVars, socketVars, switchVars, toClient, beats,
                   pending, stan, response, received, found, answer>>

\* The reversal is sent, and TransactionTimeout raised; or sending it raises
\* ConnectionError, which authorize() takes for a switch it never reached.
SendReversal(c) ==
    /\ pc[c] = "reverse"
    /\ \/ /\ SendReturns(Message("0400", drawn[c], c, stan[c]))
          /\ Leave(c, "timeout")
       \/ SendRaises /\ Leave(c, "unreachable")
    /\ UNCHANGED <<stanVars, socketVars, switchVars, toClient, beats,
                   pending, stan, response, received, found, answer>>

\* Mutant: pop() only after an answer, not in a finally clause.
MutPopsAnsweredOnly(c) ==
    /\ pc[c] = "pop"
    /\ pending' = IF outcome[c] = "answered" THEN [pending EXCEPT ![stan[c]] = NoOne] ELSE pending
    /\ GoTo(c, "done")
    /\ UNCHANGED <<stanVars, socketVars, switchVars, toSwitch, toClient, beats,
                   stan, response, received, found, outcome, answer>>

\* The finally clause.
Pop(c) ==
    /\ pc[c] = "pop"
    /\ pending' = [pending EXCEPT ![stan[c]] = NoOne]
    /\ GoTo(c, "done")
    /\ UNCHANGED <<stanVars, socketVars, switchVars, toSwitch, toClient, beats,
                   stan, response, received, found, outcome, answer>>

-----------------------------------------------------------------------------
(* _handle_incoming(), on the connection thread                            *)

\* Mutant: the response is matched to any waiting caller.
MutMatchesAnyone(m) ==
    /\ pc[Link] = "receive"
    /\ m \in toClient
    /\ toClient' = toClient \ {m}
    /\ received' = m
    /\ found' \in {pending[s] : s \in Stans}
    /\ GoTo(Link, "deliver")
    /\ UNCHANGED <<stanVars, socketVars, switchVars, toSwitch, beats,
                   pending, stan, response, outcome, answer>>

\* The next response, in whatever order the switch sent them; the lookup holds
\* the lock.
Receive(m) ==
    /\ pc[Link] = "receive"
    /\ m \in toClient
    /\ toClient' = toClient \ {m}
    /\ received' = m
    /\ found' = pending[m.stan]
    /\ GoTo(Link, "deliver")
    /\ UNCHANGED <<stanVars, socketVars, switchVars, toSwitch, beats,
                   pending, stan, response, outcome, answer>>

\* Outside the lock: the caller may have timed out and gone.  A response
\* nobody waits for goes to the previous on_message.
Deliver ==
    /\ pc[Link] = "deliver"
    /\ response' = IF found = NoOne THEN response ELSE [response EXCEPT ![found] = received]
    /\ received' = NoAnswer /\ found' = NoOne
    /\ GoTo(Link, "receive")
    /\ UNCHANGED <<stanVars, socketVars, switchVars, toSwitch, toClient, beats,
                   pending, stan, outcome, answer>>

-----------------------------------------------------------------------------

\* Callers inside the try block of send_and_wait.
Trying == {c \in Callers : pc[c] \in {"send", "wait", "rstan", "reverse", "pop"}}

\* Threads that have a STAN and have not put it to use yet.
Holding == {t \in Threads : pc[t] \in {"register", "reverse", "greet", "echo"}}

InHand == {received} \ {NoAnswer}

\* STANs that tell something from everything else: a message on its way, a thread's
\* next message, an entry of _pending; and, in DE 90, an approved payment or one to
\* be undone.
InUse ==
    {drawn[t] : t \in Holding} \cup {stan[c] : c \in Trying}
        \cup {m.stan : m \in toSwitch \cup toClient \cup InHand}
        \cup {m.orig : m \in toSwitch} \cup {p.stan : p \in authorised}

Draws(t) == DrawsStan(t) /\ ~DrawsStan(t)'

DrawStep(t) ==
    /\ NextStan(t)
    /\ repeated' = repeated \cup {s \in InUse : Draws(t) /\ s = drawn'[t]}
    /\ UNCHANGED trackerVars

CallerStep(c) ==
    /\ Register(c) \/ Send(c) \/ Answered(c) \/ TimesOut(c) \/ SendReversal(c) \/ Pop(c)
    /\ UNCHANGED repeated

\* The steps of client.py leave the tracker alone.
ClientStep(A) == A /\ UNCHANGED <<trackerVars, repeated>>

LinkStep ==
    \/ DrawStep(Link)
    \/ ClientStep(Dial) \/ ClientStep(Announce) \/ ClientStep(SignOn)
    \/ ClientStep(StartHeart)
    \/ ClientStep(ReceiveFails) \/ ClientStep(Cleanup)
    \/ (\E m \in toClient : Receive(m)) /\ UNCHANGED repeated
    \/ Deliver /\ UNCHANGED repeated

Next ==
    \/ \E c \in Callers : DrawStep(c) \/ CallerStep(c)
    \/ LinkStep
    \/ \E h \in Hearts : DrawStep(h) \/ ClientStep(WakeUp(h)) \/ ClientStep(Echo(h))
    \/ ClientStep(Drop)
    \/ \E m \in toSwitch : ClientStep(SwitchHandles(m))

Spec == Init /\ [][Next]_vars

\* Threads run: the callers' wait is bounded, the connection thread's
\* create_connection succeeds once in a while.
Fairness ==
    /\ \A c \in Callers : WF_vars(DrawStep(c) \/ CallerStep(c))
    /\ WF_vars(LinkStep)
    /\ \A h \in Hearts : WF_vars(DrawStep(h) \/ ClientStep(Echo(h)))

FairSpec == Spec /\ Fairness

\* External: the switch handles what it is sent.
FairSwitchSpec ==
    FairSpec /\ \A c \in Callers : \A mti \in {"0200", "0400"} :
        WF_vars(\E m \in toSwitch : m.mti = mti /\ m.of = c /\ ClientStep(SwitchHandles(m)))

-----------------------------------------------------------------------------
(* Properties *)

\* "Unique per connection" (DE 11), as far as next_stan() keeps it without a lock:
\* however many draws of other threads overlap each other or run into one another
\* later, a STAN that was drawn undisturbed is not drawn again before the counter
\* comes round, which it does with 0.  A STAN drawn twice was, the first time, that
\* of a disturbed draw.
UndisturbedIsUnique == [][\A t \in Threads : Draws(t) => drawn'[t] \notin clean \ {0}]_vars

\* "matches responses to the requests that caused them": whatever the order of
\* responses, echoes, timeouts and reconnections, a caller is answered with the
\* 0210 to its own 0200.  STANs that are drawn twice, by a race or by a counter
\* that came round on requests still open, harm those who bear them and no others.
OwnAnswer ==
    \A c \in Callers :
        outcome[c] = "answered" =>
            \/ answer[c].mti = "0210" /\ answer[c].of = c
            \/ stan[c] \in repeated

\* "the caller doesn't need to (and shouldn't) send" a reversal: the one that
\* was sent names the caller's own payment.  No payment is undone whose caller
\* has been, or will be, told the answer of the switch, unless another request
\* was given its STAN.
OnlyTimedOutReversed ==
    \A p \in reversed :
        \/ outcome[p.of] \in {"none", "timeout"} /\ answer[p.of] = NoAnswer
        \/ p.stan \in repeated

\* Every entry of _pending belongs to a caller still inside its try block: the
\* map does not grow and a finished call cannot absorb another's response.
PendingIsWaiting ==
    \A s \in Stans : pending[s] # NoOne => pending[s] \in Trying /\ stan[pending[s]] = s

\* client.py: "otherwise self._connected stays True forever even though nothing
\* is actually listening": while the event is set the thread is on its socket.
ConnectedIsListening ==
    connected => pc[Link] \in {"signon", "greet", "heart", "receive", "deliver", "cleanup"}

\* transport.py, of a ConnectionError: "Never reached the switch, so nothing was
\* authorized and no reversal is needed".
UnreachableMeansUnsent ==
    \A c \in Callers : outcome[c] = "unreachable" => \A p \in authorised : p.of # c

\* "blocks until its matching response arrives, or the timeout expires": every
\* call returns, over any number of reconnections.
EveryCallReturns == \A c \in Callers : <>(pc[c] = "done")

\* The connection thread gets over every failure and listens again.
ListensAgain == []<>(pc[Link] = "receive" /\ connected)

\* As long as the connection holds, money does not stay moved behind the
\* caller's back: an approval is answered or reversed.
ApprovalIsSettled ==
    \A c \in Callers :
        (\E p \in authorised : p.of = c) ~>
            (\/ outcome[c] = "answered"
             \/ \E p \in reversed : p.of = c
             \/ drops > 0)
=============================================================================
