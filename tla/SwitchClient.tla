---------------------------- MODULE SwitchClient ----------------------------
(***************************************************************************)
(* switch/client.py: the one TCP connection to the switch and the threads  *)
(* that share it.  A connection thread dials, signs on, starts a heartbeat *)
(* thread and receives until the socket breaks, then starts over; the      *)
(* caller threads of Correlation and the heartbeats draw STANs and write   *)
(* to the same socket.  The switch at the other end is external, and       *)
(* answers as switch/host_simulator.py does: when it likes, or never.      *)
(***************************************************************************)
EXTENDS Naturals, FiniteSets

CONSTANTS
    Callers,         \* threads inside send_and_wait
    Hearts,          \* heartbeat threads, one for each connection made
    Link,            \* the connection thread
    StanLimit,       \* 1000000 in the code: STANs are 0..StanLimit-1
    FirstStan,       \* what the counter has reached
    Interruptible,   \* threads others may interrupt inside next_stan(): all, in the code
    SwitchReorders,  \* a 0400 may overtake the 0200 it reverses
    MaxDrops,        \* bound on broken connections
    MaxBeats         \* bound on echo tests

Threads == Callers \cup Hearts \cup {Link}

Stans == 0..StanLimit - 1

ASSUME ClientAssumption ==
    /\ StanLimit \in Nat \ {0}
    /\ FirstStan \in Stans
    /\ Interruptible \subseteq Threads
    /\ SwitchReorders \in BOOLEAN
    /\ MaxDrops \in Nat /\ MaxBeats \in Nat
    /\ Callers \cap Hearts = {} /\ Link \notin Callers \cup Hearts

VARIABLES
    pc,           \* next step of each thread
    connected,    \* the _connected event
    sock,         \* the client's socket: "none", "up" or "down"
    counter,      \* _stan_counter
    stanPc,       \* where each thread is inside next_stan
    loaded,       \* the counter as each thread read it, until it stores
    drawn,        \* the last STAN each thread drew
    overlapped,   \* history: threads whose draw another thread's draw has overlapped
    clean,        \* history: STANs drawn without that since the counter last came round
    toSwitch,     \* requests on their way to the switch
    toClient,     \* responses on their way back
    authorised,   \* payments the switch has approved: [of, stan]
    reversed,     \* ... and undone
    drops, beats

stanVars == <<counter, stanPc, loaded, drawn, overlapped, clean>>
socketVars == <<connected, sock, drops>>
switchVars == <<authorised, reversed>>
clientVars == <<pc, stanVars, socketVars, switchVars, toSwitch, toClient, beats>>

-----------------------------------------------------------------------------
(* Messages.  The sender is not in the message: it stands for the card and *)
(* the amount, which tell whose payment a response is about.               *)

Message(mti, stan, of, orig) ==
    [mti |-> mti, stan |-> stan, of |-> of, orig |-> orig, conn |-> drops]

Messages(mtis) == [mti : mtis, stan : Stans, of : Threads, orig : Stans, conn : 0..MaxDrops]

Requests == Messages({"0200", "0400", "0800"})

Responses == Messages({"0210", "0410", "0810"})

Payments == [of : Callers, stan : Stans]

ClientInit ==
    /\ pc = [t \in Threads |->
               IF t = Link THEN "dial" ELSE IF t \in Callers THEN "stan" ELSE "off"]
    /\ connected = FALSE /\ sock = "none"
    /\ counter = FirstStan
    /\ stanPc = [t \in Threads |-> "idle"]
    /\ loaded = [t \in Threads |-> FirstStan]
    /\ drawn = [t \in Threads |-> FirstStan]
    /\ overlapped = {} /\ clean = {}
    /\ toSwitch = {} /\ toClient = {}
    /\ authorised = {} /\ reversed = {}
    /\ drops = 0 /\ beats = 0

GoTo(t, label) == pc' = [pc EXCEPT ![t] = label]

-----------------------------------------------------------------------------
(* next_stan(): load, store and read again, for the return, one counter.   *)
(* It takes no lock: any thread may come between the steps.                *)

NextLabel(label) == CASE label = "stan"   -> "register"
                      [] label = "rstan"  -> "reverse"
                      [] label = "signon" -> "greet"
                      [] label = "beat"   -> "echo"

DrawsStan(t) == pc[t] \in {"stan", "rstan", "signon", "beat"}

\* Threads inside next_stan().
Inside == {t \in Threads : stanPc[t] # "idle"}

LoadCounter(t) ==
    /\ DrawsStan(t)
    /\ stanPc[t] = "idle"
    /\ loaded' = [loaded EXCEPT ![t] = counter]
    /\ stanPc' = [stanPc EXCEPT ![t] = "store"]
    /\ overlapped' = IF Inside = {} THEN overlapped ELSE overlapped \cup Inside \cup {t}
    /\ UNCHANGED <<counter, drawn, clean, pc>>

StoreCounter(t) ==
    /\ stanPc[t] = "store"
    /\ counter' = (loaded[t] + 1) % StanLimit
    /\ loaded' = [loaded EXCEPT ![t] = FirstStan]
    /\ stanPc' = [stanPc EXCEPT ![t] = "format"]
    /\ clean' = IF loaded[t] + 1 = StanLimit THEN {} ELSE clean
    /\ UNCHANGED <<drawn, overlapped, pc>>

FormatCounter(t) ==
    /\ stanPc[t] = "format"
    /\ drawn' = [drawn EXCEPT ![t] = counter]
    /\ stanPc' = [stanPc EXCEPT ![t] = "idle"]
    /\ GoTo(t, NextLabel(pc[t]))
    /\ overlapped' = overlapped \ {t}
    /\ clean' = IF t \in overlapped THEN clean ELSE clean \cup {counter}
    /\ UNCHANGED <<counter, loaded>>

\* The three steps when no other thread comes between them.
Uninterrupted(t) ==
    /\ DrawsStan(t)
    /\ counter' = (counter + 1) % StanLimit
    /\ drawn' = [drawn EXCEPT ![t] = counter']
    /\ GoTo(t, NextLabel(pc[t]))
    /\ overlapped' = Inside
    /\ clean' = (IF counter + 1 = StanLimit THEN {} ELSE clean)
                    \cup (IF Inside = {} THEN {counter'} ELSE {})
    /\ UNCHANGED <<stanPc, loaded>>

NextStan(t) ==
    /\ IF t \in Interruptible THEN LoadCounter(t) \/ StoreCounter(t) \/ FormatCounter(t)
                              ELSE Uninterrupted(t)
    /\ UNCHANGED <<socketVars, switchVars, toSwitch, toClient, beats>>

-----------------------------------------------------------------------------
(* send_message(): the test of _connected and the write are one step; a    *)
(* drop between them looks like a write to a socket that is down already   *)

\* The message is in the socket's buffer: on its way, or lost with a broken
\* connection the kernel has not reported yet.
SendReturns(m) ==
    /\ connected
    /\ \/ sock = "up" /\ toSwitch' = toSwitch \cup {m}
       \/ sock = "down" /\ UNCHANGED toSwitch

\* ConnectionError from the test, or OSError from the write.
SendRaises ==
    /\ ~connected \/ sock = "down"
    /\ UNCHANGED toSwitch

-----------------------------------------------------------------------------
(* The connection thread                                                   *)

\* Mutant: the counter starts again with every connection.
MutRestartsCounter ==
    /\ pc[Link] = "dial"
    /\ sock' = "up"
    /\ counter' = FirstStan
    /\ GoTo(Link, "announce")
    /\ UNCHANGED <<connected, drops, stanPc, loaded, drawn, overlapped, clean, switchVars,
                   toSwitch, toClient, beats>>

\* create_connection succeeds; an attempt that fails changes nothing.
Dial ==
    /\ pc[Link] = "dial"
    /\ sock' = "up"
    /\ GoTo(Link, "announce")
    /\ UNCHANGED <<connected, drops, stanVars, switchVars, toSwitch, toClient, beats>>

\* _connected is set before the sign-on is sent.
Announce ==
    /\ pc[Link] = "announce"
    /\ connected' = TRUE
    /\ GoTo(Link, "signon")
    /\ UNCHANGED <<sock, drops, stanVars, switchVars, toSwitch, toClient, beats>>

SignOn ==
    /\ pc[Link] = "greet"
    /\ \/ SendReturns(Message("0800", drawn[Link], Link, drawn[Link])) /\ GoTo(Link, "heart")
       \/ SendRaises /\ GoTo(Link, "cleanup")
    /\ UNCHANGED <<socketVars, stanVars, switchVars, toClient, beats>>

\* A fresh thread, whichever.
FreshHeart == CHOOSE h \in Hearts : pc[h] = "off"

StartHeart ==
    /\ pc[Link] = "heart"
    /\ \E h \in Hearts : pc[h] = "off"
    /\ pc' = [pc EXCEPT ![FreshHeart] = "asleep", ![Link] = "receive"]
    /\ UNCHANGED <<stanVars, socketVars, switchVars, toSwitch, toClient, beats>>

\* Mutant: only a clean end of the loop reaches the cleanup.
MutReceiveLoopDies ==
    /\ pc[Link] = "receive" /\ sock = "down"
    /\ GoTo(Link, "dead")
    /\ UNCHANGED <<stanVars, socketVars, switchVars, toSwitch, toClient, beats>>

\* read_framed_message raises, with or without responses left to read; every
\* exception is caught.
ReceiveFails ==
    /\ pc[Link] = "receive" /\ sock = "down"
    /\ GoTo(Link, "cleanup")
    /\ UNCHANGED <<stanVars, socketVars, switchVars, toSwitch, toClient, beats>>

\* Mutant: no finally, the event stays set while nobody listens.
MutStaysConnected ==
    /\ pc[Link] = "cleanup"
    /\ GoTo(Link, "dial")
    /\ UNCHANGED <<stanVars, socketVars, switchVars, toSwitch, toClient, beats>>

\* The finally clause, and the pause before the next attempt; what the broken
\* socket still held is never read.
Cleanup ==
    /\ pc[Link] = "cleanup"
    /\ connected' = FALSE
    /\ toClient' = {}
    /\ GoTo(Link, "dial")
    /\ UNCHANGED <<sock, drops, stanVars, switchVars, toSwitch, beats>>

-----------------------------------------------------------------------------
(* Heartbeats: a thread outlives its connection if it sleeps through the   *)
(* reconnection                                                            *)

WakeUp(h) ==
    /\ pc[h] = "asleep"
    /\ IF connected THEN /\ beats < MaxBeats
                         /\ beats' = beats + 1
                         /\ GoTo(h, "beat")
                    ELSE GoTo(h, "over") /\ UNCHANGED beats
    /\ UNCHANGED <<stanVars, socketVars, switchVars, toSwitch, toClient>>

Echo(h) ==
    /\ pc[h] = "echo"
    /\ \/ SendReturns(Message("0800", drawn[h], h, drawn[h])) /\ GoTo(h, "asleep")
       \/ SendRaises /\ GoTo(h, "over")
    /\ UNCHANGED <<stanVars, socketVars, switchVars, toClient, beats>>

-----------------------------------------------------------------------------
(* The network and the switch                                              *)

\* The connection breaks.  What was sent may still reach the switch, and what had
\* come back by then can still be read.
Drop ==
    /\ sock = "up" /\ drops < MaxDrops
    /\ sock' = "down"
    /\ drops' = drops + 1
    /\ \E arrived \in SUBSET toClient : toClient' = arrived
    /\ UNCHANGED <<pc, connected, stanVars, switchVars, toSwitch, beats>>

AnswerTo(m) ==
    [mti |-> CASE m.mti = "0200" -> "0210" [] m.mti = "0400" -> "0410" [] m.mti = "0800" -> "0810",
     stan |-> m.stan, of |-> m.of, orig |-> m.orig, conn |-> m.conn]

\* External.  A 0200 is approved, a 0400 undoes the approval that has the STAN
\* of its DE 90; the response may not be sent, or not on a live connection.
SwitchHandles(m) ==
    /\ m \in toSwitch
    /\ SwitchReorders \/ m.mti # "0400"
         \/ \A n \in toSwitch : ~(n.mti = "0200" /\ n.stan = m.orig)
    /\ toSwitch' = toSwitch \ {m}
    /\ authorised' = IF m.mti = "0200"
                     THEN authorised \cup {[of |-> m.of, stan |-> m.stan]} ELSE authorised
    /\ reversed' = IF m.mti = "0400"
                   THEN reversed \cup {p \in authorised : p.stan = m.orig} ELSE reversed
    /\ \/ UNCHANGED toClient
       \/ m.conn = drops /\ toClient' = toClient \cup {AnswerTo(m)}
    /\ UNCHANGED <<pc, stanVars, socketVars, beats>>

ClientTypeOK ==
    /\ connected \in BOOLEAN
    /\ sock \in {"none", "up", "down"}
    /\ counter \in Stans
    /\ stanPc \in [Threads -> {"idle", "store", "format"}]
    /\ loaded \in [Threads -> Stans] /\ drawn \in [Threads -> Stans]
    /\ overlapped \subseteq Inside /\ clean \subseteq Stans
    /\ toSwitch \subseteq Requests /\ toClient \subseteq Responses
    /\ authorised \subseteq Payments /\ reversed \subseteq authorised
    /\ drops \in 0..MaxDrops /\ beats \in 0..MaxBeats
=============================================================================
