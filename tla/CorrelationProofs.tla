-------------------------- MODULE CorrelationProofs --------------------------
(***************************************************************************)
(* Proofs about Correlation, for any number of callers, heartbeats and     *)
(* broken connections, and for draws of next_stan() that interrupt each    *)
(* other or come round on STANs in use: the map of pending requests and    *)
(* the flag of the connection are kept whatever the counter does; a caller *)
(* gets its own answer and a reversal undoes its sender's payment, unless  *)
(* that very STAN was drawn again while in use; and one drawn undisturbed  *)
(* is not drawn again before the counter comes round.                      *)
(***************************************************************************)
EXTENDS Correlation, TLAPS

-----------------------------------------------------------------------------
(* What holds whatever STANs are drawn *)

\* Each kind of thread keeps to its own steps, and is inside next_stan() only
\* where it draws a STAN.
ControlInv ==
    /\ pc[Link] \in {"dial", "announce", "signon", "greet", "heart", "receive",
                     "deliver", "cleanup"}
    /\ \A c \in Callers : pc[c] \in {"stan", "register", "send", "wait", "rstan",
                                     "reverse", "pop", "done"}
    /\ \A h \in Hearts : pc[h] \in {"off", "asleep", "beat", "echo", "over"}
    /\ \A t \in Threads : stanPc[t] # "idle" => t \in Interruptible /\ DrawsStan(t)

\* Only callers pay.
SenderInv == \A m \in toSwitch : m.mti = "0200" => m.of \in Callers

BaseInv == TypeOK /\ ControlInv /\ SenderInv /\ PendingIsWaiting /\ ConnectedIsListening

-----------------------------------------------------------------------------
(* What holds of the STANs that were not drawn again while in use *)

Travelling == toSwitch \cup toClient \cup InHand

\* A STAN has one owner: the thread that drew it, the caller that registered it,
\* and every message that bears it speak of the same request.
StanInv ==
    /\ \A t, u \in Holding : t # u /\ drawn[t] = drawn[u] => drawn[t] \in repeated
    /\ \A t \in Holding, c \in Trying : drawn[t] = stan[c] => drawn[t] \in repeated
    /\ \A c, d \in Trying : c # d /\ stan[c] = stan[d] => stan[c] \in repeated
    /\ \A m \in Travelling, t \in Holding : m.stan = drawn[t] => m.stan \in repeated
    /\ \A m \in Travelling, c \in Trying :
          m.stan = stan[c] => \/ m.of = c /\ m.mti \in {"0200", "0210"}
                              \/ m.stan \in repeated

Own(c, m) == (m.mti = "0210" /\ m.of = c) \/ stan[c] \in repeated

Registered(c) == pc[c] \notin {"stan", "register"}

\* ... so what the connection thread found, and what it has handed over, is the
\* caller's own.
HandedInv ==
    /\ found # NoOne => Registered(found) /\ Own(found, received)
    /\ \A c \in Callers : response[c] # NoAnswer => Registered(c) /\ Own(c, response[c])
    /\ \A c \in Callers : outcome[c] = "answered" => Registered(c) /\ Own(c, answer[c])

AnswerInv == StanInv /\ HandedInv

\* A payment and the reversals that name its STAN are of one caller.
PaymentInv ==
    /\ \A p \in authorised, t \in Holding : p.stan = drawn[t] => p.stan \in repeated
    /\ \A p \in authorised, c \in Trying :
          p.stan = stan[c] => p.of = c \/ p.stan \in repeated
    /\ \A m \in toSwitch, t \in Holding : m.orig = drawn[t] => m.orig \in repeated
    /\ \A m \in toSwitch, c \in Trying :
          m.orig = stan[c] => m.of = c \/ m.orig \in repeated

\* ... and that caller has timed out.
ReversalInv ==
    /\ \A m \in toSwitch : m.mti = "0400" =>
          /\ m.of \in Callers /\ outcome[m.of] = "timeout"
          /\ \A p \in authorised :
                p.stan = m.orig => p.of = m.of \/ p.stan \in repeated
          /\ \A n \in toSwitch :
                n.mti = "0200" /\ n.stan = m.orig => n.of = m.of \/ n.stan \in repeated
    /\ \A p \in reversed : outcome[p.of] = "timeout" \/ p.stan \in repeated

OutcomeInv ==
    \A c \in Callers : /\ answer[c] # NoAnswer => outcome[c] = "answered"
                       /\ outcome[c] # "none" => pc[c] \in {"pop", "done"}

SettledInv == PaymentInv /\ ReversalInv /\ OutcomeInv

-----------------------------------------------------------------------------
(* Messages and STANs *)

LEMMA RequestTyped ==
    ASSUME NEW mti \in {"0200", "0400", "0800"}, NEW s \in Stans, NEW t \in Threads,
           NEW o \in Stans, drops \in 0..MaxDrops
    PROVE  Message(mti, s, t, o) \in Requests
BY DEF Message, Requests, Messages

LEMMA AnswerTyped ==
    ASSUME NEW m \in Requests
    PROVE  /\ AnswerTo(m) \in Responses
           /\ AnswerTo(m).stan = m.stan /\ AnswerTo(m).of = m.of /\ AnswerTo(m).orig = m.orig
           /\ AnswerTo(m).mti = "0210" <=> m.mti = "0200"
<1>1. m.mti \in {"0200", "0400", "0800"}  BY DEF Requests, Messages
<1>2. (CASE m.mti = "0200" -> "0210" [] m.mti = "0400" -> "0410" [] m.mti = "0800" -> "0810")
          \in {"0210", "0410", "0810"}
    BY <1>1
<1>3. AnswerTo(m).mti = "0210" <=> m.mti = "0200"  BY <1>1 DEF AnswerTo
<1>4. AnswerTo(m).mti \in {"0210", "0410", "0810"}  BY <1>2 DEF AnswerTo
<1>5. AnswerTo(m) \in Responses
    BY <1>4 DEF AnswerTo, Requests, Responses, Messages
<1> QED  BY <1>3, <1>5 DEF AnswerTo

\* The counter stays within a STAN's six digits.
LEMMA CounterWraps ==
    ASSUME NEW n \in Stans
    PROVE  (n + 1) % StanLimit \in Stans
BY ClientAssumption DEF Stans

LEMMA ThreadKinds ==
    /\ Callers \subseteq Threads /\ Hearts \subseteq Threads /\ Link \in Threads
    /\ \A c \in Callers : c \notin Hearts /\ c # Link
    /\ Link \notin Hearts
BY ClientAssumption DEF Threads

\* next_stan() either prepares a draw or makes it.
LEMMA DrawSteps ==
    ASSUME NEW t \in Threads, NextStan(t), TypeOK, ControlInv
    PROVE  /\ DrawsStan(t)
           /\ UNCHANGED <<socketVars, switchVars, toSwitch, toClient, beats>>
           /\ counter' \in Stans
           /\ loaded' \in [Threads -> Stans]
           /\ stanPc' \in [Threads -> {"idle", "store", "format"}]
           /\ overlapped' \subseteq Inside' /\ clean' \subseteq Stans
           /\ \A u \in Threads : u # t => stanPc'[u] = stanPc[u]
           /\ \/ UNCHANGED <<pc, drawn>> /\ t \in Interruptible
              \/ /\ stanPc'[t] = "idle"
                 /\ pc' = [pc EXCEPT ![t] = NextLabel(pc[t])]
                 /\ drawn' \in [Threads -> Stans]
                 /\ \A u \in Threads : u # t => drawn'[u] = drawn[u]
<1>0. counter \in Stans /\ loaded \in [Threads -> Stans] /\ drawn \in [Threads -> Stans]
      /\ stanPc \in [Threads -> {"idle", "store", "format"}]
      /\ overlapped \subseteq Inside /\ clean \subseteq Stans
      /\ (stanPc[t] # "idle" => t \in Interruptible /\ DrawsStan(t))
    BY DEF TypeOK, ClientTypeOK, ControlInv
<1>1. UNCHANGED <<socketVars, switchVars, toSwitch, toClient, beats>>  BY DEF NextStan
<1>2. CASE t \in Interruptible /\ LoadCounter(t)
    <2>1. Inside' = Inside \cup {t}  BY <1>0, <1>2 DEF LoadCounter, Inside
    <2>2. overlapped' \subseteq Inside'  BY <1>0, <1>2, <2>1 DEF LoadCounter
    <2> QED  BY <1>0, <1>1, <1>2, <2>2 DEF LoadCounter
<1>3. CASE t \in Interruptible /\ StoreCounter(t)
    <2>1. counter' \in Stans /\ FirstStan \in Stans
        BY <1>0, <1>3, CounterWraps, ClientAssumption DEF StoreCounter
    <2>2. Inside' = Inside  BY <1>0, <1>3 DEF StoreCounter, Inside
    <2>3. overlapped' \subseteq Inside' /\ clean' \subseteq Stans
        BY <1>0, <1>3, <2>2 DEF StoreCounter
    <2> QED  BY <1>0, <1>1, <1>3, <2>1, <2>3 DEF StoreCounter
<1>4. CASE t \in Interruptible /\ FormatCounter(t)
    <2>1. Inside' = Inside \ {t}  BY <1>0, <1>4 DEF FormatCounter, Inside
    <2>2. overlapped' \subseteq Inside' /\ clean' \subseteq Stans
        BY <1>0, <1>4, <2>1 DEF FormatCounter
    <2> QED  BY <1>0, <1>1, <1>4, <2>2 DEF FormatCounter, GoTo
<1>5. CASE t \notin Interruptible /\ Uninterrupted(t)
    <2>1. counter' \in Stans  BY <1>0, <1>5, CounterWraps DEF Uninterrupted
    <2>2. overlapped' \subseteq Inside' /\ clean' \subseteq Stans
        BY <1>0, <1>5, <2>1 DEF Uninterrupted, Inside
    <2> QED  BY <1>0, <1>1, <1>5, <2>1, <2>2 DEF Uninterrupted, GoTo
<1> QED  BY <1>2, <1>3, <1>4, <1>5 DEF NextStan

\* What a thread draws a STAN for.
LEMMA DrawLabels ==
    ASSUME NEW t \in Threads, DrawsStan(t)
    PROVE  /\ NextLabel(pc[t]) \in {"register", "reverse", "greet", "echo"}
           /\ pc[t] = "stan" => NextLabel(pc[t]) = "register"
           /\ pc[t] = "rstan" => NextLabel(pc[t]) = "reverse"
           /\ pc[t] = "signon" => NextLabel(pc[t]) = "greet"
           /\ pc[t] = "beat" => NextLabel(pc[t]) = "echo"
BY DEF DrawsStan, NextLabel

LEMMA FreshHeartSleeps ==
    ASSUME \E h \in Hearts : pc[h] = "off"
    PROVE  FreshHeart \in Hearts /\ pc[FreshHeart] = "off"
BY DEF FreshHeart

-----------------------------------------------------------------------------
(* Typing *)

\* A step changes one thread's place, to a place of the program.
Labels == {"stan", "register", "send", "wait", "rstan", "reverse", "pop", "done",
           "dial", "announce", "signon", "greet", "heart", "receive", "deliver",
           "cleanup", "off", "asleep", "beat", "echo", "over"}

LEMMA GoToTyped ==
    ASSUME NEW t \in Threads, NEW l \in Labels, pc \in [Threads -> Labels], GoTo(t, l)
    PROVE  pc' \in [Threads -> Labels]
BY DEF GoTo

LEMMA TypeStep ==
    ASSUME TypeOK, ControlInv, SenderInv, Next
    PROVE  TypeOK'
<1> USE DEF TypeOK, ClientTypeOK, stanVars, socketVars, switchVars, ClientStep, trackerVars
<1>0. pc \in [Threads -> Labels]  BY DEF Labels
<1>a. UNCHANGED stanVars => overlapped' \subseteq Inside'  BY DEF Inside
<1>1. ASSUME NEW t \in Threads, DrawStep(t)  PROVE TypeOK'
    <2>1. NextStan(t) /\ UNCHANGED trackerVars  BY <1>1 DEF DrawStep
    <2>5. repeated' \subseteq Stans
        <3>1. \A u \in Threads : drawn'[u] \in Stans  BY <2>1, DrawSteps
        <3> QED  BY <1>1, <3>1 DEF DrawStep
    <2>2. DrawsStan(t) /\ NextLabel(pc[t]) \in Labels
        BY <2>1, DrawSteps, DrawLabels DEF Labels
    <2>3. pc' \in [Threads -> Labels]  BY <1>0, <2>1, <2>2, DrawSteps
    <2>4. drawn' \in [Threads -> Stans]  BY <2>1, DrawSteps
    <2> QED  BY <2>1, <2>3, <2>4, <2>5, DrawSteps DEF Labels
<1>2. ASSUME NEW c \in Callers, Register(c), UNCHANGED repeated  PROVE TypeOK'
    <2>1. c \in Threads /\ drawn[c] \in Stans  BY ThreadKinds
    <2>2. pc' \in [Threads -> Labels]  BY <1>0, <1>2, <2>1, GoToTyped DEF Register, Labels
    <2> QED  BY <1>2, <1>a, <2>1, <2>2 DEF Register, Labels
<1>3. ASSUME NEW c \in Callers, Send(c), UNCHANGED repeated  PROVE TypeOK'
    <2>1. c \in Threads /\ stan[c] \in Stans  BY ThreadKinds
    <2>2. pc' \in [Threads -> Labels]  BY <1>0, <1>3, <2>1, GoToTyped DEF Send, Leave, Labels
    <2>3. Message("0200", stan[c], c, stan[c]) \in Requests  BY <2>1, RequestTyped
    <2>4. toSwitch' \subseteq Requests  BY <1>3, <2>3 DEF Send, SendReturns, SendRaises
    <2>5. outcome' \in [Callers -> {"none", "answered", "timeout", "unreachable"}]
        BY <1>3 DEF Send, Leave
    <2> QED  BY <1>3, <1>a, <2>2, <2>4, <2>5 DEF Send, Labels
<1>4. ASSUME NEW c \in Callers, Answered(c), UNCHANGED repeated  PROVE TypeOK'
    <2>1. pc' \in [Threads -> Labels]
        BY <1>0, <1>4, ThreadKinds, GoToTyped DEF Answered, Leave, Labels
    <2> QED  BY <1>4, <1>a, <2>1 DEF Answered, Leave, Labels
<1>5. ASSUME NEW c \in Callers, TimesOut(c), UNCHANGED repeated  PROVE TypeOK'
    <2>1. pc' \in [Threads -> Labels]
        BY <1>0, <1>5, ThreadKinds, GoToTyped DEF TimesOut, Labels
    <2> QED  BY <1>5, <1>a, <2>1 DEF TimesOut, Labels
<1>6. ASSUME NEW c \in Callers, SendReversal(c), UNCHANGED repeated  PROVE TypeOK'
    <2>1. c \in Threads /\ stan[c] \in Stans /\ drawn[c] \in Stans  BY ThreadKinds
    <2>2. pc' \in [Threads -> Labels]
        BY <1>0, <1>6, <2>1, GoToTyped DEF SendReversal, Leave, Labels
    <2>3. Message("0400", drawn[c], c, stan[c]) \in Requests  BY <2>1, RequestTyped
    <2>4. toSwitch' \subseteq Requests  BY <1>6, <2>3 DEF SendReversal, SendReturns, SendRaises
    <2>5. outcome' \in [Callers -> {"none", "answered", "timeout", "unreachable"}]
        BY <1>6 DEF SendReversal, Leave
    <2> QED  BY <1>6, <1>a, <2>2, <2>4, <2>5 DEF SendReversal, Labels
<1>7. ASSUME NEW c \in Callers, Pop(c), UNCHANGED repeated  PROVE TypeOK'
    <2>1. pc' \in [Threads -> Labels]  BY <1>0, <1>7, ThreadKinds, GoToTyped DEF Pop, Labels
    <2> QED  BY <1>7, <1>a, <2>1 DEF Pop, Labels
<1>8. CASE ClientStep(Dial) \/ ClientStep(Announce)
    <2>1. pc' \in [Threads -> Labels]
        BY <1>0, <1>8, ThreadKinds, GoToTyped DEF Dial, Announce, Labels
    <2> QED  BY <1>8, <1>a, <2>1 DEF Dial, Announce, Labels
<1>9. CASE ClientStep(SignOn)
    <2>1. pc' \in [Threads -> Labels]
        BY <1>0, <1>9, ThreadKinds, GoToTyped DEF SignOn, Labels
    <2>2. drawn[Link] \in Stans  BY ThreadKinds
    <2>3. Message("0800", drawn[Link], Link, drawn[Link]) \in Requests
        BY <2>2, ThreadKinds, RequestTyped
    <2>4. toSwitch' \subseteq Requests  BY <1>9, <2>3 DEF SignOn, SendReturns, SendRaises
    <2> QED  BY <1>9, <1>a, <2>1, <2>4 DEF SignOn, Labels
<1>10. CASE ClientStep(StartHeart)
    <2>1. pc' \in [Threads -> Labels]
        BY <1>0, <1>10, FreshHeartSleeps, ThreadKinds DEF StartHeart, Labels
    <2> QED  BY <1>10, <1>a, <2>1 DEF StartHeart, Labels
<1>11. CASE ClientStep(ReceiveFails) \/ ClientStep(Cleanup)
    <2>1. pc' \in [Threads -> Labels]
        BY <1>0, <1>11, ThreadKinds, GoToTyped DEF ReceiveFails, Cleanup, Labels
    <2> QED  BY <1>11, <1>a, <2>1 DEF ReceiveFails, Cleanup, Labels
<1>12. ASSUME NEW m \in toClient, Receive(m), UNCHANGED repeated  PROVE TypeOK'
    <2>1. pc' \in [Threads -> Labels]
        BY <1>0, <1>12, ThreadKinds, GoToTyped DEF Receive, Labels
    <2>2. m \in Responses /\ m.stan \in Stans  BY DEF Responses, Messages
    <2> QED  BY <1>12, <1>a, <2>1, <2>2 DEF Receive, Labels
<1>13. CASE Deliver /\ UNCHANGED repeated
    <2>1. pc' \in [Threads -> Labels]
        BY <1>0, <1>13, ThreadKinds, GoToTyped DEF Deliver, Labels
    <2>2. response' \in [Callers -> Responses \cup {NoAnswer}]  BY <1>13 DEF Deliver
    <2> QED  BY <1>13, <1>a, <2>1, <2>2 DEF Deliver, Labels
<1>14. ASSUME NEW h \in Hearts, ClientStep(WakeUp(h))  PROVE TypeOK'
    <2>1. pc' \in [Threads -> Labels]
        BY <1>0, <1>14, ThreadKinds, GoToTyped DEF WakeUp, Labels
    <2>2. beats' \in 0..MaxBeats  BY <1>14, ClientAssumption DEF WakeUp
    <2> QED  BY <1>14, <1>a, <2>1, <2>2 DEF WakeUp, Labels
<1>15. ASSUME NEW h \in Hearts, ClientStep(Echo(h))  PROVE TypeOK'
    <2>1. h \in Threads /\ drawn[h] \in Stans  BY ThreadKinds
    <2>2. pc' \in [Threads -> Labels]  BY <1>0, <1>15, <2>1, GoToTyped DEF Echo, Labels
    <2>3. Message("0800", drawn[h], h, drawn[h]) \in Requests  BY <2>1, RequestTyped
    <2>4. toSwitch' \subseteq Requests  BY <1>15, <2>3 DEF Echo, SendReturns, SendRaises
    <2> QED  BY <1>15, <1>a, <2>2, <2>4 DEF Echo, Labels
<1>16. CASE ClientStep(Drop)
    <2>1. drops' \in 0..MaxDrops  BY <1>16, ClientAssumption DEF Drop
    <2> QED  BY <1>16, <1>a, <2>1 DEF Drop
<1>17. ASSUME NEW m \in toSwitch, ClientStep(SwitchHandles(m))  PROVE TypeOK'
    <2>1. m \in Requests /\ m.stan \in Stans /\ (m.mti = "0200" => m.of \in Callers)
        BY DEF Requests, Messages, SenderInv
    <2>2. toClient' \subseteq Responses  BY <1>17, <2>1, AnswerTyped DEF SwitchHandles
    <2>3. authorised' \subseteq Payments  BY <1>17, <2>1 DEF SwitchHandles, Payments
    <2>4. reversed' \subseteq authorised'  BY <1>17 DEF SwitchHandles
    <2>5. toSwitch' \subseteq Requests  BY <1>17 DEF SwitchHandles
    <2> QED  BY <1>17, <1>a, <2>2, <2>3, <2>4, <2>5 DEF SwitchHandles
<1> QED
    BY <1>1, <1>2, <1>3, <1>4, <1>5, <1>6, <1>7, <1>8, <1>9, <1>10, <1>11, <1>12, <1>13, <1>14,
       <1>15, <1>16, <1>17, ThreadKinds DEF Next, CallerStep, LinkStep

-----------------------------------------------------------------------------
(* The threads' control, the map of pending requests and the event *)

\* A step that draws no STAN moves at most one running thread, and starts at
\* most one heartbeat.
LEMMA ControlStep ==
    ASSUME TypeOK, ControlInv, Next
    PROVE  ControlInv'
<1> USE DEF ControlInv, ClientStep
<1>0. /\ pc \in [Threads -> Labels]
      /\ stanPc \in [Threads -> {"idle", "store", "format"}]
    BY DEF TypeOK, ClientTypeOK, Labels
<1>1. ASSUME NEW t \in Threads, DrawStep(t)  PROVE ControlInv'
    <2>1. NextStan(t)  BY <1>1 DEF DrawStep
    <2>2. DrawsStan(t)  BY <2>1, DrawSteps
    <2>3. CASE UNCHANGED <<pc, drawn>> /\ t \in Interruptible
        <3>1. \A u \in Threads : stanPc'[u] # "idle" => u \in Interruptible /\ DrawsStan(u)'
            BY <2>1, <2>2, <2>3, DrawSteps DEF DrawsStan
        <3> QED  BY <2>3, <3>1
    <2>4. CASE pc' = [pc EXCEPT ![t] = NextLabel(pc[t])] /\ stanPc'[t] = "idle"
        <3>1. \A u \in Threads : u # t => stanPc'[u] = stanPc[u]  BY <2>1, DrawSteps
        <3>3. pc'[t] = NextLabel(pc[t])  BY <1>0, <2>4
        <3>4. \A u \in Threads : u # t => pc'[u] = pc[u]  BY <1>0, <2>4
        <3>5. \A u \in Threads : stanPc'[u] # "idle" => u \in Interruptible /\ DrawsStan(u)'
            BY <2>4, <3>1, <3>4 DEF DrawsStan
        <3>6. t = Link => pc'[Link] = "greet"
            BY <2>2, <3>3, DrawLabels, ThreadKinds DEF DrawsStan
        <3>7. t \in Callers => pc'[t] \in {"register", "reverse"}
            BY <2>2, <3>3, DrawLabels, ThreadKinds DEF DrawsStan
        <3>8. t \in Hearts => pc'[t] = "echo"
            BY <2>2, <3>3, DrawLabels, ThreadKinds DEF DrawsStan
        <3> QED  BY <3>4, <3>5, <3>6, <3>7, <3>8, ThreadKinds
    <2> QED  BY <2>1, <2>3, <2>4, DrawSteps
<1>2. ASSUME NEW c \in Callers, CallerStep(c)  PROVE ControlInv'
    <2>1. UNCHANGED stanPc /\ ~DrawsStan(c)
        BY <1>2 DEF CallerStep, Register, Send, Answered, TimesOut, SendReversal, Pop, stanVars,
                    DrawsStan
    <2>2. /\ pc'[c] \in {"send", "wait", "rstan", "pop", "done"}
          /\ \A u \in Threads : u # c => pc'[u] = pc[u]
        BY <1>0, <1>2, ThreadKinds
           DEF CallerStep, Register, Send, Answered, TimesOut, SendReversal, Pop, Leave, GoTo
    <2>3. \A u \in Threads : stanPc'[u] # "idle" => u \in Interruptible /\ DrawsStan(u)'
        BY <2>1, <2>2 DEF DrawsStan
    <2> QED  BY <2>2, <2>3, ThreadKinds
<1>3. CASE ClientStep(Dial) \/ ClientStep(Announce) \/ ClientStep(SignOn)
           \/ ClientStep(ReceiveFails) \/ ClientStep(Cleanup)
           \/ (\E m \in toClient : Receive(m)) \/ Deliver
    <2>1. UNCHANGED stanPc /\ ~DrawsStan(Link)
        BY <1>3 DEF Dial, Announce, SignOn, ReceiveFails, Cleanup, Receive, Deliver, stanVars,
                    DrawsStan
    <2>2. /\ pc'[Link] \in {"announce", "signon", "heart", "cleanup", "dial", "deliver", "receive"}
          /\ \A u \in Threads : u # Link => pc'[u] = pc[u]
        BY <1>0, <1>3, ThreadKinds
           DEF Dial, Announce, SignOn, ReceiveFails, Cleanup, Receive, Deliver, GoTo
    <2>3. \A u \in Threads : stanPc'[u] # "idle" => u \in Interruptible /\ DrawsStan(u)'
        BY <2>1, <2>2 DEF DrawsStan
    <2> QED  BY <2>2, <2>3, ThreadKinds
<1>4. CASE ClientStep(StartHeart)
    <2>1. FreshHeart \in Hearts /\ pc[FreshHeart] = "off" /\ pc[Link] = "heart"
        BY <1>4, FreshHeartSleeps DEF StartHeart
    <2>2. /\ pc'[Link] = "receive" /\ pc'[FreshHeart] = "asleep"
          /\ \A u \in Threads : u # Link /\ u # FreshHeart => pc'[u] = pc[u]
          /\ UNCHANGED stanPc
        BY <1>0, <1>4, <2>1, ThreadKinds DEF StartHeart, stanVars
    <2>3. \A u \in Threads : stanPc'[u] # "idle" => u \in Interruptible /\ DrawsStan(u)'
        BY <2>1, <2>2 DEF DrawsStan
    <2> QED  BY <2>1, <2>2, <2>3, ThreadKinds
<1>5. ASSUME NEW h \in Hearts, ClientStep(WakeUp(h)) \/ ClientStep(Echo(h))  PROVE ControlInv'
    <2>1. UNCHANGED stanPc /\ ~DrawsStan(h)
        BY <1>5 DEF WakeUp, Echo, stanVars, DrawsStan
    <2>2. /\ pc'[h] \in {"beat", "over", "asleep"}
          /\ \A u \in Threads : u # h => pc'[u] = pc[u]
        BY <1>0, <1>5, ThreadKinds DEF WakeUp, Echo, GoTo
    <2>3. \A u \in Threads : stanPc'[u] # "idle" => u \in Interruptible /\ DrawsStan(u)'
        BY <2>1, <2>2 DEF DrawsStan
    <2> QED  BY <2>2, <2>3, ThreadKinds
<1>6. CASE ClientStep(Drop) \/ \E m \in toSwitch : ClientStep(SwitchHandles(m))
    BY <1>6 DEF Drop, SwitchHandles, stanVars, DrawsStan
<1> QED
    BY <1>1, <1>2, <1>3, <1>4, <1>5, <1>6, ThreadKinds DEF Next, LinkStep

LEMMA SenderStep ==
    ASSUME TypeOK, SenderInv, Next
    PROVE  SenderInv'
<1> SUFFICES ASSUME NEW m \in toSwitch', m \notin toSwitch, m.mti = "0200"
             PROVE  m.of \in Callers
    BY DEF SenderInv
<1>1. PICK c \in Callers : Send(c) /\ m = Message("0200", stan[c], c, stan[c])
    <2>1. \A t : ~DrawStep(t)  BY DEF DrawStep, NextStan
    <2>2. \A c \in Callers : ~Register(c) /\ ~Answered(c) /\ ~TimesOut(c) /\ ~Pop(c)
        BY DEF Register, Answered, TimesOut, Pop
    <2>3. \A c \in Callers : ~SendReversal(c)
        BY DEF SendReversal, SendReturns, SendRaises, Message
    <2>4. ~ClientStep(SignOn) /\ \A h : ~ClientStep(Echo(h))
        BY DEF ClientStep, SignOn, Echo, SendReturns, SendRaises, Message
    <2>5. /\ ~ClientStep(Dial) /\ ~ClientStep(Announce) /\ ~ClientStep(StartHeart)
          /\ ~ClientStep(ReceiveFails) /\ ~ClientStep(Cleanup) /\ ~Deliver /\ ~ClientStep(Drop)
          /\ \A x : ~Receive(x) /\ ~ClientStep(WakeUp(x)) /\ ~ClientStep(SwitchHandles(x))
        BY DEF ClientStep, Dial, Announce, StartHeart, ReceiveFails, Cleanup, Deliver, Drop, Receive,
               WakeUp, SwitchHandles
    <2>6. PICK c \in Callers : Send(c)
        BY <2>1, <2>2, <2>3, <2>4, <2>5 DEF Next, CallerStep, LinkStep
    <2> QED  BY <2>6 DEF Send, SendReturns, SendRaises
<1> QED  BY <1>1 DEF Message

\* Only Register and Pop change who is inside the try block.
LEMMA TryingChanges ==
    ASSUME TypeOK, ControlInv, Next
    PROVE  \/ Trying' = Trying
           \/ \E c \in Callers : Register(c) \/ Pop(c)
<1> SUFFICES ASSUME \A c \in Callers : ~Register(c) /\ ~Pop(c)
             PROVE  Trying' = Trying
    OBVIOUS
<1> USE DEF Trying, ClientStep
<1>0. pc \in [Threads -> Labels] /\ Callers \subseteq Threads
    BY ThreadKinds DEF TypeOK, Labels
<1>1. ASSUME NEW t \in Threads, DrawStep(t)  PROVE Trying' = Trying
    <2>1. NextStan(t)  BY <1>1 DEF DrawStep
    <2>2. CASE UNCHANGED pc  BY <2>2
    <2>3. CASE pc' = [pc EXCEPT ![t] = NextLabel(pc[t])]
        <3>1. \A c \in Callers : c # t => pc'[c] = pc[c]  BY <1>0, <2>3
        <3>2. t \in Callers => pc[t] \in {"stan", "rstan"}
            BY <2>1, DrawSteps DEF DrawsStan, ControlInv
        <3>3. t \in Callers => \/ pc[t] = "stan" /\ pc'[t] = "register"
                               \/ pc[t] = "rstan" /\ pc'[t] = "reverse"
            BY <1>0, <2>1, <2>3, <3>2, DrawSteps, DrawLabels
        <3> QED  BY <3>1, <3>3
    <2> QED  BY <2>1, <2>2, <2>3, DrawSteps
<1>2. ASSUME NEW c \in Callers, CallerStep(c)  PROVE Trying' = Trying
    <2>1. \A d \in Callers : d # c => pc'[d] = pc[d]
        BY <1>0, <1>2
           DEF CallerStep, Register, Send, Answered, TimesOut, SendReversal, Pop, Leave, GoTo
    <2>2. /\ pc[c] \in {"send", "wait", "reverse"}
          /\ pc'[c] \in {"wait", "rstan", "pop"}
        BY <1>0, <1>2 DEF CallerStep, Send, Answered, TimesOut, SendReversal, Leave, GoTo
    <2> QED  BY <2>1, <2>2
<1>3. ASSUME \A c \in Callers : pc'[c] = pc[c]  PROVE Trying' = Trying
    BY <1>3
<1>4. LinkStep /\ ~DrawStep(Link) => \A c \in Callers : pc'[c] = pc[c]
    BY <1>0, ThreadKinds, FreshHeartSleeps
       DEF LinkStep, Dial, Announce, SignOn, StartHeart, ReceiveFails, Cleanup, Receive, Deliver, GoTo
<1>5. ASSUME NEW h \in Hearts, ClientStep(WakeUp(h)) \/ ClientStep(Echo(h))
      PROVE  \A c \in Callers : pc'[c] = pc[c]
    BY <1>0, <1>5, ThreadKinds DEF WakeUp, Echo, GoTo
<1>6. ClientStep(Drop) \/ (\E m \in toSwitch : ClientStep(SwitchHandles(m))) => UNCHANGED pc
    BY DEF Drop, SwitchHandles
<1> QED  BY <1>1, <1>2, <1>3, <1>4, <1>5, <1>6, ThreadKinds DEF Next, LinkStep

\* ... and only they change the map, or a caller's STAN.
LEMMA MapChanges ==
    ASSUME Next
    PROVE  \/ UNCHANGED <<pending, stan>>
           \/ \E c \in Callers : Register(c) \/ Pop(c)
BY DEF Next, CallerStep, LinkStep, ClientStep, DrawStep, trackerVars, Send, Answered, TimesOut,
       SendReversal, Receive, Deliver

LEMMA PendingStep ==
    ASSUME TypeOK, ControlInv, PendingIsWaiting, Next
    PROVE  PendingIsWaiting'
<1> USE DEF PendingIsWaiting, Trying
<1>0. /\ pc \in [Threads -> Labels] /\ Callers \subseteq Threads
      /\ pending \in [Stans -> Callers \cup {NoOne}] /\ stan \in [Callers -> Stans]
      /\ drawn \in [Threads -> Stans]
    BY ThreadKinds DEF TypeOK, ClientTypeOK, Labels
<1>1. CASE UNCHANGED <<pending, stan>> /\ Trying' = Trying  BY <1>1
<1>2. ASSUME NEW c \in Callers, Register(c)  PROVE PendingIsWaiting'
    <2>1. /\ pc[c] = "register" /\ pc'[c] = "send" /\ stan'[c] = drawn[c]
          /\ \A d \in Callers : d # c => pc'[d] = pc[d] /\ stan'[d] = stan[d]
          /\ pending' = [pending EXCEPT ![drawn[c]] = c]
        BY <1>0, <1>2 DEF Register, GoTo
    <2> SUFFICES ASSUME NEW s \in Stans, pending'[s] # NoOne
                 PROVE  pending'[s] \in Trying' /\ stan'[pending'[s]] = s
        OBVIOUS
    <2>2. CASE s = drawn[c]  BY <1>0, <2>1, <2>2
    <2>3. CASE s # drawn[c]
        <3>1. pending'[s] = pending[s]  BY <1>0, <2>1, <2>3
        <3>2. pending[s] \in Trying /\ stan[pending[s]] = s  BY <3>1
        <3>3. pending[s] # c  BY <2>1, <3>2
        <3> QED  BY <2>1, <3>1, <3>2, <3>3
    <2> QED  BY <2>2, <2>3
<1>3. ASSUME NEW c \in Callers, Pop(c)  PROVE PendingIsWaiting'
    <2>1. /\ \A d \in Callers : d # c => pc'[d] = pc[d]
          /\ pending' = [pending EXCEPT ![stan[c]] = NoOne] /\ UNCHANGED stan
        BY <1>0, <1>3 DEF Pop, GoTo
    <2> SUFFICES ASSUME NEW s \in Stans, pending'[s] # NoOne
                 PROVE  pending'[s] \in Trying' /\ stan'[pending'[s]] = s
        OBVIOUS
    <2>2. s # stan[c] /\ pending'[s] = pending[s]  BY <1>0, <2>1
    <2>3. pending[s] \in Trying /\ stan[pending[s]] = s  BY <2>2
    <2> QED  BY <2>1, <2>2, <2>3
<1> QED  BY <1>1, <1>2, <1>3, TryingChanges, MapChanges

LEMMA ListeningStep ==
    ASSUME TypeOK, ControlInv, ConnectedIsListening, Next
    PROVE  ConnectedIsListening'
<1> USE DEF ConnectedIsListening, ClientStep, socketVars
<1>0. pc \in [Threads -> Labels]  BY DEF TypeOK, Labels
<1>1. ASSUME NEW t \in Threads, DrawStep(t)  PROVE ConnectedIsListening'
    <2>1. NextStan(t) /\ UNCHANGED connected  BY <1>1 DEF DrawStep, NextStan
    <2>2. UNCHANGED pc \/ pc' = [pc EXCEPT ![t] = NextLabel(pc[t])]  BY <2>1, DrawSteps
    <2>3. t = Link => pc[t] = "signon"
        BY <2>1, DrawSteps DEF DrawsStan, ControlInv
    <2> QED  BY <1>0, <2>1, <2>2, <2>3, DrawSteps, DrawLabels, ThreadKinds
<1>2. ASSUME NEW c \in Callers, CallerStep(c)  PROVE ConnectedIsListening'
    BY <1>0, <1>2, ThreadKinds
       DEF CallerStep, Register, Send, Answered, TimesOut, SendReversal, Pop, Leave, GoTo
<1>3. CASE ClientStep(Dial) \/ ClientStep(Announce) \/ ClientStep(SignOn)
           \/ ClientStep(ReceiveFails) \/ ClientStep(Cleanup)
           \/ (\E m \in toClient : Receive(m)) \/ Deliver
    BY <1>0, <1>3, ThreadKinds
       DEF Dial, Announce, SignOn, ReceiveFails, Cleanup, Receive, Deliver, GoTo
<1>4. CASE ClientStep(StartHeart)
    BY <1>0, <1>4, ThreadKinds DEF StartHeart
<1>5. ASSUME NEW h \in Hearts, ClientStep(WakeUp(h)) \/ ClientStep(Echo(h))
      PROVE  ConnectedIsListening'
    BY <1>0, <1>5, ThreadKinds DEF WakeUp, Echo, GoTo
<1>6. CASE ClientStep(Drop) \/ \E m \in toSwitch : ClientStep(SwitchHandles(m))
    BY <1>6 DEF Drop, SwitchHandles
<1> QED
    BY <1>1, <1>2, <1>3, <1>4, <1>5, <1>6, ThreadKinds DEF Next, LinkStep

-----------------------------------------------------------------------------
(* The theorems without a premise *)

LEMMA BaseInit == Init => BaseInv
<1> SUFFICES ASSUME Init PROVE BaseInv  OBVIOUS
<1> USE ClientAssumption, TrackerAssumption, ThreadKinds DEF Init, ClientInit
<1>1. ClientTypeOK
    <2>1. counter \in Stans /\ loaded \in [Threads -> Stans] /\ drawn \in [Threads -> Stans]
        OBVIOUS
    <2>2. drops \in 0..MaxDrops /\ beats \in 0..MaxBeats  OBVIOUS
    <2>3. stanPc \in [Threads -> {"idle", "store", "format"}]  OBVIOUS
    <2>4. toSwitch \subseteq Requests /\ toClient \subseteq Responses  BY Zenon
    <2>5. authorised \subseteq Payments /\ reversed \subseteq authorised  BY Zenon
    <2> QED  BY <2>1, <2>2, <2>3, <2>4, <2>5 DEF ClientTypeOK
<1>2. pc \in [Threads -> Labels]  BY DEF Labels
<1>3. TypeOK  BY <1>1, <1>2 DEF TypeOK, Labels
<1>4. ControlInv  BY DEF ControlInv, DrawsStan
<1> QED
    BY <1>3, <1>4 DEF BaseInv, SenderInv, PendingIsWaiting, ConnectedIsListening

LEMMA BaseStep == BaseInv /\ [Next]_vars => BaseInv'
<1> SUFFICES ASSUME BaseInv, [Next]_vars PROVE BaseInv'  OBVIOUS
<1>1. CASE Next
    BY <1>1, TypeStep, ControlStep, SenderStep, PendingStep, ListeningStep DEF BaseInv
<1>2. CASE UNCHANGED vars
    <2> USE <1>2 DEF vars, clientVars, stanVars, socketVars, switchVars, trackerVars
    <2>1. TypeOK'  BY DEF BaseInv, TypeOK, ClientTypeOK, Inside
    <2>2. ControlInv' /\ SenderInv'  BY DEF BaseInv, ControlInv, SenderInv, DrawsStan
    <2>3. PendingIsWaiting' /\ ConnectedIsListening'
        BY DEF BaseInv, PendingIsWaiting, Trying, ConnectedIsListening
    <2> QED  BY <2>1, <2>2, <2>3 DEF BaseInv
<1> QED  BY <1>1, <1>2

LEMMA BaseHolds == Spec => []BaseInv
BY BaseInit, BaseStep, PTL DEF Spec

\* Every variable of the client and of the tracker keeps its type: above all, the
\* counter stays a STAN, and no place is reached that the code does not have.
THEOREM TypeCorrect == Spec => []TypeOK
<1>1. BaseInv => TypeOK  BY DEF BaseInv
<1> QED  BY <1>1, BaseHolds, PTL

\* _pending holds the entries of callers inside send_and_wait only, whichever STANs
\* they drew: the finally clause pops what register put there.
THEOREM PendingHolds == Spec => []PendingIsWaiting
<1>1. BaseInv => PendingIsWaiting  BY DEF BaseInv
<1> QED  BY <1>1, BaseHolds, PTL

\* While _connected is set the connection thread is between its connect and its
\* cleanup: over any number of broken connections the flag does not outlive it.
THEOREM ListeningHolds == Spec => []ConnectedIsListening
<1>1. BaseInv => ConnectedIsListening  BY DEF BaseInv
<1> QED  BY <1>1, BaseHolds, PTL

-----------------------------------------------------------------------------
(* What a step does to the STANs.  Every step of the program is one of      *)
(* these moves of a STAN from hand to hand.                                 *)

\* A thread draws one.
DrawMove(t) ==
    /\ Draws(t) /\ t \notin Holding
    /\ Holding' = Holding \cup {t} /\ Trying' = Trying
    /\ \A u \in Threads : u # t => drawn'[u] = drawn[u]
    /\ repeated \subseteq repeated' /\ (drawn'[t] \in InUse => drawn'[t] \in repeated')
    /\ UNCHANGED <<stan, toSwitch, toClient, received, authorised>>

\* A caller puts the one it drew into the map.
RegisterMove(c) ==
    /\ c \in Holding
    /\ Holding' = Holding \ {c} /\ Trying' = Trying \cup {c}
    /\ stan'[c] = drawn[c] /\ \A d \in Callers : d # c => stan'[d] = stan[d]
    /\ UNCHANGED <<drawn, toSwitch, toClient, received, authorised, repeated>>

\* A thread spends the one it drew on a message other than a payment.
SpendMove(t) ==
    /\ t \in Holding
    /\ Holding' = Holding \ {t} /\ Trying' = Trying
    /\ \/ UNCHANGED toSwitch
       \/ \E m : /\ toSwitch' = toSwitch \cup {m}
                 /\ m.stan = drawn[t] /\ m.of = t
                 /\ \/ m.mti = "0800" /\ m.orig = drawn[t]
                    \/ m.mti = "0400" /\ t \in Trying /\ m.orig = stan[t]
    /\ UNCHANGED <<drawn, stan, toClient, received, authorised, repeated>>

\* A caller's registered STAN goes out with its payment.
PayMove(c) ==
    /\ c \in Trying
    /\ Holding' = Holding /\ Trying' = Trying
    /\ \E m : /\ toSwitch' \subseteq toSwitch \cup {m}
              /\ m.mti = "0200" /\ m.stan = stan[c] /\ m.of = c /\ m.orig = stan[c]
    /\ UNCHANGED <<drawn, stan, toClient, received, authorised, repeated>>

\* Nobody gets a STAN: a message moves on, or its answer; a payment is approved;
\* a caller leaves.
QuietMove ==
    /\ Holding' = Holding /\ Trying' \subseteq Trying
    /\ UNCHANGED <<drawn, stan, repeated>>
    /\ toSwitch' \subseteq toSwitch
    /\ \A m \in Travelling' : \E n \in Travelling :
          /\ m.stan = n.stan /\ m.of = n.of
          /\ n.mti \in {"0200", "0210"} => m.mti \in {"0200", "0210"}
    /\ \A p \in authorised' : p \in authorised \/ \E n \in toSwitch :
          n.mti = "0200" /\ p.of = n.of /\ p.stan = n.stan

LEMMA CallerMoves ==
    ASSUME BaseInv, NEW c \in Callers, CallerStep(c)
    PROVE  RegisterMove(c) \/ SpendMove(c) \/ PayMove(c) \/ QuietMove
<1>0. /\ pc \in [Threads -> Labels] /\ c \in Threads /\ stan \in [Callers -> Stans]
      /\ Callers \subseteq Threads /\ UNCHANGED repeated
    BY ThreadKinds DEF BaseInv, TypeOK, ClientTypeOK, Labels, CallerStep
<1> DEFINE Went(l) == /\ pc'[c] = l /\ \A u \in Threads : u # c => pc'[u] = pc[u]
<1>a. \A l : GoTo(c, l) => Went(l)  BY <1>0 DEF GoTo
<1> HIDE DEF Went
<1>1. CASE Register(c)
    <2>1. Went("send") /\ pc[c] = "register"  BY <1>1, <1>a DEF Register
    <2>2. Holding' = Holding \ {c} /\ c \in Holding  BY <1>0, <2>1 DEF Holding, Went
    <2>3. Trying' = Trying \cup {c}  BY <1>0, <2>1 DEF Trying, Went
    <2>4. stan'[c] = drawn[c] /\ \A d \in Callers : d # c => stan'[d] = stan[d]
        BY <1>0, <1>1 DEF Register
    <2> QED  BY <1>0, <1>1, <2>2, <2>3, <2>4 DEF Register, RegisterMove, stanVars, switchVars
<1>2. CASE Send(c)
    <2>1. (Went("wait") \/ Went("pop")) /\ pc[c] = "send"  BY <1>2, <1>a DEF Send, Leave
    <2>2. Holding' = Holding  BY <1>0, <2>1 DEF Holding, Went
    <2>3. Trying' = Trying /\ c \in Trying  BY <1>0, <2>1 DEF Trying, Went
    <2>4. toSwitch' \subseteq toSwitch \cup {Message("0200", stan[c], c, stan[c])}
        BY <1>2 DEF Send, SendReturns, SendRaises
    <2>5. \E m : /\ toSwitch' \subseteq toSwitch \cup {m}
                 /\ m.mti = "0200" /\ m.stan = stan[c] /\ m.of = c /\ m.orig = stan[c]
        <3> DEFINE payment == Message("0200", stan[c], c, stan[c])
        <3>1. /\ payment.mti = "0200" /\ payment.stan = stan[c] /\ payment.of = c
              /\ payment.orig = stan[c]
            BY DEF Message
        <3> HIDE DEF payment
        <3>2. toSwitch' \subseteq toSwitch \cup {payment}  BY <2>4 DEF payment
        <3> QED  BY <3>1, <3>2
    <2> QED  BY <1>0, <1>2, <2>2, <2>3, <2>5 DEF Send, PayMove, stanVars, switchVars
<1>3. CASE Answered(c) \/ TimesOut(c) \/ Pop(c)
    <2>1. /\ Went("pop") \/ Went("rstan") \/ Went("done")
          /\ pc[c] \in {"wait", "pop"}
        BY <1>3, <1>a DEF Answered, TimesOut, Pop, Leave
    <2>2. Holding' = Holding  BY <1>0, <2>1 DEF Holding, Went
    <2>3. Trying' \subseteq Trying  BY <1>0, <2>1 DEF Trying, Went
    <2>4. UNCHANGED <<drawn, stan, toSwitch, toClient, received, authorised>>
        BY <1>3 DEF Answered, TimesOut, Pop, stanVars, switchVars, trackerVars
    <2>5. Travelling' = Travelling  BY <2>4 DEF Travelling, InHand
    <2> QED  BY <1>0, <2>2, <2>3, <2>4, <2>5 DEF QuietMove
<1>4. CASE SendReversal(c)
    <2>1. Went("pop") /\ pc[c] = "reverse"  BY <1>4, <1>a DEF SendReversal, Leave
    <2>2. Holding' = Holding \ {c} /\ c \in Holding  BY <1>0, <2>1 DEF Holding, Went
    <2>3. Trying' = Trying /\ c \in Trying  BY <1>0, <2>1 DEF Trying, Went
    <2>4. UNCHANGED toSwitch
          \/ toSwitch' = toSwitch \cup {Message("0400", drawn[c], c, stan[c])}
        BY <1>4 DEF SendReversal, SendReturns, SendRaises
    <2>5. UNCHANGED toSwitch
          \/ \E m : /\ toSwitch' = toSwitch \cup {m} /\ m.stan = drawn[c] /\ m.of = c
                    /\ m.mti = "0400" /\ m.orig = stan[c]
        BY <2>4 DEF Message
    <2> QED  BY <1>0, <1>4, <2>2, <2>3, <2>5 DEF SendReversal, SpendMove, stanVars, switchVars
<1> QED  BY <1>1, <1>2, <1>3, <1>4 DEF CallerStep

LEMMA DrawMoves ==
    ASSUME BaseInv, NEW t \in Threads, DrawStep(t)
    PROVE  DrawMove(t) \/ QuietMove
<1>0. /\ pc \in [Threads -> Labels] /\ TypeOK /\ ControlInv /\ NextStan(t)
      /\ Callers \subseteq Threads
    BY ThreadKinds DEF BaseInv, TypeOK, Labels, DrawStep
<1>1. /\ UNCHANGED <<stan, toSwitch, toClient, received, authorised>>
      /\ repeated' = repeated \cup {s \in InUse : Draws(t) /\ s = drawn'[t]}
    BY DEF DrawStep, NextStan, trackerVars, switchVars
<1>2. DrawsStan(t)  BY <1>0, DrawSteps
<1>3. CASE UNCHANGED <<pc, drawn>>
    <2>1. ~Draws(t)  BY <1>3 DEF Draws, DrawsStan
    <2>2. repeated' = repeated  BY <1>1, <2>1
    <2> QED  BY <1>1, <1>3, <2>2 DEF QuietMove, Holding, Trying, Travelling, InHand
<1>4. CASE /\ pc' = [pc EXCEPT ![t] = NextLabel(pc[t])]
           /\ \A u \in Threads : u # t => drawn'[u] = drawn[u]
    <2>1. /\ pc'[t] = NextLabel(pc[t])
          /\ \A u \in Threads : u # t => pc'[u] = pc[u]
        BY <1>0, <1>4
    <2>2. pc'[t] \in {"register", "reverse", "greet", "echo"}
        BY <1>2, <2>1, DrawLabels
    <2>3. Draws(t) /\ t \notin Holding  BY <1>2, <2>2 DEF Draws, DrawsStan, Holding
    <2>4. Holding' = Holding \cup {t}  BY <2>1, <2>2 DEF Holding
    <2>5. t \in Callers => \/ pc[t] = "stan" /\ pc'[t] = "register"
                           \/ pc[t] = "rstan" /\ pc'[t] = "reverse"
        BY <1>0, <1>2, <2>1, DrawLabels DEF ControlInv, DrawsStan
    <2>6. Trying' = Trying  BY <1>0, <2>1, <2>5 DEF Trying
    <2>7. repeated \subseteq repeated' /\ (drawn'[t] \in InUse => drawn'[t] \in repeated')
        BY <1>1, <2>3
    <2> QED  BY <1>1, <1>4, <2>3, <2>4, <2>6, <2>7 DEF DrawMove
<1> QED  BY <1>0, <1>3, <1>4, DrawSteps

LEMMA OtherMoves ==
    ASSUME BaseInv, NEW t \in Hearts \cup {Link},
           \/ t \in Hearts /\ (ClientStep(WakeUp(t)) \/ ClientStep(Echo(t)))
           \/ t = Link /\ LinkStep /\ ~DrawStep(Link)
           \/ ClientStep(Drop)
           \/ \E m \in toSwitch : ClientStep(SwitchHandles(m))
    PROVE  SpendMove(t) \/ QuietMove
<1>0. /\ pc \in [Threads -> Labels] /\ t \in Threads /\ t \notin Callers
      /\ Callers \subseteq Threads /\ toSwitch \subseteq Requests
    BY ThreadKinds DEF BaseInv, TypeOK, ClientTypeOK, Labels
<1> DEFINE Went(l) == /\ pc'[t] = l /\ \A u \in Threads : u # t => pc'[u] = pc[u]
<1>a. \A l : GoTo(t, l) => Went(l)  BY <1>0 DEF GoTo
<1> HIDE DEF Went
<1>b. ASSUME NEW l \in Labels \ {"register", "reverse", "greet", "echo"}, Went(l),
             pc[t] \notin {"register", "reverse", "greet", "echo"}
      PROVE  Holding' = Holding /\ Trying' = Trying
    BY <1>0, <1>b DEF Holding, Trying, Went
<1>c. UNCHANGED repeated
    BY DEF LinkStep, ClientStep
<1>1. CASE (t = Link /\ ClientStep(SignOn)) \/ ClientStep(Echo(t))
    <2>1. pc[t] \in {"greet", "echo"} /\ (Went("heart") \/ Went("cleanup") \/ Went("asleep") \/ Went("over"))
        BY <1>1, <1>a DEF ClientStep, SignOn, Echo
    <2>2. Holding' = Holding \ {t} /\ t \in Holding  BY <1>0, <2>1 DEF Holding, Went
    <2>3. Trying' = Trying  BY <1>0, <2>1 DEF Trying, Went
    <2> DEFINE greeting == Message("0800", drawn[t], t, drawn[t])
    <2>4. /\ greeting.mti = "0800" /\ greeting.stan = drawn[t] /\ greeting.of = t
          /\ greeting.orig = drawn[t]
        BY DEF Message
    <2>5. UNCHANGED toSwitch \/ toSwitch' = toSwitch \cup {greeting}
        BY <1>1 DEF ClientStep, SignOn, Echo, SendReturns, SendRaises
    <2> HIDE DEF greeting
    <2>6. UNCHANGED <<drawn, stan, toClient, received, authorised>>
        BY <1>1 DEF ClientStep, SignOn, Echo, stanVars, switchVars, trackerVars
    <2> QED  BY <1>c, <2>2, <2>3, <2>4, <2>5, <2>6 DEF SpendMove
<1>2. CASE /\ ClientStep(Dial) \/ ClientStep(Announce) \/ ClientStep(ReceiveFails)
              \/ ClientStep(Cleanup)
           /\ t = Link
    <2>1. /\ pc[t] \in {"dial", "announce", "receive", "cleanup"}
          /\ Went("announce") \/ Went("signon") \/ Went("cleanup") \/ Went("dial")
        BY <1>2, <1>a DEF ClientStep, Dial, Announce, ReceiveFails, Cleanup
    <2>2. Holding' = Holding /\ Trying' = Trying  BY <1>b, <2>1 DEF Labels
    <2>3. UNCHANGED <<drawn, stan, toSwitch, received, authorised>> /\ toClient' \subseteq toClient
        BY <1>2 DEF ClientStep, Dial, Announce, ReceiveFails, Cleanup, stanVars, switchVars,
                    trackerVars
    <2>4. Travelling' \subseteq Travelling  BY <2>3 DEF Travelling, InHand
    <2> QED  BY <1>c, <2>2, <2>3, <2>4 DEF QuietMove
<1>3. CASE ClientStep(StartHeart) /\ t = Link
    <2>1. FreshHeart \in Hearts /\ pc[FreshHeart] = "off"
        BY <1>3, FreshHeartSleeps DEF ClientStep, StartHeart
    <2>2. /\ pc[Link] = "heart" /\ pc'[Link] = "receive" /\ pc'[FreshHeart] = "asleep"
          /\ \A u \in Threads : u # Link /\ u # FreshHeart => pc'[u] = pc[u]
        BY <1>0, <1>3, <2>1, ThreadKinds DEF ClientStep, StartHeart
    <2>3. Holding' = Holding /\ Trying' = Trying
        BY <1>0, <2>1, <2>2, ThreadKinds DEF Holding, Trying
    <2>4. UNCHANGED <<drawn, stan, toSwitch, toClient, received, authorised>>
        BY <1>3 DEF ClientStep, StartHeart, stanVars, switchVars, trackerVars
    <2> QED  BY <1>c, <2>3, <2>4 DEF QuietMove, Travelling, InHand
<1>4. CASE t = Link /\ \E m \in toClient : Receive(m)
    <2>1. PICK m \in toClient : Receive(m)  BY <1>4
    <2>2. pc[t] = "receive" /\ Went("deliver")  BY <1>4, <2>1, <1>a DEF Receive
    <2>3. Holding' = Holding /\ Trying' = Trying  BY <1>b, <2>2 DEF Labels
    <2>4. UNCHANGED <<drawn, stan, toSwitch, authorised>>
        BY <2>1 DEF Receive, stanVars, switchVars
    <2>5. Travelling' \subseteq Travelling  BY <2>1, <2>4 DEF Receive, Travelling, InHand
    <2> QED  BY <1>c, <2>3, <2>4, <2>5 DEF QuietMove
<1>5. CASE t = Link /\ Deliver
    <2>1. pc[t] = "deliver" /\ Went("receive")  BY <1>5, <1>a DEF Deliver
    <2>2. Holding' = Holding /\ Trying' = Trying  BY <1>b, <2>1 DEF Labels
    <2>3. UNCHANGED <<drawn, stan, toSwitch, authorised>>
        BY <1>5 DEF Deliver, stanVars, switchVars
    <2>4. Travelling' \subseteq Travelling  BY <1>5, <2>3 DEF Deliver, Travelling, InHand
    <2> QED  BY <1>c, <2>2, <2>3, <2>4 DEF QuietMove
<1>6. CASE ClientStep(WakeUp(t))
    <2>1. UNCHANGED <<drawn, stan, toSwitch, toClient, received, authorised>>
        BY <1>6 DEF ClientStep, WakeUp, stanVars, switchVars, trackerVars
    <2>2. pc[t] = "asleep" /\ (Went("beat") \/ Went("over"))
        BY <1>6, <1>a DEF ClientStep, WakeUp
    <2>3. Holding' = Holding /\ Trying' = Trying  BY <1>b, <2>2 DEF Labels
    <2> QED  BY <1>c, <2>1, <2>3 DEF QuietMove, Travelling, InHand
<1>7. CASE ClientStep(Drop)
    <2>1. UNCHANGED <<pc, drawn, stan, toSwitch, received, authorised>> /\ toClient' \subseteq toClient
        BY <1>7 DEF ClientStep, Drop, stanVars, switchVars, trackerVars
    <2>2. Travelling' \subseteq Travelling  BY <2>1 DEF Travelling, InHand
    <2> QED  BY <1>c, <2>1, <2>2 DEF QuietMove, Holding, Trying
<1>8. ASSUME NEW m \in toSwitch, ClientStep(SwitchHandles(m))  PROVE QuietMove
    <2>1. UNCHANGED <<pc, drawn, stan, received>> /\ toSwitch' = toSwitch \ {m}
        BY <1>8 DEF ClientStep, SwitchHandles, stanVars, trackerVars
    <2>2. /\ AnswerTo(m).stan = m.stan /\ AnswerTo(m).of = m.of
          /\ m.mti \in {"0200", "0210"} => AnswerTo(m).mti = "0210"
        <3>1. m \in Requests /\ m.mti # "0210"  BY <1>0 DEF Requests, Messages
        <3> QED  BY <3>1, AnswerTyped
    <2>3. toClient' \subseteq toClient \cup {AnswerTo(m)}
        BY <1>8 DEF ClientStep, SwitchHandles
    <2>4. \A x \in Travelling' : x \in Travelling \/ x = AnswerTo(m)
        BY <2>1, <2>3 DEF Travelling, InHand
    <2>5. m \in Travelling  BY DEF Travelling
    <2>6. \A x \in Travelling' : \E n \in Travelling :
              /\ x.stan = n.stan /\ x.of = n.of
              /\ n.mti \in {"0200", "0210"} => x.mti \in {"0200", "0210"}
        BY <2>2, <2>4, <2>5
    <2>7. \A p \in authorised' :
              p \in authorised \/ (m.mti = "0200" /\ p.of = m.of /\ p.stan = m.stan)
        BY <1>8 DEF ClientStep, SwitchHandles
    <2>8. Holding' = Holding /\ Trying' = Trying  BY <2>1 DEF Holding, Trying
    <2> QED  BY <1>c, <2>1, <2>6, <2>7, <2>8 DEF QuietMove
<1> QED
    BY <1>1, <1>2, <1>3, <1>4, <1>5, <1>6, <1>7, <1>8, ThreadKinds DEF LinkStep

\* Every step is one of the moves.
LEMMA Moves ==
    ASSUME BaseInv, Next
    PROVE  \/ \E t \in Threads : DrawMove(t) \/ SpendMove(t)
           \/ \E c \in Callers : RegisterMove(c) \/ PayMove(c)
           \/ QuietMove
<1>1. ASSUME NEW c \in Callers, DrawStep(c) \/ CallerStep(c)
      PROVE  DrawMove(c) \/ SpendMove(c) \/ RegisterMove(c) \/ PayMove(c) \/ QuietMove
    BY <1>1, CallerMoves, DrawMoves, ThreadKinds
<1>2. LinkStep => DrawMove(Link) \/ SpendMove(Link) \/ QuietMove
    BY DrawMoves, OtherMoves, ThreadKinds
<1>3. ASSUME NEW h \in Hearts,
             DrawStep(h) \/ ClientStep(WakeUp(h)) \/ ClientStep(Echo(h))
      PROVE  DrawMove(h) \/ SpendMove(h) \/ QuietMove
    BY <1>3, DrawMoves, OtherMoves, ThreadKinds
<1>4. ClientStep(Drop) \/ (\E m \in toSwitch : ClientStep(SwitchHandles(m)))
          => SpendMove(Link) \/ QuietMove
    BY OtherMoves
<1> QED  BY <1>1, <1>2, <1>3, <1>4, ThreadKinds DEF Next

-----------------------------------------------------------------------------
(* A STAN has one owner *)

\* A thread that holds a STAN has drawn it from the counter's range; none is both
\* a caller that registers and one inside the try block.
LEMMA HoldersAreThreads == Holding \subseteq Threads /\ Trying \subseteq Callers
BY DEF Holding, Trying

LEMMA StanStep ==
    ASSUME BaseInv, StanInv, Next
    PROVE  StanInv'
<1> USE DEF StanInv
<1>a. Holding \subseteq Threads /\ Trying \subseteq Callers  BY HoldersAreThreads
<1>1. ASSUME NEW t \in Threads, DrawMove(t)  PROVE StanInv'
    <2>1. /\ Holding' = Holding \cup {t} /\ Trying' = Trying /\ stan' = stan
          /\ t \notin Holding
          /\ \A u \in Threads : u # t => drawn'[u] = drawn[u]
          /\ repeated \subseteq repeated'
        BY <1>1 DEF DrawMove
    <2>2. Travelling' = Travelling  BY <1>1 DEF DrawMove, Travelling, InHand
    <2>3. drawn'[t] \in InUse => drawn'[t] \in repeated'  BY <1>1 DEF DrawMove
    <2>4. /\ \A u \in Holding : drawn[u] = drawn'[t] => drawn'[t] \in repeated'
          /\ \A c \in Trying : stan[c] = drawn'[t] => drawn'[t] \in repeated'
          /\ \A m \in Travelling : m.stan = drawn'[t] => drawn'[t] \in repeated'
        BY <2>3 DEF InUse, Travelling
    <2>5. \A u, v \in Holding' : u # v /\ drawn'[u] = drawn'[v] => drawn'[u] \in repeated'
        BY <1>a, <2>1, <2>4
    <2>6. \A u \in Holding', c \in Trying' : drawn'[u] = stan'[c] => drawn'[u] \in repeated'
        BY <1>a, <2>1, <2>4
    <2>7. \A m \in Travelling', u \in Holding' : m.stan = drawn'[u] => m.stan \in repeated'
        BY <1>a, <2>1, <2>2, <2>4
    <2> QED  BY <2>1, <2>2, <2>5, <2>6, <2>7
<1>2. ASSUME NEW c \in Callers, RegisterMove(c)  PROVE StanInv'
    <2>1. /\ c \in Holding /\ Holding' = Holding \ {c} /\ Trying' = Trying \cup {c}
          /\ stan'[c] = drawn[c] /\ \A d \in Callers : d # c => stan'[d] = stan[d]
          /\ drawn' = drawn /\ repeated' = repeated
        BY <1>2 DEF RegisterMove
    <2>2. Travelling' = Travelling  BY <1>2 DEF RegisterMove, Travelling, InHand
    <2>3. \A t \in Holding', d \in Trying' : drawn'[t] = stan'[d] => drawn'[t] \in repeated'
        BY <1>a, <2>1
    <2>4. \A d, e \in Trying' : d # e /\ stan'[d] = stan'[e] => stan'[d] \in repeated'
        BY <1>a, <2>1
    <2>5. \A m \in Travelling', d \in Trying' :
              m.stan = stan'[d] => \/ m.of = d /\ m.mti \in {"0200", "0210"}
                                   \/ m.stan \in repeated'
        BY <1>a, <2>1, <2>2
    <2> QED  BY <2>1, <2>2, <2>3, <2>4, <2>5
<1>3. ASSUME NEW t \in Threads, SpendMove(t)  PROVE StanInv'
    <2>1. /\ t \in Holding /\ Holding' = Holding \ {t} /\ Trying' = Trying
          /\ drawn' = drawn /\ stan' = stan /\ repeated' = repeated
        BY <1>3 DEF SpendMove
    <2>2. \A m \in Travelling' : m \in Travelling \/ m.stan = drawn[t]
        BY <1>3 DEF SpendMove, Travelling, InHand
    <2> QED  BY <2>1, <2>2
<1>4. ASSUME NEW c \in Callers, PayMove(c)  PROVE StanInv'
    <2>1. /\ c \in Trying /\ Holding' = Holding /\ Trying' = Trying
          /\ drawn' = drawn /\ stan' = stan /\ repeated' = repeated
        BY <1>4 DEF PayMove
    <2>2. \A m \in Travelling' :
              m \in Travelling \/ (m.stan = stan[c] /\ m.of = c /\ m.mti = "0200")
        BY <1>4 DEF PayMove, Travelling, InHand
    <2> QED  BY <2>1, <2>2
<1>5. CASE QuietMove
    <2>1. /\ Holding' = Holding /\ Trying' \subseteq Trying /\ drawn' = drawn /\ stan' = stan
          /\ repeated' = repeated
          /\ \A m \in Travelling' : \E n \in Travelling :
                /\ m.stan = n.stan /\ m.of = n.of
                /\ n.mti \in {"0200", "0210"} => m.mti \in {"0200", "0210"}
        BY <1>5 DEF QuietMove
    <2>2. \A m \in Travelling', t \in Holding' : m.stan = drawn'[t] => m.stan \in repeated'
        BY <2>1
    <2>3. \A m \in Travelling', c \in Trying' :
              m.stan = stan'[c] => \/ m.of = c /\ m.mti \in {"0200", "0210"}
                                   \/ m.stan \in repeated'
        BY <2>1
    <2>4. \A c, d \in Trying' : c # d /\ stan'[c] = stan'[d] => stan'[c] \in repeated'
        BY <2>1
    <2> QED  BY <2>1, <2>2, <2>3, <2>4
<1> QED  BY <1>1, <1>2, <1>3, <1>4, <1>5, Moves

\* Only Register gives a caller another STAN, and nobody loses the one it has.
LEMMA RegisteredStays ==
    ASSUME BaseInv, Next, NEW c \in Callers, Registered(c)
    PROVE  /\ Registered(c)' /\ stan'[c] = stan[c]
           /\ repeated \subseteq repeated'
<1>0. /\ pc \in [Threads -> Labels] /\ Callers \subseteq Threads /\ stan \in [Callers -> Stans]
      /\ pc[c] \in {"send", "wait", "rstan", "reverse", "pop", "done"}
      /\ TypeOK /\ ControlInv
    BY ThreadKinds DEF BaseInv, TypeOK, ControlInv, Labels, Registered
<1>1. repeated \subseteq repeated'
    BY DEF Next, LinkStep, CallerStep, ClientStep, DrawStep
<1>2. stan'[c] = stan[c]
    <2>1. CASE UNCHANGED stan  BY <2>1
    <2>2. ASSUME NEW d \in Callers, Register(d)  PROVE stan'[c] = stan[c]
        BY <1>0, <2>2 DEF Register
    <2>3. ASSUME NEW d \in Callers, Pop(d)  PROVE stan'[c] = stan[c]
        BY <2>3 DEF Pop
    <2> QED  BY <2>1, <2>2, <2>3, MapChanges
<1>3. Registered(c)'
    <2> USE DEF Registered
    <2>1. ASSUME NEW t \in Threads, DrawStep(t)  PROVE pc'[c] \notin {"stan", "register"}
        <3>1. NextStan(t) /\ DrawsStan(t)  BY <1>0, <2>1, DrawSteps DEF DrawStep
        <3>2. CASE UNCHANGED pc  BY <1>0, <3>2
        <3>3. CASE pc' = [pc EXCEPT ![t] = NextLabel(pc[t])]
            <4>1. CASE t = c
                <5>1. pc[c] = "rstan"  BY <1>0, <3>1, <4>1 DEF DrawsStan
                <5>2. NextLabel(pc[c]) = "reverse"  BY <3>1, <4>1, <5>1, DrawLabels
                <5> QED  BY <1>0, <3>3, <4>1, <5>2
            <4>2. CASE t # c  BY <1>0, <3>3, <4>2
            <4> QED  BY <4>1, <4>2
        <3> QED  BY <1>0, <3>1, <3>2, <3>3, DrawSteps
    <2>2. ASSUME NEW d \in Callers, CallerStep(d)  PROVE pc'[c] \notin {"stan", "register"}
        BY <1>0, <2>2
           DEF CallerStep, Register, Send, Answered, TimesOut, SendReversal, Pop, Leave, GoTo
    <2>3. CASE pc'[c] = pc[c]  BY <1>0, <2>3
    <2>4. LinkStep /\ ~DrawStep(Link) => pc'[c] = pc[c]
        BY <1>0, ThreadKinds, FreshHeartSleeps
           DEF LinkStep, ClientStep, Dial, Announce, SignOn, StartHeart, ReceiveFails, Cleanup,
               Receive, Deliver, GoTo
    <2>5. ASSUME NEW h \in Hearts, ClientStep(WakeUp(h)) \/ ClientStep(Echo(h))
          PROVE  pc'[c] = pc[c]
        BY <1>0, <2>5, ThreadKinds DEF ClientStep, WakeUp, Echo, GoTo
    <2>6. ClientStep(Drop) \/ (\E m \in toSwitch : ClientStep(SwitchHandles(m))) => UNCHANGED pc
        BY DEF ClientStep, Drop, SwitchHandles
    <2> QED  BY <2>1, <2>2, <2>3, <2>4, <2>5, <2>6, ThreadKinds DEF Next
<1> QED  BY <1>1, <1>2, <1>3

LEMMA OwnStays ==
    ASSUME NEW c \in Callers, NEW m, stan'[c] = stan[c], repeated \subseteq repeated', Own(c, m)
    PROVE  (m.mti = "0210" /\ m.of = c) \/ stan'[c] \in repeated'
BY DEF Own

\* Of the responses on their way to it, a caller finds its own 0210 only, or one
\* that bears a STAN drawn twice.
LEMMA HandedStep ==
    ASSUME BaseInv, StanInv, HandedInv, Next
    PROVE  HandedInv'
<1>0. /\ stan \in [Callers -> Stans] /\ response \in [Callers -> Responses \cup {NoAnswer}]
      /\ answer \in [Callers -> Responses \cup {NoAnswer}]
      /\ outcome \in [Callers -> {"none", "answered", "timeout", "unreachable"}]
      /\ toClient \subseteq Responses /\ found \in Callers \cup {NoOne}
      /\ pending \in [Stans -> Callers \cup {NoOne}]
    BY DEF BaseInv, TypeOK, ClientTypeOK
<1> DEFINE Safe(c, m) == /\ pc'[c] \notin {"stan", "register"}
                       /\ ((m.mti = "0210" /\ m.of = c) \/ stan'[c] \in repeated')
<1>a. ASSUME NEW c \in Callers, NEW m, Registered(c), Own(c, m)  PROVE Safe(c, m)
    BY <1>a, RegisteredStays, OwnStays DEF Registered
<1>b. ASSUME found' # NoOne => found' \in Callers /\ Safe(found', received'),
             \A c \in Callers : response'[c] # NoAnswer => Safe(c, response'[c]),
             \A c \in Callers : outcome'[c] = "answered" => Safe(c, answer'[c])
      PROVE  HandedInv'
    <2> DEFINE Kept(c, m) == Registered(c) /\ Own(c, m)
    <2>1. (found # NoOne => Kept(found, received))'  BY <1>b DEF Own, Registered
    <2>2. (\A c \in Callers : response[c] # NoAnswer => Kept(c, response[c]))'
        BY <1>b DEF Own, Registered
    <2>3. (\A c \in Callers : outcome[c] = "answered" => Kept(c, answer[c]))'
        BY <1>b DEF Own, Registered
    <2> QED  BY <2>1, <2>2, <2>3 DEF HandedInv
<1>c. /\ found # NoOne => Safe(found, received)
      /\ \A c \in Callers : response[c] # NoAnswer => Safe(c, response[c])
      /\ \A c \in Callers : outcome[c] = "answered" => Safe(c, answer[c])
    BY <1>0, <1>a DEF HandedInv
<1> HIDE DEF Safe
<1>1. ASSUME NEW c \in Callers, Answered(c)  PROVE HandedInv'
    <2>1. /\ response[c] # NoAnswer /\ UNCHANGED <<response, found, received>>
          /\ answer' = [answer EXCEPT ![c] = response[c]]
          /\ outcome' = [outcome EXCEPT ![c] = "answered"]
        BY <1>1 DEF Answered, Leave
    <2>2. Safe(c, answer'[c])  BY <1>0, <1>c, <2>1
    <2>3. \A d \in Callers : d # c => answer'[d] = answer[d] /\ outcome'[d] = outcome[d]
        BY <1>0, <2>1
    <2> QED  BY <1>0, <1>b, <1>c, <2>1, <2>2, <2>3
<1>2. ASSUME NEW m \in toClient, Receive(m)  PROVE HandedInv'
    <2>1. /\ received' = m /\ found' = pending[m.stan] /\ UNCHANGED <<response, outcome, answer>>
        BY <1>2 DEF Receive
    <2>2. m \in Responses /\ m.stan \in Stans /\ m.mti # "0200" /\ m \in Travelling
        BY <1>0 DEF Responses, Messages, Travelling
    <2>3. ASSUME found' # NoOne  PROVE found' \in Callers /\ Safe(found', received')
        <3>1. found' \in Trying /\ stan[found'] = m.stan /\ found' \in Callers
            BY <1>0, <2>1, <2>2, <2>3 DEF BaseInv, PendingIsWaiting
        <3>2. Registered(found')  BY <3>1 DEF Trying, Registered
        <3>3. Own(found', m)  BY <2>2, <3>1 DEF StanInv, Own
        <3> QED  BY <1>a, <2>1, <3>1, <3>2, <3>3
    <2> QED  BY <1>b, <1>c, <2>1, <2>3
<1>3. CASE Deliver
    <2>1. /\ response' = IF found = NoOne THEN response
                                          ELSE [response EXCEPT ![found] = received]
          /\ found' = NoOne /\ UNCHANGED <<outcome, answer>>
        BY <1>3 DEF Deliver
    <2>2. \A c \in Callers : response'[c] # NoAnswer => Safe(c, response'[c])
        BY <1>0, <1>c, <2>1
    <2> QED  BY <1>b, <1>c, <2>1, <2>2
<1>4. ASSUME NEW c \in Callers, NEW how \in {"none", "timeout", "unreachable"},
             UNCHANGED <<found, received, response, answer>>,
             outcome' = outcome \/ outcome' = [outcome EXCEPT ![c] = how]
      PROVE  HandedInv'
    <2>1. \A d \in Callers : outcome'[d] = "answered" => outcome[d] = "answered"
        BY <1>0, <1>4
    <2> QED  BY <1>0, <1>b, <1>c, <1>4, <2>1
<1>5. CASE UNCHANGED <<found, received, response, answer, outcome>>
    BY <1>0, <1>b, <1>c, <1>5
<1>6. ASSUME NEW c \in Callers, CallerStep(c)  PROVE HandedInv'
    BY <1>1, <1>4, <1>5, <1>6
       DEF CallerStep, Register, Send, TimesOut, SendReversal, Pop, Leave, trackerVars
<1> QED
    BY <1>2, <1>3, <1>5, <1>6 DEF Next, LinkStep, ClientStep, DrawStep, trackerVars

LEMMA AnswerInit == Init => AnswerInv
BY ThreadKinds
   DEF Init, ClientInit, AnswerInv, StanInv, HandedInv, Holding, Trying, Travelling, InHand

LEMMA AnswerStep == BaseInv /\ AnswerInv /\ [Next]_vars => AnswerInv'
<1> SUFFICES ASSUME BaseInv, AnswerInv, [Next]_vars PROVE AnswerInv'  OBVIOUS
<1>1. CASE Next
    BY <1>1, StanStep, HandedStep DEF AnswerInv
<1>2. CASE UNCHANGED vars
    BY <1>2 DEF vars, clientVars, stanVars, trackerVars, AnswerInv, StanInv, HandedInv,
                Holding, Trying, Travelling, InHand, Own, Registered
<1> QED  BY <1>1, <1>2

LEMMA AnswerHolds == Spec => []AnswerInv
BY AnswerInit, AnswerStep, BaseHolds, PTL DEF Spec

\* A caller that gets an answer gets the 0210 of its own 0200, and no other, for any
\* number of callers, echoes, timeouts and reconnections, and however the draws of
\* next_stan() run into each other or come round: unless its own STAN is one that was
\* drawn while in use.
THEOREM OwnAnswerHolds == Spec => []OwnAnswer
<1>1. AnswerInv => OwnAnswer
    BY DEF AnswerInv, HandedInv, OwnAnswer, Own
<1> QED  BY <1>1, AnswerHolds, PTL

-----------------------------------------------------------------------------
(* A reversal undoes its sender's payment *)

LEMMA PaymentStep ==
    ASSUME BaseInv, StanInv, PaymentInv, Next
    PROVE  PaymentInv'
<1>a. /\ Holding \subseteq Threads /\ Trying \subseteq Callers
      /\ \A m \in toSwitch : m \in Travelling
    BY HoldersAreThreads DEF Travelling
<1> USE DEF PaymentInv
<1>1. ASSUME NEW t \in Threads, DrawMove(t)  PROVE PaymentInv'
    <2>1. /\ Holding' = Holding \cup {t} /\ Trying' = Trying /\ stan' = stan
          /\ t \notin Holding /\ toSwitch' = toSwitch /\ authorised' = authorised
          /\ \A u \in Threads : u # t => drawn'[u] = drawn[u]
          /\ repeated \subseteq repeated'
        BY <1>1 DEF DrawMove
    <2>2. /\ \A p \in authorised : p.stan = drawn'[t] => p.stan \in repeated'
          /\ \A m \in toSwitch : m.orig = drawn'[t] => m.orig \in repeated'
        BY <1>1 DEF DrawMove, InUse
    <2>3. \A p \in authorised', u \in Holding' : p.stan = drawn'[u] => p.stan \in repeated'
        BY <1>a, <2>1, <2>2
    <2>4. \A m \in toSwitch', u \in Holding' : m.orig = drawn'[u] => m.orig \in repeated'
        BY <1>a, <2>1, <2>2
    <2> QED  BY <2>1, <2>3, <2>4
<1>2. ASSUME NEW c \in Callers, RegisterMove(c)  PROVE PaymentInv'
    <2>1. /\ c \in Holding /\ Holding' = Holding \ {c} /\ Trying' = Trying \cup {c}
          /\ stan'[c] = drawn[c] /\ \A d \in Callers : d # c => stan'[d] = stan[d]
          /\ drawn' = drawn /\ toSwitch' = toSwitch /\ authorised' = authorised
          /\ repeated' = repeated
        BY <1>2 DEF RegisterMove
    <2> QED  BY <1>a, <2>1
<1>3. ASSUME NEW t \in Threads, SpendMove(t)  PROVE PaymentInv'
    <2>1. /\ t \in Holding /\ Holding' = Holding \ {t} /\ Trying' = Trying
          /\ drawn' = drawn /\ stan' = stan /\ authorised' = authorised /\ repeated' = repeated
        BY <1>3 DEF SpendMove
    <2>2. \A m \in toSwitch' : \/ m \in toSwitch
                               \/ m.orig = drawn[t]
                               \/ t \in Trying /\ m.orig = stan[t] /\ m.of = t
        BY <1>3 DEF SpendMove
    <2> QED  BY <2>1, <2>2 DEF StanInv
<1>4. ASSUME NEW c \in Callers, PayMove(c)  PROVE PaymentInv'
    <2>1. /\ c \in Trying /\ Holding' = Holding /\ Trying' = Trying
          /\ drawn' = drawn /\ stan' = stan /\ authorised' = authorised /\ repeated' = repeated
        BY <1>4 DEF PayMove
    <2>2. \A m \in toSwitch' : m \in toSwitch \/ (m.orig = stan[c] /\ m.of = c)
        BY <1>4 DEF PayMove
    <2> QED  BY <2>1, <2>2 DEF StanInv
<1>5. CASE QuietMove
    <2>1. /\ Holding' = Holding /\ Trying' \subseteq Trying /\ drawn' = drawn /\ stan' = stan
          /\ toSwitch' \subseteq toSwitch /\ repeated' = repeated
          /\ \A p \in authorised' : p \in authorised \/ \E n \in toSwitch :
                n.mti = "0200" /\ p.of = n.of /\ p.stan = n.stan
        BY <1>5 DEF QuietMove
    <2>2. \A p \in authorised', t \in Holding' : p.stan = drawn'[t] => p.stan \in repeated'
        BY <1>a, <2>1 DEF StanInv
    <2>3. \A p \in authorised', c \in Trying' : p.stan = stan'[c] => p.of = c \/ p.stan \in repeated'
        BY <1>a, <2>1 DEF StanInv
    <2> QED  BY <2>1, <2>2, <2>3
<1> QED  BY <1>1, <1>2, <1>3, <1>4, <1>5, Moves

LEMMA OutcomeStep ==
    ASSUME BaseInv, OutcomeInv, Next
    PROVE  OutcomeInv'
<1> USE DEF OutcomeInv
<1>0. /\ pc \in [Threads -> Labels] /\ Callers \subseteq Threads
      /\ answer \in [Callers -> Responses \cup {NoAnswer}]
      /\ outcome \in [Callers -> {"none", "answered", "timeout", "unreachable"}]
    BY ThreadKinds DEF BaseInv, TypeOK, Labels
<1>1. ASSUME NEW c \in Callers, CallerStep(c)  PROVE OutcomeInv'
    <2>1. \A d \in Callers : d # c =>
              pc'[d] = pc[d] /\ answer'[d] = answer[d] /\ outcome'[d] = outcome[d]
        BY <1>0, <1>1
           DEF CallerStep, Register, Send, Answered, TimesOut, SendReversal, Pop, Leave, GoTo,
               trackerVars
    <2>2. CASE Pop(c)
        BY <1>0, <2>1, <2>2 DEF Pop, GoTo
    <2>3. CASE Answered(c)
        BY <1>0, <2>1, <2>3 DEF Answered, Leave, GoTo
    <2>4. CASE Register(c) \/ TimesOut(c)
        <3>1. /\ pc[c] \in {"register", "wait"} /\ UNCHANGED <<answer, outcome>>
            BY <2>4 DEF Register, TimesOut, trackerVars
        <3>2. outcome[c] = "none"  BY <3>1
        <3> QED  BY <2>1, <3>1, <3>2
    <2>5. CASE Send(c) \/ SendReversal(c)
        <3>1. /\ pc[c] \in {"send", "reverse"} /\ UNCHANGED answer
              /\ UNCHANGED outcome \/ pc'[c] = "pop"
            BY <1>0, <2>5 DEF Send, SendReversal, Leave, GoTo
        <3>2. outcome[c] = "none" /\ answer[c] = NoAnswer  BY <3>1
        <3> QED  BY <2>1, <3>1, <3>2
    <2> QED  BY <1>1, <2>2, <2>3, <2>4, <2>5 DEF CallerStep
<1>2. ASSUME NEW t \in Threads, DrawStep(t)  PROVE OutcomeInv'
    <2>1. NextStan(t) /\ UNCHANGED <<answer, outcome>>  BY <1>2 DEF DrawStep, trackerVars
    <2>2. \A c \in Callers : pc[c] \in {"pop", "done"} => pc'[c] = pc[c]
        BY <1>0, <2>1, DrawSteps DEF DrawsStan, BaseInv
    <2> QED  BY <2>1, <2>2
<1>3. ASSUME UNCHANGED <<answer, outcome>>, \A c \in Callers : pc'[c] = pc[c]
      PROVE  OutcomeInv'
    BY <1>3
<1>4. LinkStep /\ ~DrawStep(Link)
          => UNCHANGED <<answer, outcome>> /\ \A c \in Callers : pc'[c] = pc[c]
    BY <1>0, ThreadKinds, FreshHeartSleeps
       DEF LinkStep, ClientStep, Dial, Announce, SignOn, StartHeart, ReceiveFails, Cleanup, Receive,
           Deliver, GoTo, trackerVars
<1>5. ASSUME NEW h \in Hearts, ClientStep(WakeUp(h)) \/ ClientStep(Echo(h))
      PROVE  UNCHANGED <<answer, outcome>> /\ \A c \in Callers : pc'[c] = pc[c]
    BY <1>0, <1>5, ThreadKinds DEF ClientStep, WakeUp, Echo, GoTo, trackerVars
<1>6. ClientStep(Drop) \/ (\E m \in toSwitch : ClientStep(SwitchHandles(m)))
          => UNCHANGED <<answer, outcome, pc>>
    BY DEF ClientStep, Drop, SwitchHandles, trackerVars
<1> QED  BY <1>1, <1>2, <1>3, <1>4, <1>5, <1>6, ThreadKinds DEF Next

LEMMA ReversalStep ==
    ASSUME BaseInv, StanInv, PaymentInv, OutcomeInv, ReversalInv, Next
    PROVE  ReversalInv'
<1> USE DEF ReversalInv
<1>0. /\ outcome \in [Callers -> {"none", "answered", "timeout", "unreachable"}]
      /\ toSwitch \subseteq Requests /\ \A m \in toSwitch : m \in Travelling
      /\ \A p \in reversed : p.of \in Callers
    BY DEF BaseInv, TypeOK, ClientTypeOK, Payments, Travelling
<1>a. repeated \subseteq repeated'
    BY DEF Next, LinkStep, CallerStep, ClientStep, DrawStep
<1>b. ASSUME NEW c \in Callers, CallerStep(c)  PROVE repeated' = repeated
    BY <1>b DEF CallerStep
<1>1. ASSUME NEW c \in Callers, Send(c), repeated' = repeated  PROVE ReversalInv'
    <2> DEFINE payment == Message("0200", stan[c], c, stan[c])
    <2>1. /\ payment.mti = "0200" /\ payment.stan = stan[c] /\ payment.of = c
        BY DEF Message
    <2>2. toSwitch' \subseteq toSwitch \cup {payment} /\ UNCHANGED <<authorised, reversed>>
        BY <1>1 DEF Send, SendReturns, SendRaises, switchVars
    <2>3. c \in Trying /\ outcome[c] = "none"
        BY <1>1 DEF Send, Trying, OutcomeInv
    <2>4. \A d \in Callers : d # c => outcome'[d] = outcome[d]
        BY <1>0, <1>1 DEF Send, Leave
    <2> HIDE DEF payment
    <2>5. \A m \in toSwitch' : m.mti = "0400" => m \in toSwitch  BY <2>1, <2>2
    <2>6. \A m \in toSwitch : m.orig = stan[c] => m.of = c \/ m.orig \in repeated
        BY <2>3 DEF PaymentInv
    <2>7. ASSUME NEW m \in toSwitch', m.mti = "0400"
          PROVE  /\ m.of \in Callers /\ outcome'[m.of] = "timeout"
                 /\ \A p \in authorised' : p.stan = m.orig => p.of = m.of \/ p.stan \in repeated'
                 /\ \A n \in toSwitch' :
                       n.mti = "0200" /\ n.stan = m.orig => n.of = m.of \/ n.stan \in repeated'
        BY <1>1, <2>1, <2>2, <2>3, <2>4, <2>5, <2>6, <2>7
    <2>8. \A p \in reversed' : outcome'[p.of] = "timeout" \/ p.stan \in repeated'
        BY <1>0, <1>1, <2>2, <2>3, <2>4
    <2> QED  BY <2>7, <2>8
<1>2. ASSUME NEW c \in Callers, Answered(c), repeated' = repeated  PROVE ReversalInv'
    <2>1. UNCHANGED <<toSwitch, authorised, reversed>> /\ outcome[c] = "none"
        BY <1>2 DEF Answered, switchVars, OutcomeInv
    <2>2. \A d \in Callers : d # c => outcome'[d] = outcome[d]
        BY <1>0, <1>2 DEF Answered, Leave
    <2> QED  BY <1>0, <1>2, <2>1, <2>2
<1>3. ASSUME NEW c \in Callers, SendReversal(c), repeated' = repeated  PROVE ReversalInv'
    <2>1. UNCHANGED <<authorised, reversed>> /\ outcome[c] = "none" /\ c \in Trying
        BY <1>3 DEF SendReversal, switchVars, OutcomeInv, Trying
    <2>2. \A d \in Callers : d # c => outcome'[d] = outcome[d]
        BY <1>0, <1>3 DEF SendReversal, Leave
    <2>3. CASE UNCHANGED toSwitch  BY <1>0, <1>3, <2>1, <2>2, <2>3
    <2>4. CASE /\ toSwitch' = toSwitch \cup {Message("0400", drawn[c], c, stan[c])}
               /\ outcome' = [outcome EXCEPT ![c] = "timeout"]
        <3> DEFINE reversal == Message("0400", drawn[c], c, stan[c])
        <3>1. reversal.mti = "0400" /\ reversal.of = c /\ reversal.orig = stan[c]
            BY DEF Message
        <3> HIDE DEF reversal
        <3>2. toSwitch' = toSwitch \cup {reversal} /\ outcome'[c] = "timeout"
            BY <1>0, <2>4 DEF reversal
        <3>3. \A n \in toSwitch' : n.mti = "0200" => n \in toSwitch  BY <3>1, <3>2
        <3>4. \A p \in authorised : p.stan = stan[c] => p.of = c \/ p.stan \in repeated
            BY <2>1 DEF PaymentInv
        <3>5. \A n \in toSwitch : n.stan = stan[c] => n.of = c \/ n.stan \in repeated
            BY <1>0, <2>1 DEF StanInv
        <3>6. ASSUME NEW m \in toSwitch', m.mti = "0400"
              PROVE  /\ m.of \in Callers /\ outcome'[m.of] = "timeout"
                     /\ \A p \in authorised' :
                           p.stan = m.orig => p.of = m.of \/ p.stan \in repeated'
                     /\ \A n \in toSwitch' :
                           n.mti = "0200" /\ n.stan = m.orig => n.of = m.of \/ n.stan \in repeated'
            <4>1. CASE m = reversal  BY <1>3, <2>1, <3>1, <3>2, <3>3, <3>4, <3>5, <4>1
            <4>2. CASE m \in toSwitch  BY <1>3, <2>1, <2>2, <3>2, <3>3, <3>6, <4>2
            <4> QED  BY <3>2, <4>1, <4>2
        <3>7. \A p \in reversed' : outcome'[p.of] = "timeout" \/ p.stan \in repeated'
            BY <1>0, <1>3, <2>1, <2>2
        <3> QED  BY <3>6, <3>7
    <2> QED  BY <1>3, <2>3, <2>4 DEF SendReversal, SendReturns, SendRaises, Leave
<1>4. ASSUME NEW t \in Threads, UNCHANGED <<authorised, reversed, outcome>>,
             UNCHANGED toSwitch \/ toSwitch' = toSwitch \cup {Message("0800", drawn[t], t, drawn[t])}
      PROVE  ReversalInv'
    <2>1. \A m \in toSwitch' : m \in toSwitch \/ m.mti = "0800"  BY <1>4 DEF Message
    <2> QED  BY <1>a, <1>4, <2>1
<1>5. ASSUME NEW m \in toSwitch, ClientStep(SwitchHandles(m))  PROVE ReversalInv'
    <2>1. UNCHANGED outcome /\ toSwitch' \subseteq toSwitch
        BY <1>5 DEF ClientStep, SwitchHandles, trackerVars
    <2>2. \A p \in authorised' : \/ p \in authorised
                                 \/ m.mti = "0200" /\ p.of = m.of /\ p.stan = m.stan
        BY <1>5 DEF ClientStep, SwitchHandles
    <2>3. \A p \in reversed' : \/ p \in reversed
                               \/ m.mti = "0400" /\ p \in authorised /\ p.stan = m.orig
        BY <1>5 DEF ClientStep, SwitchHandles
    <2>4. \A x \in toSwitch' : x.mti = "0400" =>
              \A p \in authorised' : p.stan = x.orig => p.of = x.of \/ p.stan \in repeated'
        BY <1>a, <2>1, <2>2
    <2>5. \A p \in reversed' : outcome'[p.of] = "timeout" \/ p.stan \in repeated'
        BY <1>a, <2>1, <2>3
    <2> QED  BY <1>a, <2>1, <2>4, <2>5
<1>6. ASSUME NEW c \in Callers, CallerStep(c)  PROVE ReversalInv'
    <2>1. Register(c) \/ TimesOut(c) \/ Pop(c)
              => UNCHANGED <<toSwitch, authorised, reversed, outcome>>
        BY DEF Register, TimesOut, Pop, switchVars, trackerVars
    <2> QED  BY <1>b, <1>1, <1>2, <1>3, <1>4, <1>6, <2>1, ThreadKinds DEF CallerStep
<1>7. ASSUME NEW t \in Threads, DrawStep(t) \/ (t \in Hearts /\ ClientStep(WakeUp(t)))
      PROVE  ReversalInv'
    BY <1>4, <1>7 DEF ClientStep, DrawStep, NextStan, WakeUp, switchVars, trackerVars
<1>8. ASSUME NEW h \in Hearts, ClientStep(Echo(h))  PROVE ReversalInv'
    <2>1. UNCHANGED <<authorised, reversed, outcome>>
        BY <1>8 DEF ClientStep, Echo, switchVars, trackerVars
    <2>2. UNCHANGED toSwitch \/ toSwitch' = toSwitch \cup {Message("0800", drawn[h], h, drawn[h])}
        BY <1>8 DEF ClientStep, Echo, SendReturns, SendRaises
    <2> QED  BY <1>4, <2>1, <2>2, ThreadKinds
<1>9. CASE LinkStep
    <2>1. ClientStep(SignOn) => /\ UNCHANGED <<authorised, reversed, outcome>>
                                /\ UNCHANGED toSwitch \/ toSwitch' = toSwitch \cup
                                       {Message("0800", drawn[Link], Link, drawn[Link])}
        BY DEF ClientStep, SignOn, SendReturns, SendRaises, switchVars, trackerVars
    <2>2. ClientStep(Dial) \/ ClientStep(Announce) \/ ClientStep(StartHeart)
          \/ ClientStep(ReceiveFails) \/ ClientStep(Cleanup) \/ Deliver
          \/ (\E m \in toClient : Receive(m))
              => UNCHANGED <<toSwitch, authorised, reversed, outcome>>
        BY DEF ClientStep, Dial, Announce, StartHeart, ReceiveFails, Cleanup, Deliver, Receive,
               switchVars, trackerVars
    <2> QED  BY <1>4, <1>7, <1>9, <2>1, <2>2, ThreadKinds DEF LinkStep
<1>10. CASE ClientStep(Drop)
    BY <1>4, <1>10, ThreadKinds DEF ClientStep, Drop, switchVars, trackerVars
<1> QED  BY <1>5, <1>6, <1>7, <1>8, <1>9, <1>10, ThreadKinds DEF Next

LEMMA SettledInit == Init => SettledInv
BY ThreadKinds
   DEF Init, ClientInit, SettledInv, PaymentInv, ReversalInv, OutcomeInv, Holding, Trying

LEMMA SettledStep == BaseInv /\ StanInv /\ SettledInv /\ [Next]_vars => SettledInv'
<1> SUFFICES ASSUME BaseInv, StanInv, SettledInv, [Next]_vars PROVE SettledInv'  OBVIOUS
<1>1. CASE Next
    BY <1>1, PaymentStep, OutcomeStep, ReversalStep DEF SettledInv
<1>2. CASE UNCHANGED vars
    BY <1>2 DEF vars, clientVars, stanVars, switchVars, trackerVars, SettledInv,
                PaymentInv, ReversalInv, OutcomeInv, Holding, Trying
<1> QED  BY <1>1, <1>2

\* A payment that is undone is the payment of a caller that timed out and was given
\* no answer: no reversal reaches another caller's payment, nor one whose answer
\* was, or will be, delivered; unless the STAN of that payment is one that was drawn
\* while in use.
THEOREM ReversalHolds == Spec => []OnlyTimedOutReversed
<1>1. AnswerInv => StanInv  BY DEF AnswerInv
<1>2. BaseInv /\ SettledInv => OnlyTimedOutReversed
    <2>1. BaseInv => \A p \in reversed : p.of \in Callers
        BY DEF BaseInv, TypeOK, ClientTypeOK, Payments
    <2> QED  BY <2>1 DEF SettledInv, ReversalInv, OutcomeInv, OnlyTimedOutReversed
<1> QED  BY <1>1, <1>2, SettledInit, SettledStep, AnswerHolds, BaseHolds, PTL DEF Spec

-----------------------------------------------------------------------------
(* next_stan() keeps STANs that were drawn undisturbed apart *)

\* A thread whose draw nothing has overlapped is alone inside next_stan(); so the
\* counter, and every copy of it that is still to be stored, has reached each STAN
\* that was drawn that way since it last came round.
CleanInv ==
    /\ \A t \in Threads : stanPc[t] # "idle" /\ t \notin overlapped => Inside = {t}
    /\ \A s \in clean : s <= counter
    /\ \A s \in clean, t \in Threads : /\ stanPc[t] = "store" => s <= loaded[t]
                                       /\ stanPc[t] = "format" => s < counter

\* Nothing but next_stan() touches the counter or draws a STAN.
LEMMA OneDraw ==
    ASSUME BaseInv, Next
    PROVE  \/ \E t \in Threads : NextStan(t) /\ \A u \in Threads : Draws(u) => u = t
           \/ UNCHANGED stanVars /\ \A t \in Threads : ~Draws(t)
<1>0. /\ pc \in [Threads -> Labels] /\ TypeOK /\ ControlInv
    BY DEF BaseInv, TypeOK, ClientTypeOK, Labels
<1>1. ASSUME NEW t \in Threads, DrawStep(t)
      PROVE  NextStan(t) /\ \A u \in Threads : Draws(u) => u = t
    <2>1. NextStan(t)  BY <1>1 DEF DrawStep
    <2>2. UNCHANGED pc \/ pc' = [pc EXCEPT ![t] = NextLabel(pc[t])]
        BY <1>0, <2>1, DrawSteps
    <2>3. \A u \in Threads : u # t => pc'[u] = pc[u]  BY <1>0, <2>2
    <2> QED  BY <2>1, <2>3 DEF Draws, DrawsStan
<1>2. ASSUME NEW c \in Callers, CallerStep(c)
      PROVE  UNCHANGED stanVars /\ \A t \in Threads : ~Draws(t)
    <2>1. ~DrawsStan(c) /\ UNCHANGED stanVars
        BY <1>2 DEF CallerStep, Register, Send, Answered, TimesOut, SendReversal, Pop, DrawsStan
    <2>2. \A u \in Threads : u # c => pc'[u] = pc[u]
        BY <1>0, <1>2, ThreadKinds
           DEF CallerStep, Register, Send, Answered, TimesOut, SendReversal, Pop, Leave, GoTo
    <2> QED  BY <2>1, <2>2 DEF Draws, DrawsStan
<1>3. CASE LinkStep /\ ~DrawStep(Link)
    <2>1. ~DrawsStan(Link) /\ UNCHANGED stanVars
        BY <1>3 DEF LinkStep, ClientStep, Dial, Announce, SignOn, StartHeart, ReceiveFails, Cleanup,
                    Receive, Deliver, DrawsStan
    <2>2. \A u \in Threads : u # Link => pc'[u] = pc[u] \/ pc[u] = "off"
        BY <1>0, <1>3, FreshHeartSleeps, ThreadKinds
           DEF LinkStep, ClientStep, Dial, Announce, SignOn, StartHeart, ReceiveFails, Cleanup,
               Receive, Deliver, GoTo
    <2> QED  BY <2>1, <2>2 DEF Draws, DrawsStan
<1>4. ASSUME NEW h \in Hearts, ClientStep(WakeUp(h)) \/ ClientStep(Echo(h))
      PROVE  UNCHANGED stanVars /\ \A t \in Threads : ~Draws(t)
    <2>1. /\ pc[h] \in {"asleep", "echo"} /\ UNCHANGED stanVars
          /\ \A u \in Threads : u # h => pc'[u] = pc[u]
        BY <1>0, <1>4, ThreadKinds DEF ClientStep, WakeUp, Echo, GoTo
    <2> QED  BY <2>1 DEF Draws, DrawsStan
<1>5. ClientStep(Drop) \/ (\E m \in toSwitch : ClientStep(SwitchHandles(m)))
          => UNCHANGED <<pc, stanVars>>
    BY DEF ClientStep, Drop, SwitchHandles
<1>6. UNCHANGED <<pc, stanVars>> => \A t \in Threads : ~Draws(t)  BY DEF Draws, DrawsStan
<1> QED
    BY <1>1, <1>2, <1>3, <1>4, <1>5, <1>6, ThreadKinds DEF Next

\* Until it comes round the counter goes up.
LEMMA CounterGoesUp ==
    ASSUME NEW n \in Stans
    PROVE  (n + 1) % StanLimit = IF n + 1 = StanLimit THEN 0 ELSE n + 1
BY ClientAssumption DEF Stans

LEMMA CleanStep ==
    ASSUME TypeOK, ControlInv, CleanInv, NEW t \in Threads, NextStan(t)
    PROVE  /\ CleanInv'
           /\ Draws(t) => drawn'[t] \notin clean \ {0}
<1>0. /\ counter \in Stans /\ loaded \in [Threads -> Stans] /\ drawn \in [Threads -> Stans]
      /\ stanPc \in [Threads -> {"idle", "store", "format"}]
      /\ clean \subseteq Stans /\ Stans \subseteq Nat
    BY DEF TypeOK, ClientTypeOK, Stans
<1> DEFINE Apart(u) == stanPc'[u] # "idle" /\ u \notin overlapped' => Inside' = {u}
           Passed(s) == s <= counter'
           Behind(s, u) == /\ stanPc'[u] = "store" => s <= loaded'[u]
                           /\ stanPc'[u] = "format" => s < counter'
<1>a. ASSUME \A u \in Threads : Apart(u), \A s \in clean' : Passed(s),
             \A s \in clean', u \in Threads : Behind(s, u)
      PROVE  CleanInv'
    BY <1>a DEF CleanInv
<1>1. CASE LoadCounter(t)
    <2>1. /\ UNCHANGED <<counter, drawn, clean, pc>> /\ stanPc[t] = "idle"
          /\ loaded'[t] = counter /\ stanPc'[t] = "store"
          /\ \A u \in Threads : u # t => stanPc'[u] = stanPc[u] /\ loaded'[u] = loaded[u]
        BY <1>0, <1>1 DEF LoadCounter
    <2>2. Inside' = Inside \cup {t}  BY <2>1 DEF Inside
    <2>3. overlapped' = IF Inside = {} THEN overlapped ELSE overlapped \cup Inside \cup {t}
        BY <1>1 DEF LoadCounter
    <2>4. ASSUME NEW u \in Threads  PROVE Apart(u)
        <3>1. CASE Inside = {}
            <4>1. stanPc[u] = "idle"  BY <3>1 DEF Inside
            <4> QED  BY <2>1, <2>2, <3>1, <4>1
        <3>2. CASE Inside # {}
            <4>1. stanPc'[u] # "idle" => u \in overlapped'  BY <2>1, <2>3, <3>2 DEF Inside
            <4> QED  BY <4>1
        <3> QED  BY <3>1, <3>2
    <2>5. \A s \in clean' : Passed(s)  BY <2>1 DEF CleanInv
    <2>6. \A s \in clean', u \in Threads : Behind(s, u)  BY <2>1 DEF CleanInv
    <2>7. ~Draws(t)  BY <2>1 DEF Draws, DrawsStan
    <2> QED  BY <1>a, <2>4, <2>5, <2>6, <2>7
<1>2. CASE StoreCounter(t)
    <2>1. /\ UNCHANGED <<drawn, overlapped, pc>>
          /\ stanPc[t] = "store" /\ stanPc'[t] = "format"
          /\ \A u \in Threads : u # t => stanPc'[u] = stanPc[u] /\ loaded'[u] = loaded[u]
          /\ loaded[t] \in Stans
        BY <1>0, <1>2 DEF StoreCounter
    <2>2. Inside' = Inside  BY <2>1 DEF Inside
    <2>3. \A u \in Threads : Apart(u)  BY <2>1, <2>2 DEF CleanInv
    <2>4. ~Draws(t)  BY <2>1 DEF Draws, DrawsStan
    <2>5. CASE loaded[t] + 1 = StanLimit
        <3>1. clean' = {}  BY <1>2, <2>5 DEF StoreCounter
        <3> QED  BY <1>a, <2>3, <2>4, <3>1
    <2>6. CASE loaded[t] + 1 # StanLimit
        <3>1. clean' = clean  BY <1>2, <2>6 DEF StoreCounter
        <3>2. counter' = loaded[t] + 1  BY <1>2, <2>1, <2>6, CounterGoesUp DEF StoreCounter
        <3>3. \A s \in clean : s <= loaded[t]  BY <2>1 DEF CleanInv
        <3>4. \A n \in Nat : n + 1 \in Nat /\ \A s \in Nat : s <= n => s < n + 1 /\ s <= n + 1
            OBVIOUS
        <3>5. counter' \in Nat /\ \A s \in clean : s < counter' /\ s <= counter'
            <4>1. loaded[t] \in Nat /\ clean \subseteq Nat  BY <1>0, <2>1
            <4> HIDE <1>0, <2>1
            <4> QED  BY <3>2, <3>3, <3>4, <4>1
        <3>6. \A s \in clean' : Passed(s)  BY <3>1, <3>5
        <3>7. \A s \in clean', u \in Threads : Behind(s, u)
            BY <2>1, <3>1, <3>5 DEF CleanInv
        <3> QED  BY <1>a, <2>3, <2>4, <3>6, <3>7
    <2> QED  BY <2>5, <2>6
<1>3. CASE FormatCounter(t)
    <2>1. /\ UNCHANGED <<counter, loaded>>
          /\ stanPc[t] = "format" /\ stanPc'[t] = "idle" /\ drawn'[t] = counter
          /\ overlapped' = overlapped \ {t}
          /\ \A u \in Threads : u # t => stanPc'[u] = stanPc[u]
        BY <1>0, <1>3 DEF FormatCounter
    <2>2. Inside' = Inside \ {t} /\ t \in Inside  BY <2>1 DEF Inside
    <2>3. counter \notin clean  BY <1>0, <2>1 DEF CleanInv
    <2>4. \A u \in Threads : Apart(u)  BY <2>1, <2>2 DEF CleanInv
    <2>5. CASE t \in overlapped
        <3>1. clean' = clean  BY <1>3, <2>5 DEF FormatCounter
        <3>2. \A s \in clean' : Passed(s)  BY <2>1, <3>1 DEF CleanInv
        <3>3. \A s \in clean', u \in Threads : Behind(s, u)  BY <2>1, <3>1 DEF CleanInv
        <3> QED  BY <1>a, <2>1, <2>3, <2>4, <3>2, <3>3
    <2>6. CASE t \notin overlapped
        <3>1. clean' = clean \cup {counter}  BY <1>3, <2>6 DEF FormatCounter
        <3>2. Inside' = {}  BY <2>1, <2>2, <2>6 DEF CleanInv
        <3>3. \A u \in Threads : stanPc'[u] = "idle"  BY <3>2 DEF Inside
        <3>4. \A s \in clean' : Passed(s)  BY <1>0, <2>1, <3>1 DEF CleanInv
        <3>5. \A s \in clean', u \in Threads : Behind(s, u)  BY <3>3
        <3> QED  BY <1>a, <2>1, <2>3, <2>4, <3>4, <3>5
    <2> QED  BY <2>5, <2>6
<1>4. CASE Uninterrupted(t)
    <2>1. /\ UNCHANGED <<stanPc, loaded>> /\ overlapped' = Inside
          /\ counter' = (counter + 1) % StanLimit /\ drawn'[t] = counter'
          /\ clean' = (IF counter + 1 = StanLimit THEN {} ELSE clean)
                          \cup (IF Inside = {} THEN {counter'} ELSE {})
        BY <1>0, <1>4 DEF Uninterrupted
    <2>2. \A u \in Threads : Apart(u)  BY <2>1 DEF Inside
    <2>3. CASE counter + 1 = StanLimit
        <3>1. counter' = 0  BY <1>0, <2>1, <2>3, CounterGoesUp
        <3>2. clean' \subseteq {counter'} /\ (Inside # {} => clean' = {})  BY <2>1, <2>3
        <3>3. \A s \in clean' : Passed(s)  BY <3>1, <3>2
        <3>4. \A s \in clean', u \in Threads : Behind(s, u)  BY <2>1, <3>2 DEF Inside
        <3> QED  BY <1>a, <2>1, <2>2, <3>1, <3>3, <3>4
    <2>4. CASE counter + 1 # StanLimit
        <3>1. counter' = counter + 1  BY <1>0, <2>1, <2>4, CounterGoesUp
        <3>2. \A s \in clean : s < counter'  BY <1>0, <3>1 DEF CleanInv
        <3>3. counter' \in Nat  BY <1>0, <3>1
        <3>4. clean' \subseteq clean \cup {counter'} /\ (Inside # {} => clean' = clean)
            BY <2>1, <2>4
        <3>5. \A s \in clean' : Passed(s)  BY <1>0, <3>2, <3>3, <3>4
        <3>6. ASSUME NEW s \in clean', NEW u \in Threads  PROVE Behind(s, u)
            <4>1. CASE Inside = {}  BY <2>1, <4>1 DEF Inside
            <4>2. CASE Inside # {}  BY <2>1, <3>2, <3>4, <4>2 DEF CleanInv
            <4> QED  BY <4>1, <4>2
        <3>7. counter' \notin clean  BY <1>0, <3>2, <3>3
        <3> QED  BY <1>a, <2>1, <2>2, <3>5, <3>6, <3>7
    <2> QED  BY <2>3, <2>4
<1> QED  BY <1>1, <1>2, <1>3, <1>4 DEF NextStan

\* A STAN that a thread drew while no other was inside next_stan() is not drawn again
\* before the counter comes round, whatever races come before and after: for any
\* number of threads that interrupt each other between the three steps.
THEOREM UndisturbedHolds == Spec => UndisturbedIsUnique
<1> DEFINE Fresh == \A t \in Threads : Draws(t) => drawn'[t] \notin clean \ {0}
<1>1. Init => CleanInv
    BY DEF Init, ClientInit, CleanInv
<1>2. BaseInv /\ CleanInv /\ [Next]_vars => CleanInv' /\ [Fresh]_vars
    <2> SUFFICES ASSUME BaseInv, CleanInv, [Next]_vars PROVE CleanInv' /\ [Fresh]_vars
        OBVIOUS
    <2>1. UNCHANGED stanVars => CleanInv'
        BY DEF stanVars, CleanInv, Inside
    <2>2. CASE UNCHANGED vars
        BY <2>1, <2>2 DEF vars, clientVars
    <2>3. CASE Next
        <3>1. TypeOK /\ ControlInv  BY DEF BaseInv
        <3>2. CASE UNCHANGED stanVars /\ \A t \in Threads : ~Draws(t)
            BY <2>1, <3>2
        <3>3. ASSUME NEW t \in Threads, NextStan(t), \A u \in Threads : Draws(u) => u = t
              PROVE  CleanInv' /\ Fresh
            BY <3>1, <3>3, CleanStep
        <3> QED  BY <2>3, <3>2, <3>3, OneDraw
    <2> QED  BY <2>2, <2>3
<1>3. [][Fresh]_vars => UndisturbedIsUnique  BY DEF UndisturbedIsUnique
<1> HIDE DEF Fresh
<1> QED  BY <1>1, <1>2, <1>3, BaseHolds, PTL DEF Spec
=============================================================================
