---------------------------- MODULE HsmKeysProofs ---------------------------
(***************************************************************************)
(* For any number of starts, payments and master keys: HsmKeys is type     *)
(* correct and, as long as one process runs at a time, what was encrypted  *)
(* under the persisted key opens after every restart, and a start fails    *)
(* only for a torn file or another master key.  Neither is inductive: both *)
(* rest on what the key file holds at each step of a start, and on the     *)
(* fact that a written file is never written again.  That two blocks of    *)
(* one process differ in their key, unless a race drew one, follows from   *)
(* the numbers in use and needs neither fact.                              *)
(***************************************************************************)
EXTENDS HsmKeys, TLAPS

-----------------------------------------------------------------------------
(* The inductive invariant *)

Alive(p) == phase[p] \notin Over

\* replicas: 1 and strategy Recreate.
OneProcess == \A p, q \in Processes : Alive(p) /\ Alive(q) => p = q

\* What the file holds at each step of a start.
StartInv ==
    \A p \in Processes :
        /\ phase[p] \in {"opening", "writing", "reading", "looking"} => master[p] # NoMaster
        /\ phase[p] \in {"opening", "writing", "up"} => base[p] \in Processes
        /\ phase[p] = "opening" => file = Absent
        /\ phase[p] = "writing" => file = Empty
        /\ phase[p] = "reading" => file # Absent

\* A process that is up with a master key has the key of the file.
UpInv ==
    \A p \in Processes :
        phase[p] = "up" /\ master[p] # NoMaster => file = Wrapped(master[p], base[p])

\* Where an empty file and a written one come from.
FileInv ==
    /\ file = Empty => \E q \in Processes : phase[q] \in {"torn", "writing"}
    /\ file \in Envelopes => \E q \in Processes : master[q] = file.master

Active == {"store", "format", "encrypt"}

\* A request is served by a process that is up.
ServedInv == \A r \in Requests : pc[r] \in Active => phase[host[r]] = "up"

\* A block that was encrypted with a master key set is under the file's key.
BlockInv ==
    \A r \in Requests :
        pc[r] = "done" /\ master[host[r]] # NoMaster =>
            \E k \in Processes :
                file = Wrapped(master[host[r]], k) /\ block[r] = <<k, ksn[r]>>

KeyInv == OneProcess /\ StartInv /\ UpInv /\ FileInv /\ ServedInv /\ BlockInv

IInv == TypeOK /\ KeyInv /\ StartsUnlessTorn

-----------------------------------------------------------------------------
(* Types *)

LEMMA InitIsTyped == Init => TypeOK
BY NullsAssumption DEF Init, TypeOK, Phases, Over, Places

\* A step of a process keeps every type; the key it writes is one that was
\* generated, under a master key that is set.
LEMMA ProcessStepIsTyped ==
    ASSUME TypeOK, StartInv, NEW p \in Processes, ProcessStep(p)
    PROVE  TypeOK'
<1> USE DEF TypeOK, Phases, Over, GoTo, requestVars
<1>1. CASE Start(p)
  BY <1>1 DEF Start
<1>2. CASE StartEphemeral(p)
  BY <1>2 DEF StartEphemeral
<1>3. CASE LookForKey(p)
  BY <1>3 DEF LookForKey
<1>4. CASE OpenKeyFile(p)
  BY <1>4 DEF OpenKeyFile
<1>5. CASE WriteKey(p)
  <2>1. master[p] \in Masters /\ base[p] \in Processes
    BY <1>5 DEF WriteKey, StartInv
  <2>2. Wrapped(master[p], base[p]) \in Envelopes
    BY <2>1 DEF Wrapped, Envelopes
  <2> QED BY <1>5, <2>2 DEF WriteKey
<1>6. CASE ReadKey(p)
  BY <1>6 DEF ReadKey, Unwraps, Envelopes
<1>7. CASE Die(p)
  BY <1>7 DEF Die, Places
<1> QED BY <1>1, <1>2, <1>3, <1>4, <1>5, <1>6, <1>7 DEF ProcessStep

\* A step of a request keeps every type.
LEMMA RequestStepIsTyped ==
    ASSUME TypeOK, StartInv, ServedInv, NEW r \in Requests, RequestStep(r)
    PROVE  TypeOK'
<1> USE DEF TypeOK, Places, At, processVars
<1>1. ASSUME NEW p \in Processes, LoadCounter(r, p)
      PROVE  TypeOK'
  BY <1>1 DEF LoadCounter, Drawing
<1>2. CASE StoreCounter(r)
  BY <1>2 DEF StoreCounter
<1>3. CASE FormatKsn(r)
  BY <1>3 DEF FormatKsn
<1>4. CASE Encrypt(r)
  <2>1. base[host[r]] \in Processes
    BY <1>4 DEF Encrypt, StartInv, ServedInv, Active
  <2>2. <<base[host[r]], ksn[r]>> \in Processes \X Nat
    BY <2>1
  <2> QED BY <1>4, <2>2 DEF Encrypt
<1>5. CASE PinRefused(r)
  BY <1>5 DEF PinRefused
<1> QED BY <1>1, <1>2, <1>3, <1>4, <1>5 DEF RequestStep

-----------------------------------------------------------------------------
(* A start, step by step *)

\* While p takes a step of its start, or dies, no other process is alive.
LEMMA NobodyElse ==
    ASSUME OneAtATime, TypeOK, OneProcess, NEW p \in Processes, ProcessStep(p)
    PROVE  \A q \in Processes \ {p} : phase'[q] = phase[q] /\ phase[q] \in Over
<1>1. phase'= [phase EXCEPT ![p] = phase'[p]]
  BY DEF ProcessStep, Start, StartEphemeral, LookForKey, OpenKeyFile, WriteKey,
         ReadKey, Die, GoTo, TypeOK
<1>2. CASE Start(p) \/ StartEphemeral(p)
  BY <1>1, <1>2 DEF Start, StartEphemeral, Alone, TypeOK
<1>3. CASE ~(Start(p) \/ StartEphemeral(p))
  <2>1. Alive(p)
    BY <1>3 DEF ProcessStep, LookForKey, OpenKeyFile, WriteKey, ReadKey, Die, Alive, Over
  <2> QED BY <1>1, <2>1 DEF OneProcess, Alive, TypeOK
<1> QED BY <1>2, <1>3

\* A key file that was written whole is never written again.
LEMMA WrittenStays ==
    ASSUME StartInv, NEW p \in Processes, ProcessStep(p), file \in Envelopes
    PROVE  file' = file
<1>1. file # Absent /\ file # Empty
  BY NullsAssumption
<1>2. phase[p] \notin {"opening", "writing"}
  BY <1>1 DEF StartInv
<1> QED BY <1>2 DEF ProcessStep, Start, StartEphemeral, LookForKey, OpenKeyFile, WriteKey, ReadKey, Die

LEMMA OneProcessPreserved ==
    ASSUME OneAtATime, TypeOK, OneProcess, NEW p \in Processes, ProcessStep(p)
    PROVE  OneProcess'
BY NobodyElse DEF OneProcess, Alive

\* What the file holds at the next step of the start.
LEMMA StartPreserved ==
    ASSUME OneAtATime, TypeOK, OneProcess, StartInv, NEW p \in Processes, ProcessStep(p)
    PROVE  StartInv'
<1> DEFINE StartAt(q) ==
             /\ phase[q] \in {"opening", "writing", "reading", "looking"} => master[q] # NoMaster
             /\ phase[q] \in {"opening", "writing", "up"} => base[q] \in Processes
             /\ phase[q] = "opening" => file = Absent
             /\ phase[q] = "writing" => file = Empty
             /\ phase[q] = "reading" => file # Absent
<1>1. \A q \in Processes \ {p} : StartAt(q)'
  BY NobodyElse DEF Over
<1>2. StartAt(p)'
  <2> USE DEF TypeOK, StartInv, GoTo
  <2>1. CASE Start(p)
    BY <2>1 DEF Start
  <2>2. CASE StartEphemeral(p)
    BY <2>2 DEF StartEphemeral
  <2>3. CASE LookForKey(p)
    BY <2>3 DEF LookForKey
  <2>4. CASE OpenKeyFile(p)
    BY <2>4 DEF OpenKeyFile
  <2>5. CASE WriteKey(p)
    BY <2>5 DEF WriteKey
  <2>6. CASE ReadKey(p)
    BY <2>6 DEF ReadKey, Unwraps, Envelopes
  <2>7. CASE Die(p)
    BY <2>7 DEF Die
  <2> QED BY <2>1, <2>2, <2>3, <2>4, <2>5, <2>6, <2>7 DEF ProcessStep
<1> QED BY <1>1, <1>2 DEF StartInv

\* A process comes up with the key it wrote to the file or found in it.
LEMMA UpPreserved ==
    ASSUME OneAtATime, TypeOK, OneProcess, StartInv, UpInv,
           NEW p \in Processes, ProcessStep(p)
    PROVE  UpInv'
<1> DEFINE UpAt(q) == phase[q] = "up" /\ master[q] # NoMaster => file = Wrapped(master[q], base[q])
<1>1. \A q \in Processes \ {p} : UpAt(q)'
  BY NobodyElse DEF Over
<1>2. UpAt(p)'
  <2> USE DEF TypeOK, GoTo
  <2>1. CASE Start(p)
    BY <2>1 DEF Start
  <2>2. CASE StartEphemeral(p)
    BY <2>2 DEF StartEphemeral
  <2>3. CASE LookForKey(p)
    BY <2>3 DEF LookForKey
  <2>4. CASE OpenKeyFile(p)
    BY <2>4 DEF OpenKeyFile
  <2>5. CASE WriteKey(p)
    BY <2>5 DEF WriteKey
  <2>6. CASE ReadKey(p)
    BY <2>6 DEF ReadKey, Unwraps, Envelopes, Wrapped
  <2>7. CASE Die(p)
    BY <2>7 DEF Die
  <2> QED BY <2>1, <2>2, <2>3, <2>4, <2>5, <2>6, <2>7 DEF ProcessStep
<1> QED BY <1>1, <1>2 DEF UpInv

\* An empty file was left by a process that died over it, or is being written.
LEMMA FilePreserved ==
    ASSUME OneAtATime, TypeOK, OneProcess, StartInv, FileInv,
           NEW p \in Processes, ProcessStep(p)
    PROVE  FileInv'
<1>1. \A q \in Processes : phase[q] = "torn" => phase'[q] = "torn"
  <2>1. phase[p] # "torn"
    BY DEF ProcessStep, Start, StartEphemeral, LookForKey, OpenKeyFile, WriteKey, ReadKey, Die, Over
  <2> QED BY <2>1, NobodyElse
<1>2. master' = master
  BY DEF ProcessStep, Start, StartEphemeral, LookForKey, OpenKeyFile, WriteKey, ReadKey, Die
<1>3. CASE OpenKeyFile(p)
  BY <1>3, NullsAssumption DEF OpenKeyFile, GoTo, TypeOK, FileInv
<1>4. CASE WriteKey(p)
  <2>1. file' = Wrapped(master[p], base[p]) /\ master[p] \in Masters /\ base[p] \in Processes
    BY <1>4 DEF WriteKey, StartInv, TypeOK
  <2>2. file' \in Envelopes /\ file'.master = master[p]
    BY <2>1 DEF Wrapped, Envelopes
  <2> QED BY <1>2, <2>2, NullsAssumption DEF FileInv
<1>5. CASE Die(p)
  <2>1. phase[p] = "writing" => phase'[p] = "torn"
    BY <1>5 DEF Die, GoTo, TypeOK
  <2>2. file' = file
    BY <1>5 DEF Die
  <2>3. \A q \in Processes : phase[q] \in {"torn", "writing"} => phase'[q] \in {"torn", "writing"}
    BY <1>1, <2>1, NobodyElse
  <2> QED BY <1>2, <2>2, <2>3 DEF FileInv
<1>6. CASE ~(OpenKeyFile(p) \/ WriteKey(p) \/ Die(p))
  <2>1. file' = file /\ phase[p] # "writing"
    BY <1>6 DEF ProcessStep, Start, StartEphemeral, LookForKey, ReadKey
  <2>2. \A q \in Processes : phase[q] \in {"torn", "writing"} => phase'[q] \in {"torn", "writing"}
    BY <1>1, <2>1, NobodyElse
  <2> QED BY <1>2, <2>1, <2>2 DEF FileInv
<1> QED BY <1>3, <1>4, <1>5, <1>6

\* A process that stops being up takes its requests with it.
LEMMA ServedPreserved ==
    ASSUME OneAtATime, TypeOK, OneProcess, ServedInv, NEW p \in Processes, ProcessStep(p)
    PROVE  ServedInv'
<1> SUFFICES ASSUME NEW r \in Requests, pc'[r] \in Active
             PROVE  phase'[host'[r]] = "up"
  BY DEF ServedInv
<1>1. host' = host /\ pc[r] \in Active /\ pc'[r] = pc[r]
  BY DEF ProcessStep, Start, StartEphemeral, LookForKey, OpenKeyFile, WriteKey,
         ReadKey, Die, requestVars, TypeOK, Active
<1>2. phase[host[r]] = "up" /\ host[r] \in Processes
  BY <1>1 DEF ServedInv, TypeOK
<1>3. host[r] = p
  BY <1>2, NobodyElse DEF Over
<1>4. Die(p)
  BY <1>2, <1>3 DEF ProcessStep, Start, StartEphemeral, LookForKey, OpenKeyFile, WriteKey, ReadKey
<1>5. pc'[r] = "lost"
  BY <1>1, <1>3, <1>4 DEF Die, TypeOK, Active
<1> QED BY <1>5 DEF Active

\* No start changes the key of the blocks that are there.
LEMMA BlocksKeepTheirKey ==
    ASSUME TypeOK, StartInv, BlockInv, NEW p \in Processes, ProcessStep(p)
    PROVE  BlockInv'
<1> SUFFICES ASSUME NEW r \in Requests, pc'[r] = "done", master'[host'[r]] # NoMaster
             PROVE  \E k \in Processes :
                        file' = Wrapped(master'[host'[r]], k) /\ block'[r] = <<k, ksn'[r]>>
  BY DEF BlockInv
<1>1. UNCHANGED <<host, block, ksn, master>> /\ pc[r] = "done"
  BY DEF ProcessStep, Start, StartEphemeral, LookForKey, OpenKeyFile, WriteKey,
         ReadKey, Die, requestVars, TypeOK
<1>2. PICK k \in Processes : file = Wrapped(master[host[r]], k) /\ block[r] = <<k, ksn[r]>>
  BY <1>1 DEF BlockInv
<1>3. master[host[r]] \in Masters
  BY <1>1 DEF TypeOK
<1>4. file \in Envelopes
  BY <1>2, <1>3 DEF Wrapped, Envelopes
<1>5. file' = file
  BY <1>4, WrittenStays
<1> QED BY <1>1, <1>2, <1>5

-----------------------------------------------------------------------------
(* Requests, failed starts *)

\* A request that draws or encrypts is at a process that is up, before and
\* after.
LEMMA RequestsAreServed ==
    ASSUME TypeOK, ServedInv, NEW r \in Requests, RequestStep(r)
    PROVE  ServedInv'
<1> USE DEF TypeOK, ServedInv, Active, At, processVars
<1>1. ASSUME NEW p \in Processes, LoadCounter(r, p)
      PROVE  ServedInv'
  BY <1>1 DEF LoadCounter
<1>2. CASE StoreCounter(r)
  BY <1>2 DEF StoreCounter
<1>3. CASE FormatKsn(r)
  BY <1>3 DEF FormatKsn
<1>4. CASE Encrypt(r)
  BY <1>4 DEF Encrypt
<1>5. CASE PinRefused(r)
  BY <1>5 DEF PinRefused
<1> QED BY <1>1, <1>2, <1>3, <1>4, <1>5 DEF RequestStep

\* A block is encrypted under the key the process shares with the file.
LEMMA BlocksGetTheFilesKey ==
    ASSUME TypeOK, StartInv, UpInv, ServedInv, BlockInv, NEW r \in Requests, RequestStep(r)
    PROVE  BlockInv'
<1> SUFFICES ASSUME NEW s \in Requests, pc'[s] = "done", master'[host'[s]] # NoMaster
             PROVE  \E k \in Processes :
                        file' = Wrapped(master'[host'[s]], k) /\ block'[s] = <<k, ksn'[s]>>
  BY DEF BlockInv
<1>1. UNCHANGED <<file, phase, master, base>>
  BY DEF RequestStep, LoadCounter, StoreCounter, FormatKsn, Encrypt, PinRefused, processVars
<1>2. CASE s = r
  <2>1. Encrypt(r)
    BY <1>2 DEF RequestStep, LoadCounter, StoreCounter, FormatKsn, PinRefused, At, TypeOK
  <2>2. host' = host /\ ksn' = ksn /\ block'[r] = <<base[host[r]], ksn[r]>>
    BY <2>1 DEF Encrypt, TypeOK
  <2>3. phase[host[r]] = "up" /\ host[r] \in Processes
    BY <2>1 DEF Encrypt, ServedInv, Active, TypeOK
  <2>4. base[host[r]] \in Processes /\ file = Wrapped(master[host[r]], base[host[r]])
    BY <1>1, <1>2, <2>2, <2>3 DEF StartInv, UpInv
  <2> QED BY <1>1, <1>2, <2>2, <2>4
<1>3. CASE s # r
  <2>1. pc'[s] = pc[s] /\ host'[s] = host[s] /\ ksn'[s] = ksn[s] /\ block'[s] = block[s]
    BY <1>3 DEF RequestStep, LoadCounter, StoreCounter, FormatKsn, Encrypt, PinRefused, At, TypeOK
  <2> QED BY <1>1, <2>1 DEF BlockInv
<1> QED BY <1>2, <1>3

\* The only start that fails is one that does not unwrap the file.
LEMMA FailuresAreExplained ==
    ASSUME OneAtATime, TypeOK, OneProcess, StartInv, FileInv, StartsUnlessTorn,
           NEW p \in Processes, ProcessStep(p)
    PROVE  StartsUnlessTorn'
<1> SUFFICES ASSUME NEW f \in Processes, phase'[f] = "failed"
             PROVE  \E q \in Processes :
                        phase'[q] = "torn" \/ master'[q] \notin {master'[f], NoMaster}
  BY DEF StartsUnlessTorn
<1>1. master' = master
  BY DEF ProcessStep, Start, StartEphemeral, LookForKey, OpenKeyFile, WriteKey, ReadKey, Die
<1>2. \A q \in Processes : phase[q] = "torn" => phase'[q] = "torn"
  <2>1. phase[p] # "torn"
    BY DEF ProcessStep, Start, StartEphemeral, LookForKey, OpenKeyFile, WriteKey, ReadKey, Die, Over
  <2> QED BY <2>1, NobodyElse
<1>3. CASE phase[f] = "failed"
  BY <1>1, <1>2, <1>3 DEF StartsUnlessTorn
<1>4. CASE phase[f] # "failed"
  <2>1. f = p
    BY <1>4, NobodyElse
  <2>2. ReadKey(p) /\ ~Unwraps(p)
    BY <1>4, <2>1 DEF ProcessStep, Start, StartEphemeral, LookForKey, OpenKeyFile,
       WriteKey, ReadKey, Die, GoTo, TypeOK
  <2>3. phase[p] = "reading" /\ file # Absent
    BY <2>2 DEF ReadKey, StartInv
  <2>4. CASE file = Empty
    <3>1. PICK q \in Processes : phase[q] \in {"torn", "writing"}
      BY <2>4 DEF FileInv
    <3>2. phase[q] = "torn"
      BY <2>3, <3>1 DEF OneProcess, Alive, Over
    <3> QED BY <1>2, <3>2
  <2>5. CASE file \in Envelopes
    <3>1. PICK q \in Processes : master[q] = file.master
      BY <2>5 DEF FileInv
    <3>2. file.master \in Masters /\ file.master # master[p]
      BY <2>2, <2>5 DEF Unwraps, Envelopes
    <3> QED BY <1>1, <2>1, <3>1, <3>2, NullsAssumption
  <2> QED BY <2>3, <2>4, <2>5 DEF TypeOK
<1> QED BY <1>3, <1>4

-----------------------------------------------------------------------------
(* The invariant holds *)

LEMMA InitEstablishesIInv == Init => IInv
<1> SUFFICES ASSUME Init PROVE IInv
  OBVIOUS
<1>1. TypeOK
  BY InitIsTyped
<1>2. OneProcess /\ StartInv /\ UpInv /\ StartsUnlessTorn
  BY DEF Init, OneProcess, Alive, Over, StartInv, UpInv, StartsUnlessTorn
<1>3. FileInv
  BY NullsAssumption DEF Init, FileInv
<1>4. ServedInv /\ BlockInv
  BY DEF Init, ServedInv, BlockInv, Active
<1> QED BY <1>1, <1>2, <1>3, <1>4 DEF IInv, KeyInv

LEMMA StepPreservesIInv ==
    ASSUME OneAtATime, IInv, [Next]_vars
    PROVE  IInv'
<1> USE DEF IInv, KeyInv
<1>1. ASSUME NEW p \in Processes, ProcessStep(p)
      PROVE  IInv'
  BY <1>1, ProcessStepIsTyped, OneProcessPreserved, StartPreserved, UpPreserved,
     FilePreserved, ServedPreserved, BlocksKeepTheirKey, FailuresAreExplained
<1>2. ASSUME NEW r \in Requests, RequestStep(r)
      PROVE  IInv'
  <2>1. UNCHANGED processVars
    BY <1>2 DEF RequestStep, LoadCounter, StoreCounter, FormatKsn, Encrypt, PinRefused
  <2>2. OneProcess' /\ StartInv' /\ UpInv' /\ FileInv' /\ StartsUnlessTorn'
    BY <2>1 DEF processVars, OneProcess, Alive, StartInv, UpInv, FileInv, StartsUnlessTorn
  <2> QED BY <1>2, <2>2, RequestStepIsTyped, RequestsAreServed, BlocksGetTheFilesKey
<1>3. CASE UNCHANGED vars
  BY <1>3 DEF vars, processVars, requestVars, TypeOK, OneProcess, Alive, StartInv, UpInv,
     FileInv, ServedInv, BlockInv, StartsUnlessTorn
<1> QED BY <1>1, <1>2, <1>3 DEF Next

LEMMA Invariance ==
    ASSUME OneAtATime
    PROVE  Spec => []IInv
<1>1. IInv /\ [Next]_vars => IInv'
  BY OneAtATime, StepPreservesIInv
<1> QED BY InitEstablishesIInv, <1>1, PTL DEF Spec

\* "survives restarts": with one process at a time, any process that is up
\* under the master key of a block opens it, for every number of processes,
\* payments and master keys and deaths at every step of a start.
THEOREM EveryBlockSurvives ==
    ASSUME OneAtATime
    PROVE  Spec => []BlocksSurvive
<1>1. IInv => BlocksSurvive
  <2> SUFFICES ASSUME IInv, NEW r \in Requests, NEW p \in Processes,
                      pc[r] = "done", phase[p] = "up",
                      master[p] = master[host[r]], master[p] # NoMaster
               PROVE  block[r] = <<base[p], ksn[r]>>
    BY DEF BlocksSurvive
  <2>1. PICK k \in Processes :
            file = Wrapped(master[host[r]], k) /\ block[r] = <<k, ksn[r]>>
    BY DEF IInv, KeyInv, BlockInv
  <2>2. file = Wrapped(master[p], base[p])
    BY DEF IInv, KeyInv, UpInv
  <2>3. k = base[p]
    BY <2>1, <2>2 DEF Wrapped
  <2> QED BY <2>1, <2>3
<1> QED BY Invariance, OneAtATime, <1>1, PTL

\* With one process at a time a start of mock_hsm.py fails only at a file a
\* dying process left empty, or under a master key that was changed.
THEOREM EveryFailureIsExplained ==
    ASSUME OneAtATime
    PROVE  Spec => []StartsUnlessTorn
<1>1. IInv => StartsUnlessTorn
  BY DEF IInv
<1> QED BY Invariance, OneAtATime, <1>1, PTL

-----------------------------------------------------------------------------
(* Each transaction gets its own key.  "+=" and the return statement leave  *)
(* room for another thread.  What keeps the numbers apart that were drawn   *)
(* undisturbed is that nobody had read the counter before such a number was *)
(* taken and stores it afterwards: no later draw starts from below.         *)

\* What the argument needs of the types; a block's key is of no interest to it.
RequestTypes ==
    /\ counter \in [Processes -> Nat] /\ loaded \in [Requests -> Nat] /\ ksn \in [Requests -> Nat]
    /\ pc \in [Requests -> Places] /\ host \in [Requests -> Processes]
    /\ block = [r \in Requests |-> block[r]]

\* The requests of a process that have their number.
Numbered(p) == {r \in Requests : host[r] = p /\ pc[r] \in {"encrypt", "done"}}

\* ... and drew it while no other request was drawing.
Undisturbed(p) == Numbered(p) \ overlapped

CounterInv(p) ==
    /\ \A r \in Drawing(p) \ overlapped : Drawing(p) = {r}
    /\ \A s \in Undisturbed(p) : ksn[s] <= counter[p]
    /\ \A r \in Drawing(p), s \in Undisturbed(p) :
          /\ pc[r] = "store" => ksn[s] <= loaded[r]
          /\ pc[r] = "format" => ksn[s] < counter[p]
    /\ \A r, s \in Undisturbed(p) : ksn[r] = ksn[s] => r = s

NumberInv ==
    /\ RequestTypes
    /\ \A p \in Processes : CounterInv(p)
    /\ \A r \in Requests : pc[r] = "done" => \E k : block[r] = <<k, ksn[r]>>

\* What a step of r does to the requests of its process, and to nothing else.
LEMMA RequestTypesPreserved ==
    ASSUME RequestTypes, NEW r \in Requests, RequestStep(r)
    PROVE  /\ RequestTypes'
           /\ \A s \in Requests : s # r =>
                 pc'[s] = pc[s] /\ host'[s] = host[s] /\ loaded'[s] = loaded[s]
                 /\ ksn'[s] = ksn[s] /\ block'[s] = block[s]
<1> USE DEF RequestTypes, At, Places
<1>1. ASSUME NEW p \in Processes, LoadCounter(r, p)
      PROVE  /\ RequestTypes'
             /\ \A s \in Requests : s # r =>
                   pc'[s] = pc[s] /\ host'[s] = host[s] /\ loaded'[s] = loaded[s]
                   /\ ksn'[s] = ksn[s] /\ block'[s] = block[s]
  BY <1>1 DEF LoadCounter
<1>2. CASE StoreCounter(r)
  BY <1>2 DEF StoreCounter
<1>3. CASE FormatKsn(r)
  BY <1>3 DEF FormatKsn
<1>4. CASE Encrypt(r)
  BY <1>4 DEF Encrypt
<1>5. CASE PinRefused(r)
  BY <1>5 DEF PinRefused
<1> QED BY <1>1, <1>2, <1>3, <1>4, <1>5 DEF RequestStep

\* A race stays on record.
LEMMA RacesStay ==
    ASSUME NEW r \in Requests, RequestStep(r)
    PROVE  overlapped \subseteq overlapped'
BY DEF RequestStep, LoadCounter, StoreCounter, FormatKsn, Encrypt, PinRefused

\* Processes other than the one that serves r do not notice.
LEMMA OtherCounters ==
    ASSUME RequestTypes, NEW r \in Requests, NEW q \in Processes, CounterInv(q),
           RequestStep(r), r \notin Drawing(q) \cup Numbered(q),
           r \notin Drawing(q)' \cup Numbered(q)', counter'[q] = counter[q]
    PROVE  CounterInv(q)'
<1>1. \A s \in Requests : s # r =>
          pc'[s] = pc[s] /\ host'[s] = host[s] /\ loaded'[s] = loaded[s] /\ ksn'[s] = ksn[s]
  BY RequestTypesPreserved
<1>2. Drawing(q)' = Drawing(q) /\ Numbered(q)' = Numbered(q)
  BY <1>1 DEF Drawing, Numbered
<1>3. Drawing(q) \subseteq Requests /\ Numbered(q) \subseteq Requests
  BY DEF Drawing, Numbered
<1>4. Undisturbed(q)' \subseteq Undisturbed(q) /\ overlapped \subseteq overlapped'
  BY <1>2, RacesStay DEF Undisturbed
<1>5. \A s \in Drawing(q) \cup Undisturbed(q) :
          pc'[s] = pc[s] /\ loaded'[s] = loaded[s] /\ ksn'[s] = ksn[s]
  BY <1>1, <1>3 DEF Undisturbed
<1> QED BY <1>2, <1>4, <1>5 DEF CounterInv

\* A draw that begins beside others puts itself and them on record.
LEMMA LoadNumbers ==
    ASSUME RequestTypes, NEW r \in Requests, NEW p \in Processes, LoadCounter(r, p),
           NEW q \in Processes, CounterInv(q)
    PROVE  CounterInv(q)'
<1>0. RequestStep(r)
  BY DEF RequestStep
<1>1. /\ pc[r] = "idle" /\ pc'[r] = "store" /\ host'[r] = p /\ loaded'[r] = counter[p]
      /\ counter' = counter /\ ksn' = ksn
  BY DEF LoadCounter, At, RequestTypes
<1>2. CASE q # p
  BY <1>0, <1>1, <1>2, OtherCounters DEF Drawing, Numbered
<1>3. CASE q = p
  <2>1. \A s \in Requests : s # r =>
            pc'[s] = pc[s] /\ host'[s] = host[s] /\ loaded'[s] = loaded[s] /\ ksn'[s] = ksn[s]
    BY <1>0, RequestTypesPreserved
  <2>2. Drawing(p)' = Drawing(p) \cup {r} /\ Numbered(p)' = Numbered(p) /\ r \notin Drawing(p)
    BY <1>1, <2>1 DEF Drawing, Numbered
  <2>3. Undisturbed(p)' \subseteq Undisturbed(p) /\ Undisturbed(p) \subseteq Requests
    BY <1>0, <2>2, RacesStay DEF Undisturbed, Numbered
  <2>4. \A s \in Drawing(p)' \ overlapped' : Drawing(p)' = {s}
    <3>1. CASE Drawing(p) = {}
      BY <2>2, <3>1
    <3>2. CASE Drawing(p) # {}
      BY <2>2, <3>2 DEF LoadCounter
    <3> QED BY <3>1, <3>2
  <2>5. ASSUME NEW u \in Drawing(p)', NEW s \in Undisturbed(p)'
        PROVE  /\ pc'[u] = "store" => ksn'[s] <= loaded'[u]
               /\ pc'[u] = "format" => ksn'[s] < counter'[p]
    <3>1. s \in Undisturbed(p) /\ ksn'[s] = ksn[s] /\ ksn[s] <= counter[p]
      BY <1>1, <1>3, <2>3 DEF CounterInv
    <3>2. CASE u = r
      BY <1>1, <3>1, <3>2
    <3>3. CASE u # r
      <4>1. u \in Drawing(p) /\ pc'[u] = pc[u] /\ loaded'[u] = loaded[u]
        BY <2>1, <2>2, <3>3 DEF Drawing
      <4> QED BY <1>1, <1>3, <3>1, <4>1 DEF CounterInv
    <3> QED BY <3>2, <3>3
  <2>6. /\ \A s \in Undisturbed(p)' : ksn'[s] <= counter'[p]
        /\ \A x, y \in Undisturbed(p)' : ksn'[x] = ksn'[y] => x = y
    BY <1>1, <1>3, <2>3 DEF CounterInv
  <2> QED BY <1>3, <2>4, <2>5, <2>6 DEF CounterInv
<1> QED BY <1>2, <1>3

\* A store moves the counter past every undisturbed number, though not always past
\* every number given.
LEMMA StoreNumbers ==
    ASSUME RequestTypes, NEW r \in Requests, StoreCounter(r),
           NEW q \in Processes, CounterInv(q)
    PROVE  CounterInv(q)'
<1>0. RequestStep(r)
  BY DEF RequestStep
<1>1. /\ pc[r] = "store" /\ pc'[r] = "format" /\ host' = host /\ host[r] \in Processes
      /\ counter' = [counter EXCEPT ![host[r]] = loaded[r] + 1]
      /\ ksn' = ksn /\ loaded' = loaded /\ overlapped' = overlapped
  BY DEF StoreCounter, At, RequestTypes
<1>2. CASE q # host[r]
  BY <1>0, <1>1, <1>2, OtherCounters DEF Drawing, Numbered, RequestTypes
<1>3. CASE q = host[r]
  <2>1. \A s \in Requests : s # r => pc'[s] = pc[s]
    BY <1>0, RequestTypesPreserved
  <2>2. r \in Drawing(q) /\ Drawing(q)' = Drawing(q) /\ Undisturbed(q)' = Undisturbed(q)
    BY <1>1, <1>3, <2>1 DEF Drawing, Numbered, Undisturbed
  <2>3. counter'[q] = loaded[r] + 1 /\ loaded[r] \in Nat
    BY <1>1, <1>3 DEF RequestTypes
  <2>4. \A s \in Undisturbed(q) : ksn[s] \in Nat /\ ksn[s] <= loaded[r]
    BY <1>1, <2>2 DEF CounterInv, RequestTypes, Undisturbed, Numbered
  <2>5. \A s \in Undisturbed(q) : ksn[s] < counter'[q] /\ ksn[s] <= counter'[q]
    BY <2>3, <2>4
  <2>6. ASSUME NEW u \in Drawing(q), NEW s \in Undisturbed(q), pc'[u] = "store"
        PROVE  ksn[s] <= loaded[u]
    <3>1. u # r /\ pc[u] = "store"
      BY <1>1, <2>1, <2>6 DEF Drawing
    <3> QED BY <3>1 DEF CounterInv
  <2>7. /\ \A u \in Drawing(q) \ overlapped : Drawing(q) = {u}
        /\ \A x, y \in Undisturbed(q) : ksn[x] = ksn[y] => x = y
    BY DEF CounterInv
  <2> QED BY <1>1, <2>2, <2>5, <2>6, <2>7 DEF CounterInv
<1> QED BY <1>2, <1>3

\* An undisturbed draw takes a number above all others of its kind, and no draw is
\* under way then that began before.
LEMMA FormatNumbers ==
    ASSUME RequestTypes, NEW r \in Requests, FormatKsn(r),
           NEW q \in Processes, CounterInv(q)
    PROVE  CounterInv(q)'
<1>0. RequestStep(r)
  BY DEF RequestStep
<1>1. /\ pc[r] = "format" /\ pc'[r] = "encrypt" /\ host' = host /\ host[r] \in Processes
      /\ counter' = counter /\ ksn' = [ksn EXCEPT ![r] = counter[host[r]]]
      /\ loaded' = loaded /\ overlapped' = overlapped
  BY DEF FormatKsn, At, RequestTypes
<1>2. CASE q # host[r]
  BY <1>0, <1>1, <1>2, OtherCounters DEF Drawing, Numbered
<1>3. CASE q = host[r]
  <2>1. \A s \in Requests : s # r => pc'[s] = pc[s] /\ ksn'[s] = ksn[s]
    BY <1>0, RequestTypesPreserved
  <2>2. r \in Drawing(q) /\ r \notin Numbered(q)
    BY <1>1, <1>3 DEF Drawing, Numbered
  <2>3. Drawing(q)' = Drawing(q) \ {r} /\ Numbered(q)' = Numbered(q) \cup {r}
    BY <1>1, <1>3, <2>1, <2>2 DEF Drawing, Numbered
  <2>4. ksn'[r] = counter[q] /\ counter[q] \in Nat
    BY <1>1, <1>3 DEF RequestTypes
  <2>5. \A s \in Undisturbed(q) : s # r /\ s \in Requests /\ ksn'[s] = ksn[s] /\ ksn[s] \in Nat
    BY <2>1, <2>2 DEF Undisturbed, Numbered, RequestTypes
  <2>6. \A s \in Undisturbed(q) : ksn'[s] < counter[q]
    BY <1>1, <2>2, <2>5 DEF CounterInv
  <2>7. \A u \in Drawing(q)' : u \in Drawing(q) /\ u # r /\ pc'[u] = pc[u]
    BY <2>1, <2>3 DEF Drawing
  <2>8. CASE r \in overlapped
    <3>1. Undisturbed(q)' = Undisturbed(q)
      BY <1>1, <2>2, <2>3, <2>8 DEF Undisturbed
    <3>2. \A u \in Drawing(q)' \ overlapped' : Drawing(q)' = {u}
      BY <1>1, <2>2, <2>7 DEF CounterInv
    <3>3. \A x, y \in Undisturbed(q)' : ksn'[x] = ksn'[y] => x = y
      BY <2>5, <3>1 DEF CounterInv
    <3>4. \A u \in Drawing(q)', s \in Undisturbed(q)' :
              /\ pc'[u] = "store" => ksn'[s] <= loaded'[u]
              /\ pc'[u] = "format" => ksn'[s] < counter'[q]
      BY <1>1, <2>5, <2>7, <3>1 DEF CounterInv
    <3>5. \A s \in Undisturbed(q)' : ksn'[s] <= counter'[q]
      BY <1>1, <2>5, <3>1 DEF CounterInv
    <3> QED BY <3>2, <3>3, <3>4, <3>5 DEF CounterInv
  <2>9. CASE r \notin overlapped
    <3>1. Drawing(q) = {r}
      BY <2>2, <2>9 DEF CounterInv
    <3>2. Drawing(q)' = {} /\ Undisturbed(q)' = Undisturbed(q) \cup {r}
      BY <1>1, <2>3, <2>9, <3>1 DEF Undisturbed
    <3>3. \A s \in Undisturbed(q) : ksn'[s] <= counter[q] /\ ksn'[s] # ksn'[r]
      BY <2>4, <2>5, <2>6
    <3>4. \A s \in Undisturbed(q)' : ksn'[s] <= counter'[q]
      BY <1>1, <2>4, <3>2, <3>3
    <3>5. \A x, y \in Undisturbed(q)' : ksn'[x] = ksn'[y] => x = y
      BY <2>5, <3>2, <3>3 DEF CounterInv
    <3> QED BY <3>2, <3>4, <3>5 DEF CounterInv
  <2> QED BY <2>8, <2>9
<1> QED BY <1>2, <1>3

\* Afterwards a number is used, or stays unused.
LEMMA UseKeepsNumbers ==
    ASSUME RequestTypes, NEW r \in Requests, Encrypt(r) \/ PinRefused(r),
           NEW q \in Processes, CounterInv(q)
    PROVE  CounterInv(q)'
<1>0. RequestStep(r)
  BY DEF RequestStep
<1>1. /\ pc[r] = "encrypt" /\ pc'[r] \in {"done", "error"}
      /\ UNCHANGED <<host, counter, loaded, ksn, overlapped>>
  BY DEF Encrypt, PinRefused, At, RequestTypes
<1>2. \A s \in Requests : s # r => pc'[s] = pc[s]
  BY <1>0, RequestTypesPreserved
<1>3. Drawing(q)' = Drawing(q) /\ Undisturbed(q)' \subseteq Undisturbed(q)
  BY <1>1, <1>2 DEF Drawing, Numbered, Undisturbed
<1>4. \A s \in Drawing(q) : pc'[s] = pc[s]
  BY <1>1, <1>2 DEF Drawing
<1> QED BY <1>1, <1>3, <1>4 DEF CounterInv

\* A start draws nothing; a process that dies takes its draws with it.
LEMMA ProcessesKeepNumbers ==
    ASSUME NumberInv, NEW p \in Processes, ProcessStep(p)
    PROVE  NumberInv'
<1>1. /\ UNCHANGED <<counter, host, loaded, ksn, block, overlapped>>
      /\ UNCHANGED pc \/ Die(p)
  BY DEF ProcessStep, Start, StartEphemeral, LookForKey, OpenKeyFile, WriteKey, ReadKey, Die,
         requestVars
<1>2. /\ pc' \in [Requests -> Places]
      /\ \A r \in Requests : pc'[r] = pc[r] \/ pc'[r] = "lost"
  BY <1>1 DEF Die, NumberInv, RequestTypes, Places
<1>3. ASSUME NEW q \in Processes PROVE CounterInv(q)'
  <2>1. Drawing(q)' \subseteq Drawing(q) /\ Undisturbed(q)' \subseteq Undisturbed(q)
    BY <1>1, <1>2 DEF Drawing, Numbered, Undisturbed
  <2>2. \A r \in Drawing(q)' : pc'[r] = pc[r]
    BY <1>2 DEF Drawing
  <2>3. CounterInv(q)
    BY <1>3 DEF NumberInv
  <2> QED BY <1>1, <2>1, <2>2, <2>3 DEF CounterInv
<1>4. RequestTypes'
  BY <1>1, <1>2 DEF NumberInv, RequestTypes
<1>5. \A r \in Requests : pc'[r] = "done" => \E k : block'[r] = <<k, ksn'[r]>>
  BY <1>1, <1>2 DEF NumberInv
<1> QED BY <1>1, <1>3, <1>4, <1>5 DEF NumberInv

LEMMA RequestsKeepNumbers ==
    ASSUME NumberInv, NEW r \in Requests, RequestStep(r)
    PROVE  NumberInv'
<1>0. RequestTypes
  BY DEF NumberInv
<1>1. RequestTypes'
  BY <1>0, RequestTypesPreserved
<1>2. ASSUME NEW q \in Processes PROVE CounterInv(q)'
  <2>1. CounterInv(q)
    BY DEF NumberInv
  <2> QED BY <1>0, <2>1, LoadNumbers, StoreNumbers, FormatNumbers, UseKeepsNumbers
          DEF RequestStep
<1>3. ASSUME NEW s \in Requests, pc'[s] = "done" PROVE \E k : block'[s] = <<k, ksn'[s]>>
  <2>1. CASE s = r
    <3>1. Encrypt(r)
      BY <1>0, <1>3, <2>1
         DEF RequestStep, LoadCounter, StoreCounter, FormatKsn, PinRefused, At, RequestTypes
    <3>2. block'[r] = <<base[host[r]], ksn[r]>> /\ ksn' = ksn
      BY <1>0, <3>1 DEF Encrypt, RequestTypes
    <3> QED BY <2>1, <3>2
  <2>2. CASE s # r
    <3>1. pc[s] = "done" /\ block'[s] = block[s] /\ ksn'[s] = ksn[s]
      BY <1>0, <1>3, <2>2, RequestTypesPreserved
    <3> QED BY <3>1 DEF NumberInv
  <2> QED BY <2>1, <2>2
<1> QED BY <1>1, <1>2, <1>3 DEF NumberInv

\* "Each transaction gets its own key": two blocks of one process are under two
\* keys unless one of them drew its KSN while another request was drawing, for any
\* number of payments, races, starts and deaths, and also where processes run side
\* by side.
THEOREM EveryBlockHasItsKey == Spec => []OwnKey
<1>1. Init => NumberInv
  <2> SUFFICES ASSUME Init PROVE NumberInv
    OBVIOUS
  <2>1. RequestTypes
    BY DEF Init, RequestTypes, Places
  <2>2. \A p \in Processes : Drawing(p) = {} /\ Numbered(p) = {}
    BY DEF Init, Drawing, Numbered
  <2> QED BY <2>1, <2>2 DEF NumberInv, CounterInv, Undisturbed, Init
<1>2. NumberInv /\ [Next]_vars => NumberInv'
  <2> SUFFICES ASSUME NumberInv, [Next]_vars PROVE NumberInv'
    OBVIOUS
  <2>1. CASE UNCHANGED vars
    BY <2>1 DEF vars, requestVars, processVars, NumberInv, RequestTypes, CounterInv, Drawing,
                Numbered, Undisturbed
  <2> QED BY <2>1, ProcessesKeepNumbers, RequestsKeepNumbers DEF Next
<1>3. NumberInv => OwnKey
  <2> SUFFICES ASSUME NumberInv, NEW r \in Requests, NEW s \in Requests,
                      pc[r] = "done", pc[s] = "done", block[r] = block[s],
                      host[r] = host[s], r \notin overlapped, s \notin overlapped
               PROVE  r = s
    BY DEF OwnKey
  <2>1. ksn[r] = ksn[s]
    BY DEF NumberInv
  <2>2. host[r] \in Processes /\ r \in Undisturbed(host[r]) /\ s \in Undisturbed(host[r])
    BY DEF NumberInv, RequestTypes, Numbered, Undisturbed
  <2> QED BY <2>1, <2>2 DEF NumberInv, CounterInv
<1> QED BY <1>1, <1>2, <1>3, PTL DEF Spec
=============================================================================
