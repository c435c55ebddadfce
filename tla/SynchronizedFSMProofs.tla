------------------------ MODULE SynchronizedFSMProofs ------------------------
(***************************************************************************)
(* Proofs about SynchronizedFSM::send_input, for every set of threads and  *)
(* inputs and every bound.  The invariant checked by TLC,                  *)
(* MutualExclusion /\ NoStrandedInput, is inductive once joined to the     *)
(* type invariant: the only facts a step needs are that a thread that      *)
(* finds _running false finds the queue empty and nobody processing.       *)
(***************************************************************************)
EXTENDS SynchronizedFSM, SequenceTheorems, TLAPS

USE FsmAssumption

FsmInv == FsmTypeOK /\ MutualExclusion /\ NoStrandedInput

LEMMA InitInv == FsmInit => FsmInv
<1> SUFFICES ASSUME FsmInit PROVE FsmInv
  OBVIOUS
<1>1. FsmTypeOK
  <2>1. q \in Seq(Inputs)
    BY DEF FsmInit
  <2>9. running = FALSE
    BY DEF FsmInit
  <2>6. running \in BOOLEAN
    BY <2>9
  <2>7. pushes \in 0..MaxInputs
    BY DEF FsmInit
  <2>8. done \in Nat
    BY DEF FsmInit
  <2>2. fpc \in [FsmThreads -> {"idle", "process"}]
    BY DEF FsmInit
  <2>3. inp \in [FsmThreads -> Inputs \cup {NoInput}]
    BY DEF FsmInit
  <2>4. \A t \in FsmThreads : fpc[t] = "process" <=> inp[t] # NoInput
    BY DEF FsmInit
  <2>5. QED
    BY <2>1, <2>2, <2>3, <2>4, <2>6, <2>7, <2>8 DEF FsmTypeOK
<1>2. Processing = {}
  BY DEF FsmInit, Processing
<1>3. QED
  BY <1>1, <1>2 DEF FsmInit, FsmInv, MutualExclusion, NoStrandedInput

\* A send_input that queues and, finding the FSM idle, becomes the runner
\* keeps the invariant.
LEMMA SendInputInv ==
    ASSUME FsmInv, NEW t \in FsmThreads, NEW i \in Inputs, SendInput(t, i)
    PROVE  FsmInv'
<1>1. CASE running
  BY <1>1 DEF SendInput, FsmInv, FsmTypeOK, MutualExclusion, NoStrandedInput, Processing
<1>2. CASE ~running
  <2>1. q = <<>> /\ Processing = {}
    BY <1>2 DEF FsmInv, NoStrandedInput
  <2>2. /\ q' = <<>> /\ inp' = [inp EXCEPT ![t] = i]
        /\ running' /\ fpc' = [fpc EXCEPT ![t] = "process"]
    BY <1>2, <2>1 DEF SendInput
  <2>3. Processing' = {t}
    BY <2>1, <2>2 DEF FsmInv, FsmTypeOK, Processing
  <2>4. QED
    BY <2>2, <2>3 DEF SendInput, FsmInv, FsmTypeOK, MutualExclusion, NoStrandedInput
<1>3. QED
  BY <1>1, <1>2

\* The runner's return from process_input, with what it pushed re-entrantly,
\* keeps the invariant: it is the only thread processing, so clearing
\* _running leaves nobody processing.
LEMMA ProcessInputInv ==
    ASSUME FsmInv, NEW t \in FsmThreads, NEW p \in ReentrantPushes,
           ProcessInput(t, p)
    PROVE  FsmInv'
<1> DEFINE q1 == q \o p
<1>0. t \in Processing
  BY DEF ProcessInput, Processing
<1>1. Processing = {t} /\ running
  BY <1>0 DEF FsmInv, MutualExclusion, NoStrandedInput
<1>6. pushes' \in 0..MaxInputs /\ done' \in Nat
  BY DEF ProcessInput, ReentrantPushes, FsmInv, FsmTypeOK
<1>7. p \in Seq(Inputs)
  <2>1. CASE p = <<>>
    BY <2>1
  <2>2. CASE \E i \in Inputs : p = <<i>>
    BY <2>2
  <2>3. QED
    BY <2>1, <2>2 DEF ReentrantPushes
<1>2. q1 \in Seq(Inputs)
  BY <1>7 DEF FsmInv, FsmTypeOK
<1>3. CASE q1 # <<>>
  <2>1. /\ inp' = [inp EXCEPT ![t] = Head(q1)] /\ q' = Tail(q1)
        /\ UNCHANGED <<running, fpc>>
    BY <1>3 DEF ProcessInput
  <2>2. Head(q1) \in Inputs /\ Tail(q1) \in Seq(Inputs)
    BY <1>2, <1>3
  <2>3. Processing' = Processing
    BY <2>1, <2>2, <1>1 DEF Processing, FsmInv, FsmTypeOK
  <2>5. /\ inp' \in [FsmThreads -> Inputs \cup {NoInput}]
        /\ \A u \in FsmThreads : fpc'[u] = "process" <=> inp'[u] # NoInput
    BY <1>0, <2>1, <2>2 DEF FsmInv, FsmTypeOK, Processing
  <2>4. QED
    BY <1>1, <1>6, <2>1, <2>2, <2>3, <2>5
       DEF FsmInv, FsmTypeOK, MutualExclusion, NoStrandedInput
<1>4. CASE q1 = <<>>
  <2>1. /\ running' = FALSE /\ fpc' = [fpc EXCEPT ![t] = "idle"]
        /\ inp' = [inp EXCEPT ![t] = NoInput] /\ q' = <<>>
    BY <1>4 DEF ProcessInput
  <2>2. Processing' = {}
    BY <1>1, <2>1 DEF Processing, FsmInv, FsmTypeOK
  <2>3. \A u \in FsmThreads : fpc'[u] = "process" <=> inp'[u] # NoInput
    BY <2>1 DEF FsmInv, FsmTypeOK
  <2>6. q' \in Seq(Inputs)
    BY <2>1
  <2>7. running' \in BOOLEAN
    BY <2>1, Zenon
  <2>8. fpc' \in [FsmThreads -> {"idle", "process"}]
    BY <2>1 DEF FsmInv, FsmTypeOK
  <2>9. inp' \in [FsmThreads -> Inputs \cup {NoInput}]
    BY <2>1 DEF FsmInv, FsmTypeOK
  <2>5. FsmTypeOK'
    BY <1>6, <2>3, <2>6, <2>7, <2>8, <2>9 DEF FsmTypeOK
  <2>4. QED
    BY <2>1, <2>2, <2>5 DEF FsmInv, MutualExclusion, NoStrandedInput
<1>5. QED
  BY <1>3, <1>4

\* Every step of send_input keeps the inductive invariant.
LEMMA InvStep == FsmInv /\ [FsmNext]_fsmVars => FsmInv'
<1> SUFFICES ASSUME FsmInv, [FsmNext]_fsmVars PROVE FsmInv'
  OBVIOUS
<1>1. CASE \E t \in FsmThreads, i \in Inputs : SendInput(t, i)
  BY <1>1, SendInputInv
<1>2. CASE \E t \in FsmThreads, p \in ReentrantPushes : ProcessInput(t, p)
  BY <1>2, ProcessInputInv
<1>3. CASE Quiet \/ UNCHANGED fsmVars
  BY <1>3 DEF Quiet, fsmVars, FsmInv, FsmTypeOK, MutualExclusion,
              NoStrandedInput, Processing
<1>4. QED
  BY <1>1, <1>2, <1>3 DEF FsmNext

\* process_input is never run by two threads at once, and no queued input
\* is left without a runner, for any number of threads and inputs.
THEOREM FsmSafety == FsmSpec => [](MutualExclusion /\ NoStrandedInput)
<1>1. FsmInv => MutualExclusion /\ NoStrandedInput
  BY DEF FsmInv
<1>2. QED
  BY <1>1, InvStep, InitInv, PTL DEF FsmSpec

\* Every state send_input and the drain loop reach is well typed, and a
\* thread is in the loop exactly when it holds an input.
THEOREM FsmTypeCorrect == FsmSpec => []FsmTypeOK
<1>1. FsmInv => FsmTypeOK
  BY DEF FsmInv
<1>2. QED
  BY <1>1, InvStep, InitInv, PTL DEF FsmSpec

\* _running is set exactly while a thread drains the queue, and a queued
\* input always has a thread draining it (lines 65 and 85 under one lock).
THEOREM NoStrandedInputSafe == FsmSpec => []NoStrandedInput
<1>1. FsmInv => NoStrandedInput
  BY DEF FsmInv
<1>2. QED
  BY <1>1, InvStep, InitInv, PTL DEF FsmSpec

-----------------------------------------------------------------------------
(* send_input implements the dispatcher (safety part of DispatcherRefined; *)
(* the weak fairness of Dispatcher is checked by TLC).                     *)

\* With one runner t, the pending inputs are t's input followed by the queue.
LEMMA PendingOfRunner ==
    ASSUME FsmInv, NEW t \in FsmThreads, Processing = {t}
    PROVE  PendingBar = <<inp[t]>> \o q
<1>1. Runner = t
  BY DEF Runner
<1>2. QED
  BY <1>1 DEF PendingBar

\* With nobody processing, the pending inputs are the queue, which is empty.
LEMMA PendingIdle ==
    ASSUME FsmInv, Processing = {}
    PROVE  PendingBar = <<>>
BY DEF PendingBar, FsmInv, NoStrandedInput

LEMMA SendInputRefines ==
    ASSUME FsmInv, NEW t \in FsmThreads, NEW i \in Inputs, SendInput(t, i)
    PROVE  Disp!Give(i)
<1>1. FsmInv'
  BY InvStep DEF FsmNext
<1>2. CASE running
  <2>1. PICK r \in FsmThreads : Processing = {r}
    <3>1. Processing # {}
      BY <1>2 DEF FsmInv, NoStrandedInput
    <3>2. PICK r \in Processing : TRUE
      BY <3>1
    <3>3. r \in FsmThreads /\ Processing = {r}
      BY <3>2 DEF FsmInv, MutualExclusion, Processing
    <3>4. QED
      BY <3>3
  <2>2. Processing' = {r}
    BY <1>2, <2>1 DEF SendInput, Processing
  <2>3. PendingBar = <<inp[r]>> \o q /\ PendingBar' = <<inp'[r]>> \o q'
    BY <2>1, <2>2 DEF PendingBar, Runner
  <2>4. q' = Append(q, i) /\ inp' = inp
    BY <1>2 DEF SendInput
  <2>5. inp[r] \in Inputs
    BY <2>1 DEF FsmInv, FsmTypeOK, Processing
  <2>6. PendingBar' = Append(PendingBar, i)
    BY <2>3, <2>4, <2>5, AppendIsConcat, ConcatAssociative, ConcatProperties
       DEF FsmInv, FsmTypeOK
  <2>7. QED
    BY <2>6 DEF SendInput, Disp!Give
<1>3. CASE ~running
  <2>1. Processing = {} /\ q = <<>>
    BY <1>3 DEF FsmInv, NoStrandedInput
  <2>2. Processing' = {t} /\ inp'[t] = i /\ q' = <<>>
    BY <1>3, <2>1 DEF SendInput, Processing, FsmInv, FsmTypeOK
  <2>3. PendingBar' = <<i>>
    BY <2>2 DEF PendingBar, Runner
  <2>4. PendingBar = <<>>
    BY <2>1, PendingIdle
  <2>5. QED
    BY <2>3, <2>4 DEF SendInput, Disp!Give
<1>4. QED
  BY <1>2, <1>3

LEMMA ProcessInputRefines ==
    ASSUME FsmInv, NEW t \in FsmThreads, NEW p \in ReentrantPushes,
           ProcessInput(t, p)
    PROVE  Disp!Process(p)
<1> DEFINE q1 == q \o p
<1>1. FsmInv'
  BY InvStep DEF FsmNext
<1>2. Processing = {t}
  BY DEF ProcessInput, Processing, FsmInv, MutualExclusion
<1>3. PendingBar = <<inp[t]>> \o q
  BY <1>2, PendingOfRunner
<1>4. inp[t] \in Inputs /\ q \in Seq(Inputs) /\ p \in Seq(Inputs)
  <2>1. p \in Seq(Inputs)
    <3>1. CASE p = <<>>
      BY <3>1
    <3>2. CASE \E i \in Inputs : p = <<i>>
      BY <3>2
    <3>3. QED
      BY <3>1, <3>2 DEF ReentrantPushes
  <2>2. QED
    BY <1>2, <2>1 DEF FsmInv, FsmTypeOK, Processing
<1>5. PendingBar # <<>> /\ Tail(PendingBar) = q
  BY <1>3, <1>4
<1>6. PendingBar' = q1
  <2>1. CASE q1 # <<>>
    <3>1. Processing' = {t}
      BY <2>1, <1>2 DEF ProcessInput, Processing
    <3>2. inp'[t] = Head(q1) /\ q' = Tail(q1)
      BY <2>1 DEF ProcessInput, FsmInv, FsmTypeOK
    <3>4. PendingBar' = <<Head(q1)>> \o Tail(q1)
      BY <3>1, <3>2 DEF PendingBar, Runner
    <3>3. QED
      BY <1>4, <2>1, <3>4
  <2>2. CASE q1 = <<>>
    <3>1. Processing' = {}
      <4>1. fpc' = [fpc EXCEPT ![t] = "idle"]
        BY <2>2 DEF ProcessInput
      <4>2. QED
        BY <4>1, <1>2 DEF Processing, FsmInv, FsmTypeOK
    <3>2. q' = <<>>
      BY <2>2 DEF ProcessInput
    <3>3. QED
      BY <2>2, <3>1, <3>2 DEF PendingBar
  <2>3. QED
    BY <2>1, <2>2
<1>7. p \in Disp!Pushed
  BY DEF ReentrantPushes, Disp!Pushed
<1>8. QED
  BY <1>5, <1>6, <1>7 DEF ProcessInput, Disp!Process

\* The refinement mapping takes an initial state to the dispatcher's.
LEMMA DispInitMapped == FsmInit => Disp!DispInit
<1>1. ASSUME FsmInit PROVE Processing = {}
  BY <1>1 DEF FsmInit, Processing
<1>2. QED
  BY <1>1 DEF FsmInit, PendingBar, Disp!DispInit

\* Under the mapping, every step of send_input is a Give, a Process or a
\* stutter of the dispatcher.
LEMMA DispStepMapped == FsmInv /\ [FsmNext]_fsmVars => [Disp!DispNext]_Disp!dispVars
<1> SUFFICES ASSUME FsmInv, [FsmNext]_fsmVars
             PROVE  [Disp!DispNext]_Disp!dispVars
  OBVIOUS
<1>1. CASE \E t \in FsmThreads, i \in Inputs : SendInput(t, i)
  BY <1>1, SendInputRefines DEF Disp!DispNext
<1>2. CASE \E t \in FsmThreads, p \in ReentrantPushes : ProcessInput(t, p)
  <2>1. PICK t \in FsmThreads, p \in ReentrantPushes : ProcessInput(t, p)
    BY <1>2
  <2>2. p \in Disp!Pushed
    BY DEF ReentrantPushes, Disp!Pushed
  <2>3. QED
    BY <2>1, <2>2, ProcessInputRefines DEF Disp!DispNext
<1>3. CASE Quiet \/ UNCHANGED fsmVars
  <2>1. UNCHANGED fsmVars
    BY <1>3 DEF Quiet
  <2>2. PendingBar' = PendingBar
    BY <2>1 DEF fsmVars, PendingBar, Runner, Processing
  <2>3. QED
    BY <2>1, <2>2 DEF fsmVars, Disp!dispVars
<1>4. QED
  BY <1>1, <1>2, <1>3 DEF FsmNext

\* Every behaviour of send_input is one of the dispatcher's: the pending
\* inputs (the runner's and the queue) change only by an input appended
\* at the end or the oldest one processed, for any threads, inputs and bound.
THEOREM FsmRefinesDispatcher ==
    FsmSpec => Disp!DispInit /\ [][Disp!DispNext]_Disp!dispVars
<1>1. FsmInit => Disp!DispInit
  BY DispInitMapped
<1>2. FsmInv /\ [FsmNext]_fsmVars => [Disp!DispNext]_Disp!dispVars
  BY DispStepMapped
<1>3. QED
  BY <1>1, <1>2, InitInv, InvStep, PTL DEF FsmSpec
=============================================================================
