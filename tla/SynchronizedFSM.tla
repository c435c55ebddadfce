--------------------------- MODULE SynchronizedFSM ---------------------------
(***************************************************************************)
(* SynchronizedFSM::send_input (src/sprout/quiescing_manager.cpp, lines    *)
(* 58-89): any thread may feed an input to the state machine.  The input   *)
(* is queued under _lock; the first thread to find _running false becomes  *)
(* the runner and drains the queue, dropping the lock around each call of  *)
(* process_input so that process_input may itself call send_input         *)
(* (re-entrantly, on the runner's thread) and other threads may queue more *)
(* inputs meanwhile.                                                       *)
(*                                                                         *)
(* Every section of the code that runs under _lock is one atomic step; the *)
(* body of process_input is joined to the re-lock that follows it, which   *)
(* loses no interleaving since other threads only ever append to the queue *)
(* while the lock is free.  Here process_input is generic: it may push a   *)
(* short sequence of inputs re-entrantly.  QuiescingManager supplies the   *)
(* real one.                                                               *)
(***************************************************************************)
EXTENDS Naturals, Sequences

CONSTANTS
    FsmThreads,   \* threads that call send_input
    Inputs,       \* the inputs of the state machine
    MaxInputs,    \* bound on the number of inputs ever queued
    NoInput       \* a thread that holds no input

ASSUME FsmAssumption ==
    /\ FsmThreads # {}
    /\ MaxInputs \in Nat
    /\ NoInput \notin Inputs

VARIABLES
    q,        \* _input_q
    running,  \* _running
    fpc,      \* per thread: "idle" or "process" (inside process_input)
    inp,      \* per thread: the input it is processing
    pushes,   \* inputs queued so far (history)
    done      \* inputs whose process_input has returned (history)

fsmVars == <<q, running, fpc, inp, pushes, done>>

\* The sequences of inputs a process_input call may push re-entrantly.
ReentrantPushes == {<<>>} \cup {<<i>> : i \in Inputs}

FsmInit ==
    /\ q = <<>>
    /\ running = FALSE
    /\ fpc = [t \in FsmThreads |-> "idle"]
    /\ inp = [t \in FsmThreads |-> NoInput]
    /\ pushes = 0
    /\ done = 0

\* Mutant: the _running test of line 65 is dropped, so every caller drains.
SendInputIgnoresRunning(t, i) ==
    /\ fpc[t] = "idle"
    /\ pushes < MaxInputs
    /\ pushes' = pushes + 1
    /\ LET q1 == Append(q, i)
       IN  /\ running' = TRUE
           /\ inp' = [inp EXCEPT ![t] = Head(q1)]
           /\ q' = Tail(q1)
           /\ fpc' = [fpc EXCEPT ![t] = "process"]
    /\ UNCHANGED done

\* Mutant: an input that finds the FSM running is dropped instead of queued.
SendInputDropsWhenBusy(t, i) ==
    /\ fpc[t] = "idle"
    /\ pushes < MaxInputs
    /\ pushes' = pushes + 1
    /\ IF running
       THEN UNCHANGED <<q, running, fpc, inp>>
       ELSE /\ running' = TRUE
            /\ inp' = [inp EXCEPT ![t] = i]
            /\ q' = q
            /\ fpc' = [fpc EXCEPT ![t] = "process"]
    /\ UNCHANGED done

\* Lines 60-80: lock, queue the input; if no thread is running the FSM,
\* become the runner and take the head of the queue, then unlock.
SendInput(t, i) ==
    /\ fpc[t] = "idle"
    /\ pushes < MaxInputs
    /\ pushes' = pushes + 1
    /\ IF running
       THEN /\ q' = Append(q, i)
            /\ UNCHANGED <<running, fpc, inp>>
       ELSE LET q1 == Append(q, i)
            IN  /\ running' = TRUE
                /\ inp' = [inp EXCEPT ![t] = Head(q1)]
                /\ q' = Tail(q1)
                /\ fpc' = [fpc EXCEPT ![t] = "process"]
    /\ UNCHANGED done

\* Mutant: the drain loop stops one input early (size() > 1).
ProcessInputOffByOne(t, pushed) ==
    /\ fpc[t] = "process"
    /\ pushes + Len(pushed) <= MaxInputs
    /\ pushes' = pushes + Len(pushed)
    /\ done' = done + 1
    /\ LET q1 == q \o pushed
       IN  IF Len(q1) > 1
           THEN /\ inp' = [inp EXCEPT ![t] = Head(q1)]
                /\ q' = Tail(q1)
                /\ UNCHANGED <<running, fpc>>
           ELSE /\ running' = FALSE
                /\ fpc' = [fpc EXCEPT ![t] = "idle"]
                /\ inp' = [inp EXCEPT ![t] = NoInput]
                /\ q' = q1

\* Mutant: leaving the drain loop does not give up the input it last held.
ProcessInputKeepsInput(t, pushed) ==
    /\ fpc[t] = "process"
    /\ pushes + Len(pushed) <= MaxInputs
    /\ pushes' = pushes + Len(pushed)
    /\ done' = done + 1
    /\ LET q1 == q \o pushed
       IN  IF q1 # <<>>
           THEN /\ inp' = [inp EXCEPT ![t] = Head(q1)]
                /\ q' = Tail(q1)
                /\ UNCHANGED <<running, fpc>>
           ELSE /\ running' = FALSE
                /\ fpc' = [fpc EXCEPT ![t] = "idle"]
                /\ UNCHANGED inp
                /\ q' = q1

\* Mutant: inputs pushed re-entrantly are put at the front of the queue.
ProcessInputPushFront(t, pushed) ==
    /\ fpc[t] = "process"
    /\ pushes + Len(pushed) <= MaxInputs
    /\ pushes' = pushes + Len(pushed)
    /\ done' = done + 1
    /\ LET q1 == pushed \o q
       IN  IF q1 # <<>>
           THEN /\ inp' = [inp EXCEPT ![t] = Head(q1)]
                /\ q' = Tail(q1)
                /\ UNCHANGED <<running, fpc>>
           ELSE /\ running' = FALSE
                /\ fpc' = [fpc EXCEPT ![t] = "idle"]
                /\ inp' = [inp EXCEPT ![t] = NoInput]
                /\ q' = q1

\* Line 81 and lines 82-85: process_input returns, having queued `pushed`
\* through re-entrant send_input calls (which find _running set and return);
\* re-lock and take the next input, or clear _running when the queue is
\* empty.
ProcessInput(t, pushed) ==
    /\ fpc[t] = "process"
    /\ pushes + Len(pushed) <= MaxInputs
    /\ pushes' = pushes + Len(pushed)
    /\ done' = done + 1
    /\ LET q1 == q \o pushed
       IN  IF q1 # <<>>
           THEN /\ inp' = [inp EXCEPT ![t] = Head(q1)]
                /\ q' = Tail(q1)
                /\ UNCHANGED <<running, fpc>>
           ELSE /\ running' = FALSE
                /\ fpc' = [fpc EXCEPT ![t] = "idle"]
                /\ inp' = [inp EXCEPT ![t] = NoInput]
                /\ q' = q1

\* Every thread is idle and no more inputs will come: the program may rest.
Quiet ==
    /\ pushes = MaxInputs
    /\ \A t \in FsmThreads : fpc[t] = "idle"
    /\ UNCHANGED fsmVars

FsmNext ==
    \/ \E t \in FsmThreads, i \in Inputs : SendInput(t, i)
    \/ \E t \in FsmThreads, p \in ReentrantPushes : ProcessInput(t, p)
    \/ Quiet

\* A thread inside process_input gets to run again: the OS schedules it.
FsmFairness ==
    \A t \in FsmThreads : WF_fsmVars(\E p \in ReentrantPushes : ProcessInput(t, p))

FsmSpec == FsmInit /\ [][FsmNext]_fsmVars /\ FsmFairness

-----------------------------------------------------------------------------
Processing == {t \in FsmThreads : fpc[t] = "process"}

FsmTypeOK ==
    /\ q \in Seq(Inputs)
    /\ running \in BOOLEAN
    /\ fpc \in [FsmThreads -> {"idle", "process"}]
    /\ inp \in [FsmThreads -> Inputs \cup {NoInput}]
    /\ \A t \in FsmThreads : fpc[t] = "process" <=> inp[t] # NoInput
    /\ pushes \in 0..MaxInputs
    /\ done \in Nat

\* process_input is never run by two threads at once, although the lock is
\* dropped around it (lines 78-82): the _running flag serialises the runners.
MutualExclusion ==
    \A t1, t2 \in Processing : t1 = t2

\* No input is stranded: whenever an input waits in the queue, some thread
\* is inside the drain loop and will take it; the check of _running (line
\* 65) and the clearing of it (line 85) happen under the same lock as the
\* queue operations.
NoStrandedInput ==
    /\ running <=> Processing # {}
    /\ q # <<>> => running

\* Every queued input is processed: the number of process_input calls that
\* returned catches up with the number of inputs queued.
AllInputsProcessed ==
    \A k \in 1..MaxInputs : [](pushes >= k => <>(done >= k))

\* The refinement mapping: the inputs not yet processed are the one the
\* runner holds, followed by the queue.
Runner == CHOOSE t \in Processing : TRUE
PendingBar == IF Processing = {} THEN q ELSE <<inp[Runner]>> \o q

Disp == INSTANCE Dispatcher WITH pending <- PendingBar

\* send_input implements the single-worker FIFO dispatcher: inputs given
\* by any thread, or re-entrantly by process_input, are each processed
\* once, in the order _input_q received them, with no input taken out of
\* turn while the lock is dropped around process_input.
DispatcherRefined == Disp!DispSpec

=============================================================================
