----------------------------- MODULE Dispatcher -----------------------------
(***************************************************************************)
(* What SynchronizedFSM promises its subclasses and callers (the class     *)
(* comment of quiescing_manager.h and spec section 9: "a work queue        *)
(* drained by exactly one worker at a time"): every input given to        *)
(* send_input is processed exactly once, one at a time, in the order the   *)
(* inputs were given; an input that processing itself gives is processed   *)
(* after those already waiting.                                            *)
(*                                                                         *)
(* pending is the sequence of inputs given and not yet processed; its head *)
(* is the one being processed, or the next to be.                          *)
(***************************************************************************)
EXTENDS Naturals, Sequences

CONSTANTS
    Inputs,     \* the inputs of the state machine
    MaxInputs   \* bound on the number of inputs ever given

VARIABLES
    pending,    \* inputs given and not yet processed, oldest first
    pushes,     \* inputs given so far
    done        \* inputs processed so far

dispVars == <<pending, pushes, done>>

\* What processing one input may give back.
Pushed == {<<>>} \cup {<<i>> : i \in Inputs}

DispInit ==
    /\ pending = <<>>
    /\ pushes = 0
    /\ done = 0

\* A caller gives an input; it waits behind all the others.
Give(i) ==
    /\ pushes < MaxInputs
    /\ pending' = Append(pending, i)
    /\ pushes' = pushes + 1
    /\ UNCHANGED done

\* The oldest input is processed, giving back `pushed`, which is queued
\* behind the inputs still waiting.
Process(pushed) ==
    /\ pending # <<>>
    /\ pushes + Len(pushed) <= MaxInputs
    /\ pending' = Tail(pending) \o pushed
    /\ pushes' = pushes + Len(pushed)
    /\ done' = done + 1

DispNext ==
    \/ \E i \in Inputs : Give(i)
    \/ \E p \in Pushed : Process(p)

\* A waiting input is eventually processed.
DispSpec == DispInit /\ [][DispNext]_dispVars /\ WF_dispVars(\E p \in Pushed : Process(p))

=============================================================================
