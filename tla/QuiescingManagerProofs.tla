----------------------- MODULE QuiescingManagerProofs -----------------------
(***************************************************************************)
(* Proofs about QuiescingManager, for every edge-proxy setting, assert     *)
(* setting and bound: the connection tracker follows the state machine     *)
(* (TrackerFollowsState), provided the never-initialised _state does not   *)
(* happen to start in QUIESCING_CONNS or QUIESCED.                         *)
(*                                                                         *)
(* The argument is a table check: every row of process_input that enters  *)
(* QUIESCING_CONNS calls quiesce_connections, every row that leaves it     *)
(* for ACTIVE calls unquiesce_connections, QUIESCED is left by no row, and *)
(* the tracker's own step (quiescing to drained) keeps it switched.  The   *)
(* inductive invariant adds only what the table lookup needs: a thread     *)
(* inside process_input holds one of the four inputs.                      *)
(***************************************************************************)
EXTENDS QuiescingManager, SequenceTheorems, TLAPS

USE QmAssumption

TrackerStates == {"active", "quiescing", "drained"}
Switched == {"QUIESCING_CONNS", "QUIESCED"}

\* The part of the SynchronizedFSM layer's type the table lookup needs.
QmFsmType ==
    /\ q \in Seq(QmInputs)
    /\ fpc \in [QmThreads -> {"idle", "process"}]
    /\ inp \in [QmThreads -> QmInputs \cup {NoInput}]
    /\ \A t \in QmThreads : fpc[t] = "process" => inp[t] \in QmInputs

QmInv ==
    /\ QmFsmType
    /\ tracker \in TrackerStates
    /\ TrackerFollowsState

\* One row of the table: process_input(i) in a state s that agrees with the
\* tracker leaves a state that agrees with the tracker it switches to,
\* unless an assert stops the process first.
LEMMA OutcomeFollows ==
    ASSUME NEW s, NEW i \in QmInputs, NEW tr \in TrackerStates,
           tr # "active" <=> s \in Switched,
           ~(Outcome(s, i).invalid /\ AssertsEnabled)
    PROVE  /\ TrackerAfter(tr, Outcome(s, i).calls) \in TrackerStates
           /\ TrackerAfter(tr, Outcome(s, i).calls) # "active"
                  <=> Outcome(s, i).state \in Switched
<1> USE DEF Outcome, SwitchesFrom, Apply, TrackerAfter, Effect, Nop, Invalid,
            TrackerStates, Switched, QmInputs
\* case STATE_ACTIVE runs its switch and then falls through into the next.
<1>1. CASE s = "ACTIVE"
  <2>1. CASE i = "QUIESCE"
    BY <1>1, <2>1 DEF ActiveSwitch, FlowsSwitch
  <2>2. CASE i = "FLOWS_GONE"
    BY <1>1, <2>2 DEF ActiveSwitch, FlowsSwitch
  <2>3. CASE i = "CONNS_GONE"
    BY <1>1, <2>3 DEF ActiveSwitch, FlowsSwitch
  <2>4. CASE i = "UNQUIESCE"
    BY <1>1, <2>4 DEF ActiveSwitch, FlowsSwitch
  <2>5. QED
    BY <2>1, <2>2, <2>3, <2>4
<1>2. CASE s = "QUIESCING_FLOWS"
  BY <1>2 DEF FlowsSwitch
<1>3. CASE s = "QUIESCING_CONNS"
  BY <1>3 DEF ConnsSwitch
<1>4. CASE s = "QUIESCED"
  BY <1>4 DEF QuiescedSwitch
\* An uninitialised _state matches no case and calls nothing.
<1>5. CASE s \notin States
  <2>1. SwitchesFrom(s) = <<>>
    BY <1>5 DEF States
  <2>2. Outcome(s, i) = [state |-> s, calls |-> {}, invalid |-> AssertsEnabled]
    BY <2>1
  <2>3. QED
    BY <2>2
<1>6. QED
  BY <1>1, <1>2, <1>3, <1>4, <1>5 DEF States

\* send_input keeps the FSM layer's type.
LEMMA SendInputType ==
    ASSUME QmFsmType, NEW t \in QmThreads, NEW i \in QmInputs, Fsm!SendInput(t, i)
    PROVE  QmFsmType'
<1>1. Append(q, i) \in Seq(QmInputs) /\ Append(q, i) # <<>>
  BY AppendProperties DEF QmFsmType
<1>2. Head(Append(q, i)) \in QmInputs /\ Tail(Append(q, i)) \in Seq(QmInputs)
  BY <1>1, HeadTailProperties
<1>3. QED
  BY <1>1, <1>2 DEF QmFsmType, Fsm!SendInput

\* The runner's return from process_input, with what it pushed, keeps it.
LEMMA ProcessInputType ==
    ASSUME QmFsmType, NEW t \in QmThreads, NEW p \in Seq(QmInputs),
           Fsm!ProcessInput(t, p)
    PROVE  QmFsmType'
<1> DEFINE q1 == q \o p
<1>1. q1 \in Seq(QmInputs)
  BY ConcatProperties DEF QmFsmType
<1>2. CASE q1 # <<>>
  <2>1. Head(q1) \in QmInputs /\ Tail(q1) \in Seq(QmInputs)
    BY <1>1, <1>2, HeadTailProperties
  <2>2. QED
    BY <1>2, <2>1 DEF QmFsmType, Fsm!ProcessInput
<1>3. CASE q1 = <<>>
  BY <1>1, <1>3 DEF QmFsmType, Fsm!ProcessInput
<1>4. QED
  BY <1>2, <1>3

\* What quiesce_untrusted_interface may push re-entrantly is a sequence of inputs.
LEMMA ReentrantType == \A calls : Reentrant(calls) \in Seq(QmInputs)
<1>1. <<"FLOWS_GONE">> \in Seq(QmInputs)
  <2>1. "FLOWS_GONE" \in QmInputs
    BY DEF QmInputs
  <2>2. QED
    BY <2>1, EmptySeq, AppendProperties, AppendIsConcat, ConcatEmptySeq
<1>2. <<>> \in Seq(QmInputs)
  BY EmptySeq
<1>3. QED
  BY <1>1, <1>2 DEF Reentrant

LEMMA QmInitInv == InitStates \cap Switched = {} /\ QmInit => QmInv
<1> SUFFICES ASSUME InitStates \cap Switched = {}, QmInit PROVE QmInv
  OBVIOUS
<1>1. QmFsmType
  BY DEF QmInit, Fsm!FsmInit, QmFsmType, QmThreads, AdminThreads
<1>2. tracker = "active" /\ state \notin Switched
  BY DEF QmInit
<1>3. QED
  BY <1>1, <1>2 DEF QmInv, TrackerFollowsState, TrackerStates, Switched

LEMMA QmStep == QmInv /\ [QmNext]_qmVars => QmInv'
<1> SUFFICES ASSUME QmInv, [QmNext]_qmVars PROVE QmInv'
  OBVIOUS
<1>1. ASSUME NEW t \in QmThreads, QmProcess(t) PROVE QmInv'
  <2> DEFINE o == Outcome(state, inp[t])
  <2>1. inp[t] \in QmInputs
    BY <1>1 DEF QmProcess, QmInv, QmFsmType
  <2>2. CASE o.invalid /\ AssertsEnabled
    BY <1>1, <2>2 DEF QmProcess, QmInv, QmFsmType, TrackerFollowsState
  <2>3. CASE ~(o.invalid /\ AssertsEnabled)
    <3>1. /\ Fsm!ProcessInput(t, Reentrant(o.calls))
          /\ state' = o.state
          /\ tracker' = TrackerAfter(tracker, o.calls)
      BY <1>1, <2>3 DEF QmProcess
    <3>2. QmFsmType'
      BY <3>1, ProcessInputType, ReentrantType DEF QmInv
    <3>3. tracker' \in TrackerStates /\ (tracker' # "active" <=> state' \in Switched)
      BY <2>1, <2>3, <3>1, OutcomeFollows DEF QmInv, TrackerFollowsState, Switched
    <3>4. QED
      BY <3>2, <3>3 DEF QmInv, TrackerFollowsState, Switched
  <2>4. QED
    BY <2>2, <2>3
<1>2. CASE AdminCommand
  <2>1. PICK cmd \in {"QUIESCE", "UNQUIESCE"}, t \in AdminThreads : Fsm!SendInput(t, cmd)
    BY <1>2 DEF AdminCommand
  <2>2. QmFsmType'
    BY <2>1, SendInputType DEF QmInv, QmInputs, QmThreads
  <2>3. QED
    BY <1>2, <2>2 DEF AdminCommand, QmInv, TrackerFollowsState
<1>3. CASE TrackerDrained
  BY <1>3 DEF TrackerDrained, QmInv, QmFsmType, TrackerFollowsState, TrackerStates
<1>4. CASE ConnectionsGone
  <2>1. QmFsmType'
    BY <1>4, SendInputType DEF ConnectionsGone, QmInv, QmInputs, QmThreads
  <2>2. QED
    BY <1>4, <2>1 DEF ConnectionsGone, QmInv, TrackerFollowsState
<1>5. CASE UNCHANGED qmVars
  BY <1>5 DEF qmVars, QmInv, QmFsmType, TrackerFollowsState
<1>6. QED
  BY <1>1, <1>2, <1>3, <1>4, <1>5 DEF QmNext

\* Whatever order the operator's commands, the re-entrant flows_gone and the
\* tracker's connections_gone arrive in, on an edge proxy or not, with
\* asserts or without, quiesce_connections and unquiesce_connections keep
\* the tracker switched exactly while the state machine is in
\* QUIESCING_CONNS or QUIESCED; the uninitialised _state (line 97) must not
\* start there.
THEOREM TrackerFollowsSafe ==
    InitStates \cap Switched = {} => (QmSpec => []TrackerFollowsState)
<1> SUFFICES ASSUME InitStates \cap Switched = {} PROVE QmSpec => []TrackerFollowsState
  OBVIOUS
<1>1. QmInv => TrackerFollowsState
  BY DEF QmInv
<1>2. QED
  BY <1>1, QmInitInv, QmStep, PTL DEF QmSpec

-----------------------------------------------------------------------------
(* QuiescingManager uses SynchronizedFSM as send_input allows.             *)

FsmP == INSTANCE SynchronizedFSMProofs WITH FsmThreads <- QmThreads, Inputs <- QmInputs

\* Every step of the quiescing manager is, on the FSM layer's variables, a
\* step of SynchronizedFSM or a stutter: the operator's commands and the
\* tracker's connections_gone are send_input calls, and the real
\* process_input returns having pushed nothing or the one re-entrant
\* flows_gone.
LEMMA QmStepIsFsmStep ==
    [QmNext]_qmVars => [FsmP!FsmNext]_(FsmP!fsmVars)
<1> SUFFICES ASSUME [QmNext]_qmVars PROVE [FsmP!FsmNext]_(FsmP!fsmVars)
  OBVIOUS
<1>1. ASSUME NEW t \in QmThreads, QmProcess(t) PROVE [FsmP!FsmNext]_(FsmP!fsmVars)
  <2> DEFINE o == Outcome(state, inp[t])
  <2>1. CASE o.invalid /\ AssertsEnabled
    BY <1>1, <2>1 DEF QmProcess, FsmP!fsmVars
  <2>2. CASE ~(o.invalid /\ AssertsEnabled)
    <3>1. Fsm!ProcessInput(t, Reentrant(o.calls))
      BY <1>1, <2>2 DEF QmProcess
    <3>2. Reentrant(o.calls) \in FsmP!ReentrantPushes
      BY DEF Reentrant, FsmP!ReentrantPushes, QmInputs
    <3>3. FsmP!ProcessInput(t, Reentrant(o.calls))
      BY <3>1 DEF Fsm!ProcessInput, FsmP!ProcessInput
    <3>4. QED
      BY <3>2, <3>3 DEF FsmP!FsmNext
  <2>3. QED
    BY <2>1, <2>2
<1>2. CASE AdminCommand
  <2>1. PICK cmd \in {"QUIESCE", "UNQUIESCE"}, t \in AdminThreads : Fsm!SendInput(t, cmd)
    BY <1>2 DEF AdminCommand
  <2>2. FsmP!SendInput(t, cmd)
    BY <2>1 DEF Fsm!SendInput, FsmP!SendInput
  <2>3. QED
    BY <2>2 DEF FsmP!FsmNext, QmThreads, QmInputs
<1>3. CASE TrackerDrained
  BY <1>3 DEF TrackerDrained, FsmP!fsmVars
<1>4. CASE ConnectionsGone
  <2>1. FsmP!SendInput("conns", "CONNS_GONE")
    BY <1>4 DEF ConnectionsGone, Fsm!SendInput, FsmP!SendInput
  <2>2. QED
    BY <2>1 DEF FsmP!FsmNext, QmThreads, QmInputs
<1>5. CASE UNCHANGED qmVars
  BY <1>5 DEF qmVars, FsmP!fsmVars
<1>6. QED
  BY <1>1, <1>2, <1>3, <1>4, <1>5 DEF QmNext

\* The quiescing manager starts its FSM layer as SynchronizedFSM starts.
LEMMA QmInitIsFsmInit == QmInit => FsmP!FsmInit
BY DEF QmInit, Fsm!FsmInit, FsmP!FsmInit

\* With the real process_input (its table, its re-entrant flows_gone and
\* the assert of invalid_input) and the real callers (the operator's
\* threads and the connection tracker's), for every edge-proxy and assert
\* setting and every bound: process_input never runs on two threads at
\* once, and no queued input is left without a runner.
THEOREM QmFsmSafety ==
    QmSpec => [](Fsm!MutualExclusion /\ Fsm!NoStrandedInput)
<1>1. FsmP!FsmInv => Fsm!MutualExclusion /\ Fsm!NoStrandedInput
  BY DEF FsmP!FsmInv, FsmP!MutualExclusion, FsmP!NoStrandedInput, FsmP!Processing,
         Fsm!MutualExclusion, Fsm!NoStrandedInput, Fsm!Processing
<1>0. QmThreads # {} /\ MaxInputs \in Nat /\ NoInput \notin QmInputs
  BY DEF QmThreads
<1>2. QmInit => FsmP!FsmInv
  <2>1. QmInit => FsmP!FsmInit
    BY QmInitIsFsmInit
  <2>2. FsmP!FsmInit => FsmP!FsmInv
    BY <1>0, FsmP!InitInv
  <2>3. QED
    BY <2>1, <2>2
<1>3. FsmP!FsmInv /\ [QmNext]_qmVars => FsmP!FsmInv'
  <2>1. FsmP!FsmInv /\ [FsmP!FsmNext]_(FsmP!fsmVars) => FsmP!FsmInv'
    BY <1>0, FsmP!InvStep
  <2>2. QED
    BY <2>1, QmStepIsFsmStep
<1>4. QED
  BY <1>1, <1>2, <1>3, PTL DEF QmSpec

\* With the real process_input and its real callers, for every bound, the
\* FSM layer implements the FIFO dispatcher under the mapping that puts the
\* runner's input in front of _input_q: the operator's commands, the
\* re-entrant flows_gone and the tracker's connections_gone are each
\* processed once, in the order send_input queued them.
THEOREM QmRefinesDispatcher ==
    QmSpec => FsmP!Disp!DispInit /\ [][FsmP!Disp!DispNext]_(FsmP!Disp!dispVars)
<1>0. QmThreads # {} /\ MaxInputs \in Nat /\ NoInput \notin QmInputs
  BY DEF QmThreads
<1>1. QmInit => FsmP!FsmInv /\ FsmP!Disp!DispInit
  <2>1. FsmP!FsmInit => FsmP!FsmInv /\ FsmP!Disp!DispInit
    BY <1>0, FsmP!InitInv, FsmP!DispInitMapped
  <2>2. QED
    BY <2>1, QmInitIsFsmInit
<1>2. FsmP!FsmInv /\ [QmNext]_qmVars => FsmP!FsmInv'
  <2>1. FsmP!FsmInv /\ [FsmP!FsmNext]_(FsmP!fsmVars) => FsmP!FsmInv'
    BY <1>0, FsmP!InvStep
  <2>2. QED
    BY <2>1, QmStepIsFsmStep
<1>3. FsmP!FsmInv /\ [QmNext]_qmVars => [FsmP!Disp!DispNext]_(FsmP!Disp!dispVars)
  <2>1. FsmP!FsmInv /\ [FsmP!FsmNext]_(FsmP!fsmVars)
            => [FsmP!Disp!DispNext]_(FsmP!Disp!dispVars)
    BY <1>0, FsmP!DispStepMapped
  <2>2. QED
    BY <2>1, QmStepIsFsmStep
<1>4. QED
  BY <1>1, <1>2, <1>3, PTL DEF QmSpec

=============================================================================
