-------------------------- MODULE QuiescingManager --------------------------
(***************************************************************************)
(* QuiescingManager (src/sprout/quiescing_manager.cpp, lines 92-263): the  *)
(* state machine that drains a node on shutdown, run through               *)
(* SynchronizedFSM::send_input.  process_input is translated switch by     *)
(* switch, including the missing break after case STATE_ACTIVE (line 133) *)
(* that makes that case fall through into case STATE_QUIESCING_FLOWS.      *)
(*                                                                         *)
(* The environment keeps the contract the state table implies: the        *)
(* operator alternates quiesce and unquiesce, starting with quiesce, and   *)
(* the connection tracker reports connections_gone once per quiesce().     *)
(* On an edge proxy quiesce_untrusted_interface only has TODO comments, so *)
(* no flow table ever reports flows_gone.                                  *)
(***************************************************************************)
EXTENDS Naturals, Sequences

CONSTANTS
    EdgeProxy,       \* _edge_proxy
    AssertsEnabled,  \* assert() is compiled in (no NDEBUG)
    InitStates,      \* values the never-initialised _state may start with
    MaxCommands,     \* bound on the operator's commands
    MaxInputs,
    NoInput

States == {"ACTIVE", "QUIESCING_FLOWS", "QUIESCING_CONNS", "QUIESCED"}
QmInputs == {"QUIESCE", "FLOWS_GONE", "CONNS_GONE", "UNQUIESCE"}
\* Operator commands arrive on management threads of their own.
AdminThreads == {"admin1", "admin2"}
QmThreads == AdminThreads \cup {"conns"}

ASSUME QmAssumption ==
    /\ EdgeProxy \in BOOLEAN
    /\ AssertsEnabled \in BOOLEAN
    /\ InitStates # {}
    /\ MaxCommands \in Nat
    /\ MaxInputs \in Nat
    \* a command leads to at most one flows_gone and one connections_gone
    /\ MaxInputs >= 3 * MaxCommands
    /\ NoInput \notin QmInputs

VARIABLES
    q, running, fpc, inp, pushes, done,  \* the SynchronizedFSM layer
    state,          \* _state
    tracker,        \* the ConnectionTracker: "active", "quiescing", "drained"
    adminLast,      \* the operator's last command
    commands,       \* the number of commands the operator has given
    callbacks,      \* connections_gone calls the tracker has begun, not yet queued
    invalidCalled   \* invalid_input has been called

Fsm == INSTANCE SynchronizedFSM
           WITH FsmThreads <- QmThreads, Inputs <- QmInputs

qmVars == <<q, running, fpc, inp, pushes, done, state, tracker, adminLast, commands,
           callbacks, invalidCalled>>

-----------------------------------------------------------------------------
(* process_input, lines 102-200.  Each inner switch maps an input to the   *)
(* state it assigns ("same" if none), the helper functions it calls, and   *)
(* whether it calls invalid_input.                                         *)

Effect(to, calls) == [to |-> to, calls |-> calls, invalid |-> FALSE]
Nop == Effect("same", {})
Invalid == [to |-> "same", calls |-> {}, invalid |-> TRUE]

\* Lines 118-133.
ActiveSwitch ==
    [QUIESCE    |-> Effect("QUIESCING_FLOWS", {"quiesce_untrusted_interface"}),
     FLOWS_GONE |-> Nop,
     CONNS_GONE |-> Nop,
     UNQUIESCE  |-> Invalid]

\* Lines 137-157.
FlowsSwitch ==
    [QUIESCE    |-> Invalid,
     FLOWS_GONE |-> Effect("QUIESCING_CONNS", {"quiesce_connections"}),
     CONNS_GONE |-> Nop,
     UNQUIESCE  |-> Effect("ACTIVE", {"unquiesce_untrusted_interface"})]

\* Mutant: unquiescing from QUIESCING_CONNS forgets unquiesce_connections.
ConnsSwitchKeepsTracker ==
    [QUIESCE    |-> Invalid,
     FLOWS_GONE |-> Nop,
     CONNS_GONE |-> Effect("QUIESCED", {"quiesce_complete"}),
     UNQUIESCE  |-> Effect("ACTIVE", {"unquiesce_untrusted_interface"})]

\* Lines 161-182.
ConnsSwitch ==
    [QUIESCE    |-> Invalid,
     FLOWS_GONE |-> Nop,
     CONNS_GONE |-> Effect("QUIESCED", {"quiesce_complete"}),
     UNQUIESCE  |-> Effect("ACTIVE", {"unquiesce_connections",
                                      "unquiesce_untrusted_interface"})]

\* Lines 186-198.
QuiescedSwitch ==
    [QUIESCE    |-> Nop,
     FLOWS_GONE |-> Invalid,
     CONNS_GONE |-> Invalid,
     UNQUIESCE  |-> Nop]

\* The inner switches the outer switch (line 114) runs from each state: case
\* STATE_ACTIVE has no break and falls through into the next case.
SwitchesFrom(s) ==
    CASE s = "ACTIVE"          -> <<ActiveSwitch, FlowsSwitch>>
      [] s = "QUIESCING_FLOWS" -> <<FlowsSwitch>>
      [] s = "QUIESCING_CONNS" -> <<ConnsSwitch>>
      [] s = "QUIESCED"        -> <<QuiescedSwitch>>
      [] OTHER                 -> <<>>

Apply(s, e) == IF e.to = "same" THEN s ELSE e.to

\* The outcome of process_input(i) in state s: the final _state, the helpers
\* called, and whether invalid_input was called or an assert failed.  An
\* unknown state fails the assert of lines 109-112 when asserts are
\* compiled in, and matches no case without them.  With asserts compiled
\* in, the first invalid_input aborts the process before any later case runs.
Outcome(s, i) ==
    LET sw    == SwitchesFrom(s)
        e1    == sw[1][i]
        s1    == Apply(s, e1)
        e2    == sw[2][i]
        bad1  == e1.invalid /\ AssertsEnabled
    IN  CASE sw = <<>> ->
                [state |-> s, calls |-> {}, invalid |-> AssertsEnabled]
          [] sw # <<>> /\ (Len(sw) = 1 \/ bad1) ->
                [state |-> s1, calls |-> e1.calls, invalid |-> e1.invalid]
          [] OTHER ->
                [state |-> Apply(s1, e2), calls |-> e1.calls \cup e2.calls,
                 invalid |-> e1.invalid \/ e2.invalid]

\* Mutant: quiesce_untrusted_interface never reports flows_gone.
ReentrantNever(calls) == <<>>

\* quiesce_untrusted_interface (lines 213-228): off an edge proxy it calls
\* flows_gone(), a re-entrant send_input on the runner's thread.
Reentrant(calls) ==
    IF "quiesce_untrusted_interface" \in calls /\ ~EdgeProxy
    THEN <<"FLOWS_GONE">> ELSE <<>>

\* quiesce_connections (lines 231-241) and unquiesce_connections (lines
\* 248-253) switch the connection tracker.
TrackerAfter(tr, calls) ==
    CASE "quiesce_connections" \in calls   -> "quiescing"
      [] "unquiesce_connections" \in calls -> "active"
      [] OTHER                             -> tr

Halted == invalidCalled /\ AssertsEnabled

-----------------------------------------------------------------------------
QmInit ==
    /\ Fsm!FsmInit
    /\ state \in InitStates
    /\ tracker = "active"
    /\ adminLast = "UNQUIESCE"
    /\ commands = 0
    /\ callbacks = 0
    /\ invalidCalled = FALSE

\* The runner's process_input and the re-lock after it.  invalid_input
\* (lines 203-210) asserts false: with asserts compiled in the process dies.
QmProcess(t) ==
    /\ ~Halted
    /\ fpc[t] = "process"
    /\ LET o == Outcome(state, inp[t])
       IN  IF o.invalid /\ AssertsEnabled
           THEN /\ invalidCalled' = TRUE
                /\ UNCHANGED <<q, running, fpc, inp, pushes, done, state, tracker, adminLast,
                               commands, callbacks>>
           ELSE /\ Fsm!ProcessInput(t, Reentrant(o.calls))
                /\ state' = o.state
                /\ tracker' = TrackerAfter(tracker, o.calls)
                /\ invalidCalled' = (invalidCalled \/ o.invalid)
                /\ UNCHANGED <<adminLast, commands, callbacks>>

\* The operator quiesces or unquiesces the node, alternately.
AdminCommand ==
    /\ ~Halted
    /\ commands < MaxCommands
    /\ commands' = commands + 1
    /\ \E cmd \in {"QUIESCE", "UNQUIESCE"} :
          /\ adminLast # cmd
          /\ adminLast' = cmd
          /\ \E t \in AdminThreads : Fsm!SendInput(t, cmd)
    /\ UNCHANGED <<state, tracker, callbacks, invalidCalled>>

\* The connection tracker finds the last of its connections closed and
\* begins its call of connections_gone(); the call reaches send_input, and
\* the FSM's lock, only in a later step (ConnectionsGone).
TrackerDrained ==
    /\ ~Halted
    /\ tracker = "quiescing"
    /\ tracker' = "drained"
    /\ callbacks' = callbacks + 1
    /\ UNCHANGED <<q, running, fpc, inp, pushes, done, state, adminLast, commands,
                   invalidCalled>>

\* connections_gone() (quiescing_manager.h, not under src/) is
\* send_input(INPUT_CONNS_GONE) on the tracker's thread.  Nothing in the
\* input says which quiesce() it answers.
ConnectionsGone ==
    /\ ~Halted
    /\ callbacks > 0
    /\ callbacks' = callbacks - 1
    /\ Fsm!SendInput("conns", "CONNS_GONE")
    /\ UNCHANGED <<state, tracker, adminLast, commands, invalidCalled>>

QmNext ==
    \/ \E t \in QmThreads : QmProcess(t)
    \/ AdminCommand
    \/ TrackerDrained
    \/ ConnectionsGone

\* The OS schedules a thread inside process_input, the connection tracker's
\* connections close once it is quiescing, and its thread, once it has
\* begun connections_gone, gets to call send_input.
QmFairness ==
    /\ \A t \in QmThreads : WF_qmVars(QmProcess(t))
    /\ WF_qmVars(TrackerDrained)
    /\ WF_qmVars(ConnectionsGone)

QmSpec == QmInit /\ [][QmNext]_qmVars /\ QmFairness

-----------------------------------------------------------------------------
\* The state table's assertion (invalid_input, lines 203-210): an
\* environment that keeps the contract never drives the state machine into
\* an input it calls invalid.
NoInvalidInput == ~invalidCalled

\* The node is only on its way down (QUIESCING_FLOWS or QUIESCING_CONNS)
\* while the operator's last command is quiesce, or an unquiesce is still
\* queued or being processed: quiescing never starts on its own.  (QUIESCED
\* ignores unquiesce by design, lines 188-191.)
UnquiescePending ==
    \/ \E k \in 1..Len(q) : q[k] = "UNQUIESCE"
    \/ \E t \in QmThreads : inp[t] = "UNQUIESCE"

QuiescingOnlyWhenAsked ==
    state \in {"QUIESCING_FLOWS", "QUIESCING_CONNS"} =>
        adminLast = "QUIESCE" \/ UnquiescePending

\* The connection tracker is quiescing (or drained) exactly while the state
\* machine is in QUIESCING_CONNS or QUIESCED: quiesce_connections and
\* unquiesce_connections are called on the transitions in and out of those
\* states, whatever order the operator's and the tracker's inputs arrive in.
TrackerFollowsState ==
    tracker # "active" <=> state \in {"QUIESCING_CONNS", "QUIESCED"}

\* quiesce_complete is reached only when quiescing is complete: the comment
\* of quiesce_connections (lines 237-239) says connections_gone comes when
\* the tracker has closed its connections, so in QUIESCED the tracker is
\* drained.  A connections_gone begun before an unquiesce and delivered
\* after the next quiesce (line 171 cannot tell them apart) breaks it.
QuiescedOnlyWhenDrained ==
    state = "QUIESCED" => tracker = "drained"

\* Once the operator quiesces the node and does not change their mind, the
\* node reaches QUIESCED: the chain quiesce -> flows_gone -> quiesce() ->
\* connections_gone is never broken.
QuiesceCompletes ==
    [](adminLast = "QUIESCE" => <>(state = "QUIESCED" \/ adminLast = "UNQUIESCE"))

=============================================================================
