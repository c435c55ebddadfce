# Formal models of sprout's authentication and quiescing code

This directory holds TLA+ models of the code under `src/`, the TLC configurations that model-check them, and TLAPS proofs about them. Each model is translated from the source. `PROJECT.json` lists, for every definition, the source lines it models.

## 1. The system

| Part | Source | What it does |
|---|---|---|
| mod_auth | `src/sprout/authentication.cpp` | A pjsip module below the transaction layer. It authenticates REGISTERs. |
| AV store | `avstore.h` (not under `src/`) | A keyed cache `(impi, nonce) -> AV`, with TTL expiry. |
| HSS connection | `hssconnection.h` (not under `src/`) | Returns an Authentication Vector: Digest (ha1) or AKA (RAND, XRES, CK, IK). |
| SynchronizedFSM | `src/sprout/quiescing_manager.cpp:46-89` | A re-entrant single-runner dispatcher: `send_input`. It promises a FIFO work queue drained by one worker at a time (spec section 9). |
| QuiescingManager | `src/sprout/quiescing_manager.cpp:92-263` | The shutdown-drain state machine. It runs on top of SynchronizedFSM. |
| MMFService | `src/include/mmfservice.h` | A map from address to MMF flags. Call-processing threads read it, and a reload replaces it. |

How the parts interact:

- Several pjsip worker threads run `authenticate_rx_request` concurrently. They share the AV store and nothing else.
- A REGISTER takes one of these paths:
  - It bypasses authentication when it carries a trusted `integrity-protected` value (lines 288-303).
  - Otherwise, if it carries a response, `pjsip_auth_srv_verify` checks it through `user_lookup` (lines 107-150). `user_lookup` reads the AV stored under `(username, nonce)`.
  - If it carries no response, a challenge is built (`create_challenge`, lines 153-270). This path:
    1. scans the Authorization header for an AUTN resync token (lines 180-191) and calls the HSS with it (the only blocking call);
    2. mints a nonce (Digest) or uses the AKA RAND (AKA);
    3. writes the AV to the store;
    4. then sends the 401 (line 396).
  - A failed verification is answered statelessly at line 413 with the `sc` that `pjsip_auth_srv_verify` (line 315) set: 403 Forbidden, whether `user_lookup` found no AV or the digest was wrong.
- Quiescing is driven by operator commands and by callbacks, which reach the manager through `send_input`:
  - the operator's `quiesce` and `unquiesce`;
  - `flows_gone`, which the manager calls on itself (re-entrantly) off an edge proxy;
  - the connection tracker's `connections_gone`.
- The thread that finds `_running` false becomes the runner. It drains the queue, dropping the lock around each `process_input`.

Hard behaviours in this code:

- interleaved challenges for the same subscriber across the HSS round trip;
- duplicated, replayed, lost and spliced REGISTERs;
- AV expiry racing a late answer;
- the lock dropped around a callback that may re-enter;
- a `switch` case with no `break`;
- an uninitialised state variable;
- a check-then-act on a map that a reload replaces.

## 2. Modules

| Module | Models | State | Actions |
|---|---|---|---|
| `Authentication` | mod_auth, AV store, clients, attacker | `net` (the set of REGISTERs ever sent), `rsp` (responses sent), `store`, the per-thread `pc`/`cur`/`out`, `minted`, `evicted`, and the history variables `passed`, `verifyCount` and `refused` (the requests verification refused, each with whether its AV had expired) | `Receive` (the bypass, success, failure and challenge-start branches), `HssAnswer`, `SendChallenge`, `Expire`, plus the environment: `ClientRegister`, `EdgeRegister`, `ClientAnswer`, `AttackerSend` |
| `SynchronizedFSM` | `send_input` | `q`, `running`, the per-thread `fpc`/`inp`, and the history variables `pushes` and `done` | `SendInput`, `ProcessInput(t, pushed)`, `Quiet` |
| `Dispatcher` | the abstract FIFO work queue SynchronizedFSM promises | `pending`, `pushes`, `done` | `Give(i)`, `Process(pushed)` |
| `QuiescingManager` | `process_input` over `INSTANCE SynchronizedFSM` | the layer below, plus `state`, `tracker`, `adminLast`, `commands`, `callbacks` (`connections_gone` calls begun and not yet queued), `invalidCalled` | `QmProcess`, `AdminCommand`, `TrackerDrained`, `ConnectionsGone` |
| `ResyncToken` | the AUTN scan of `create_challenge` (lines 180-195) | `hdr` (the Authorization header, or none), the loop pointer `p`, `autn`, `pc`, `hssAutn` (the token passed to the HSS) | `ScanParam` (one turn of the loop), `GetAuthVector` |
| `ResyncRequest` | the abstract promise of ChallengeBuilder about the resync token (spec section 2 and 4.3 steps 2-3): CredentialSource is called once, with one resync parameter's value verbatim or the empty token | `hdr`, `pc`, `hssAutn` | `AskCredentialSource` |
| `MMFService` | the MMF map and its readers | `cfg`, the per-reader `rpc`/`req`, `updates`, `thrown` | `Call`, `HasConfig`, `GetConfig`, `UpdateConfig` |
| `AuthenticationProofs`, `SynchronizedFSMProofs`, `QuiescingManagerProofs`, `MMFServiceProofs`, `ResyncTokenProofs` | TLAPS proofs | | |
| `MC*` | TLC instances: model values and symmetry | | |

### How the models correspond to the code

#### Authentication

- **Network.** The network is a set, so any request can be received any number of times (duplication, retransmission, replay) or never (loss).
- **Data.** Data is abstracted to what authentication depends on:
  - A digest response is the pair `[sec, nonce]`: the secret it was computed from, and the nonce.
  - A Digest AV's secret is the subscriber's ha1.
  - An AKA AV's secret is XRES: it depends on the subscriber and the RAND.
  - `VerifyOK` recomputes the response from the looked-up AV and the header's nonce, as `pjsip_auth_verify` does.
- **The HSS call.** This is the one suspension point. A thread is `idle`, then `hss` (`StartChallenge`), then `send` (`HssAnswer` builds the 403 or the 401 and does `set_av`), then `idle` again (`SendChallenge`).
- **Create_response failure.** `StartChallenge` may instead answer 500 (lines 381-392).
- **A failed verification.** `sc` is an out-parameter of `pjsip_auth_srv_verify` (line 315). pjsip is not under `src/`: the model takes its documented behaviour, which sets `sc` to 403 when the credential lookup or the digest check fails. So `VerifyFailure` sends a 403 with no challenge, and records in `refused` whether the AV the answer names had expired. A wrong digest getting 403 is what spec section 7 asks for. A stale answer getting 403 is the finding of `auth_stale_answer_refused`.
- **Attacker.** The attacker knows no secret. It can:
  - ask for challenges for any public identity;
  - guess a response (`Forged`);
  - splice a response it saw onto any nonce it saw.
- **Counters.** `verifyCount` counts successful verifications per key, capped at `CountCap = 2`.

#### SynchronizedFSM

- Every section of the code that runs under `_lock` is one step.
- The return from `process_input` is joined to the re-lock that follows it. This loses no interleaving: other threads only ever append to the queue while the lock is free.
- `ProcessInput(t, pushed)` takes the inputs the callback queued re-entrantly. `QuiescingManager` supplies the real ones.
- `DispatcherRefined` instantiates `Dispatcher` with the refinement mapping `pending <- PendingBar`: the runner's current input in front of the queue, or the queue alone when nobody runs. `SendInput` is a `Give`. `ProcessInput` is a `Process`, whose re-entrant pushes go behind the inputs already waiting.

#### QuiescingManager

- Each inner `switch` is a record from input to its effect: the new state, the helpers called, and whether `invalid_input` is called.
- `SwitchesFrom(ACTIVE)` runs two switches: the ACTIVE one, then the QUIESCING_FLOWS one, because the case has no `break` (line 133).
- `AssertsEnabled` chooses the build:
  - with asserts, the first `invalid_input` kills the process (`Halted`);
  - with NDEBUG, `invalid_input` only logs.
- The helpers' effects are modelled as follows:
  - `quiesce_untrusted_interface` pushes `FLOWS_GONE` re-entrantly off an edge proxy, and does nothing on one (TODO in the code).
  - `quiesce_connections` and `unquiesce_connections` switch the tracker.
- The environment keeps the contract that the state table implies:
  - The operator alternates quiesce and unquiesce, starting with quiesce. Its commands arrive on two management threads.
  - The tracker reports `connections_gone` once per `quiesce()`, in two steps. `TrackerDrained`: its last connection closes and it begins the call. `ConnectionsGone`: its thread reaches `send_input`. Between the two, the operator may unquiesce and quiesce again. Nothing under `src/` withdraws a call already begun.
- `_state` is never initialised by the constructor (lines 92-97). `InitStates` is the set of values it may start with. A value outside the four states matches no case. With asserts it fails the assert at line 109.

#### ResyncToken

- The header's `other_param` list is a sequence; the loop pointer is an index, and the sentinel is index `Len + 1`.
- Parameter names are model values. `Fold` maps a name to its lower-case form, which is what `pj_stricmp` compares. The instance has the names `autn`, `AUTN` and `ck`.
- `hdr` ranges over every header with up to `MaxParams` parameters, and over no header.
- `ResyncRefinesRequest` maps the scan onto `ResyncRequest` by `INSTANCE ResyncRequest WITH Forwardable <- ForwardableTokens`. `hdr`, `pc` and `hssAutn` map to themselves. `ForwardableTokens(h)` is the value of any AUTN parameter (names compared ignoring case), or `{Empty}` if the header has none. The abstract spec leaves open which parameter wins when several disagree.

#### MMFService

- `CallersLock` says whether callers hold `_mmf_rw_lock` shared around `apply_mmf_*`.
- `update_config` (not under `src/`) replaces the map under the exclusive lock.

## 3. Runs

| Run | Config | Checks | Result |
|---|---|---|---|
| auth_safety | `MCAuthentication.cfg` | `TypeOK`, `Authenticity`, `ChallengeAnswerable` | passes: 2,688,945 distinct states in about 2 minutes |
| auth_no_replay | `MCAuthentication_NoReplay.cfg` | `NoReplay` (spec P1) | violated: a replayed verified REGISTER verifies again (`get_av` never deletes) |
| auth_stale_answer_refused | `MCAuthentication_StaleAnswerRechallenged.cfg` | `StaleAnswerRechallenged` (spec 4.1, comment at line 378) | violated in 8 steps: alice is challenged, the store expires the AV, alice answers, and `user_lookup` finds nothing, so she gets a final 403 and no new challenge |
| fsm_runner | `MCSynchronizedFSM.cfg` | `FsmTypeOK`, `MutualExclusion`, `NoStrandedInput`, `AllInputsProcessed`, `DispatcherRefined` | passes: 348 distinct states; `send_input` implements the FIFO dispatcher, its fairness included |
| qm_drain | `MCQuiescingManager.cfg` | `TrackerFollowsState`, `QuiesceCompletes` | passes (NDEBUG, not an edge proxy) |
| qm_fallthrough_requiesce | `MCQuiescingManager_QuiescingOnlyWhenAsked.cfg` | `QuiescingOnlyWhenAsked` | violated in 5 steps: quiesce; unquiesce queued ahead of the re-entrant `flows_gone`; `flows_gone` in ACTIVE falls through to QUIESCING_CONNS |
| qm_edge_never_quiesced | `MCQuiescingManager_QuiesceCompletes.cfg` | `QuiesceCompletes` | violated: on an edge proxy nothing reports `flows_gone` |
| qm_stale_conns_gone | `MCQuiescingManager_QuiescedOnlyWhenDrained.cfg` | `QuiescedOnlyWhenDrained` | violated: quiesce; unquiesce; quiesce queued; the tracker begins `connections_gone`; the unquiesce switches it back to active; the new quiesce reaches QUIESCING_CONNS; the stale `connections_gone` declares QUIESCED with the tracker quiescing |
| resync_forwarded | `MCResyncToken.cfg` | `ResyncForwarded`, `ResyncRefinesRequest` (refinement of `ResyncRequest`, fairness included) | passes: 1,246 distinct states, every header of up to 3 parameters |
| resync_first_match | `MCResyncToken_FirstMatch.cfg` | `ResyncFirstMatchWins` (spec 4.3 step 2) | violated: with two AUTN parameters the loop, which has no `break`, forwards the last |
| mmf_locked | `MCMMFService.cfg` | `NoOutOfRange` | passes when callers hold the shared lock |
| mmf_unlocked | `MCMMFService_NoOutOfRange.cfg` | `NoOutOfRange` | violated: a reload between the check and `at()` throws |

Two more consequences of the code are shown by TLC but kept out of the run list, since each follows at once from a finding above:

- With asserts compiled in (`AssertsEnabled = TRUE`), the first quiesce falls through into case STATE_QUIESCING_FLOWS, where QUIESCE is invalid, and `invalid_input` aborts the process (`NoInvalidInput` fails as soon as the first quiesce is processed).
- With `InitStates` holding a value outside the four states, no input matches a case and `QuiesceCompletes` fails: the constructor never initialises `_state` (lines 92-97).

The fall-through violations disappear when the `break` is restored (`SwitchesFrom("ACTIVE") = <<ActiveSwitch>>`). `QuiescingOnlyWhenAsked` and `NoInvalidInput` then hold on the same instance. So the violations are due to the fall-through alone.

Every property of a passing run has a mutant in `PROJECT.json`: a plausible bug in one mapped definition that TLC catches. Examples:

- the verifier not binding the response to the header's nonce;
- the drain loop stopping one input early;
- unquiesce forgetting `unquiesce_connections`;
- the drain loop putting re-entrant pushes in front of the queue (breaks `DispatcherRefined`);
- the AUTN name compared case-sensitively (breaks `ResyncForwarded`);
- `p = p->next` moved inside the `if` of the resync loop, so the loop never passes a parameter of another name (breaks the fairness part of `ResyncRefinesRequest`).

### Bounds, and why they are enough

**Authentication**

- The instance is one subscriber, two threads, two nonces and at most 4 distinct requests on the network, with symmetry on nonces and threads.
- Two threads are enough for two challenges of the same subscriber to be in flight at once across the HSS round trip.
- Two nonces give two live AVs for one impi, which is what a splice or a cross-nonce mix-up needs.
- Four requests are enough for the following sequences:
  - initial REGISTER, answer, replay or splice;
  - two initial REGISTERs and an answer.

**SynchronizedFSM**

- The instance is three threads, two inputs and 5 inputs queued in total.
- This is enough for a runner, a concurrent queuer and a re-entrant push to be active in the same drain.

**QuiescingManager**

- The operator gives at most 4 commands: two full quiesce/unquiesce cycles.
- `MaxInputs = 12` is three inputs per command. A command leads to at most one `flows_gone` and one `connections_gone`, so the bound never blocks an input the code would send (`QmAssumption`).

- The stale `connections_gone` needs three commands: quiesce, unquiesce, quiesce. The run gives three.

**MMFService**

- The instance is two readers, two addresses and three reloads.

**ResyncToken**

- The instance has up to three parameters, three names (two spellings of AUTN and one other) and two values.
- That covers no header, no AUTN parameter, an AUTN parameter in either case and in any position, and two AUTN parameters with equal or different tokens.

### Fairness

- `FsmFairness` / `QmFairness` put weak fairness on each thread's step inside `process_input`: the OS keeps scheduling a runnable thread.
- `QmFairness` also puts weak fairness on `TrackerDrained` and `ConnectionsGone`: the connection tracker promises to call `connections_gone` once its connections close, and its thread, once in the call, gets to run.
- `ResyncToken` has weak fairness on its one thread, so the scan reaches the HSS call.
- `Dispatcher` promises weak fairness of `Process`. `DispatcherRefined` checks it against `FsmFairness`.
- Senders and the operator get no fairness.
- Authentication has no liveness property, so it has no fairness.

## 4. What is proved

The proofs are checked by `tlapm` and hold for every value of the constants that satisfies the named assumptions.

- **`AuthenticationProofs!TypeCorrect`: `Spec => []TypeOK`.**
  - It assumes `ConstAssumption`.
  - `TypeOK` as the code's types alone is not inductive: `HssAnswer` and `SendChallenge` read `cur[t]` and `out[t]`.
  - So `TypeOK` includes `ThreadState`: a thread in `hss` or `send` holds a request, and one in `send` holds a response.
  - The proof has one step per action. `HssAnswer` is split on the 403 and 401 outcomes.
- **`SynchronizedFSMProofs!FsmSafety`: `FsmSpec => [](MutualExclusion /\ NoStrandedInput)`.**
  - It assumes `FsmAssumption`.
  - The inductive invariant is `FsmTypeOK /\ MutualExclusion /\ NoStrandedInput`.
  - The key fact: a thread that finds `_running` false also finds the queue empty and nobody processing. This is because `_running` is tested and cleared under the same lock as the queue.
  - The proof uses the lemmas `SendInputInv` and `ProcessInputInv`.
- **`AuthenticationProofs!AuthenticitySafe`: `Spec => []Authenticity`.**
  - It assumes `ConstAssumption` and `ResponseValues`. `ResponseValues` says that `None` (an absent field) and `Forged` (the attacker's guess) are not digest responses.
  - `Authenticity` alone is not inductive. A verification step looks up the AV for the request's nonce, so the proof needs to know where stored AVs and responses on the network came from.
  - The inductive invariant `AuthInv` strengthens it with three facts:
    - `StoreBound`: the AV stored under `<<impi, nonce>>` belongs to that impi.
    - `ResponseOrigin`: any digest response on the network was first sent by its own subscriber with its own nonce. The attacker can only copy a response, and a copy keeps the response's origin.
    - `AnswerChallenged`: a subscriber answers only a nonce it was sent in a 401.
  - `VerifySuccess` is the only step that extends the set of verified passes. In the lemma `VerifyStep`, the looked-up AV ties the response to the nonce, `ResponseOrigin` gives the subscriber's own message, and `AnswerChallenged` gives its challenge.
  - The other steps either leave `net`, `store` and `passed` alone (lemma `QuietStep`) or add one message whose origin is shown case by case (lemma `SendStep`).
  - The inductive invariant was checked by TLC on the `auth_safety` instance before it was proved.

- **`AuthenticationProofs!ChallengeAnswerableSafe`: `Spec => []ChallengeAnswerable`.**
  - It assumes `ConstAssumption`, `DefaultConsistent` (a subscriber without a username is named by `default_private_id_from_uri` of its own public identity) and `NoneIsNoVector` (an empty store slot is not an AV).
  - `ChallengeAnswerable` is not inductive. `HssAnswer` overwrites one store entry, and a challenge becomes visible only when `SendChallenge` moves it out of the thread.
  - The inductive invariant `AnsInv` adds:
    - `NoncesMinted`: every store key, every sent challenge and every pending challenge uses a nonce already minted. So the fresh key `HssAnswer` writes is no key any challenge uses.
    - `OwnImpi`: every subscriber's REGISTER names its own impi, and a thread inside `create_challenge` holds a request from the network. So the AV is stored under the impi of the subscriber the 401 goes to.
    - `PendingAnswerable`: a challenge built but not yet sent is already answerable. This is the `set_av` before send ordering (lines 259 and 396).
  - The lemma `VectorAnswerable` shows that the algorithm tag and nonce in the challenge make the UA compute exactly the AV's secret, for AKA and Digest.
  - `AnsInv` was checked by TLC on the `auth_safety` instance (2,639,035 states) before it was proved.
- **`SynchronizedFSMProofs!FsmTypeCorrect` and `NoStrandedInputSafe`.** Both follow from the same inductive invariant as `FsmSafety`.
- **`SynchronizedFSMProofs!FsmRefinesDispatcher`: `FsmSpec => Disp!DispInit /\ [][Disp!DispNext]_Disp!dispVars`.**
  - This is the safety part of `DispatcherRefined`.
  - Under `PendingBar`, `SendInput` is `Give`. When the FSM is idle, the new input becomes the runner's, which is the head of `PendingBar`.
  - `ProcessInput` is `Process`: dropping the runner's input is `Tail`, and the pushes are appended (`ConcatAssociative` from SequenceTheorems).
  - The lemmas `PendingOfRunner` and `PendingIdle` compute `PendingBar` from `FsmInv`.
- **`MMFServiceProofs!LockedNoOutOfRange`: `CallersLock => (MmfSpec => []NoOutOfRange)`.**
  - The inductive invariant `CheckedInMap` says that a reader past `has_config_for_address` asks about an address the map still has.
  - `UpdateConfig` waits until no reader holds the shared lock. So no reader is between the check and `at()` when the map changes.
- **`QuiescingManagerProofs!TrackerFollowsSafe`: `InitStates \cap {QUIESCING_CONNS, QUIESCED} = {} => (QmSpec => []TrackerFollowsState)`.**
  - It holds for every `EdgeProxy`, `AssertsEnabled` and bound.
  - The lemma `OutcomeFollows` checks every row of `process_input`'s table, the fall-through of ACTIVE and an unknown `_state` included. A row entering QUIESCING_CONNS calls `quiesce_connections`, a row leaving it calls `unquiesce_connections`, and no row leaves QUIESCED.
  - The inductive invariant adds only that a thread inside `process_input` holds one of the four inputs. The lemmas `SendInputType` and `ProcessInputType` show this for the FSM layer.
  - The hypothesis on `InitStates` is needed: `_state` is uninitialised, and a start in QUIESCED with the tracker active breaks the property at once.
  - Writing the proof showed that the `CASE` of `Outcome` had overlapping guards for an unknown `_state`. TLC takes the first true guard, but the formula meant `CHOOSE`. The guards are now exclusive.

- **`ResyncTokenProofs!ResyncForwardedSafe`: `Spec => []ResyncForwarded`.** It holds for every set of names, every case folding `Fold` and every `MaxParams`.
  - The loop's result is a fold over the parameter list. It is proved without induction over lists, by a loop invariant `ScanInv` over the states the loop passes through.
  - `Scanned` is the set of AUTN parameters below the pointer `p`.
  - `PointerInRange`: `p` is in `1..Len + 1`, and is 1 with no header.
  - `AutnIsLastScanned`: `autn` is `Empty` if `Scanned` is empty, and otherwise the value of `Scanned`'s largest index.
  - `ScannedHasFirst`: `Scanned` has a least element. This is what gives `FirstAutn`'s `CHOOSE` a witness. The least-number theorem of `NaturalsInduction` takes an operator parameter, which the provers cannot instantiate, so the invariant carries the least element instead.
  - At "done", `hssAutn = autn`.
  - `ScanInv` was checked by TLC on the `resync_forwarded` instance (1,246 states) before it was proved.
  - At the sentinel, `Scanned` is all of `Matches(hdr)` (lemma `DoneScannedAll`). When all matches carry one value, the last and the first agree.
- **`ResyncTokenProofs!LastMatchForwarded`.** It proves, for every header, what the `resync_first_match` violation shows on a small instance: the HSS is given the value of the *last* AUTN parameter. It follows from the same invariant.
- **`QuiescingManagerProofs!QmFsmSafety`: `QmSpec => [](Fsm!MutualExclusion /\ Fsm!NoStrandedInput)`.** This is composition by refinement.
  - The lemma `QmStepIsFsmStep` shows that every step of the quiescing manager is a step of `SynchronizedFSM`'s next-state relation, or a stutter, on the FSM layer's variables:
    - the operator's commands and `connections_gone` are `SendInput`;
    - the real `process_input` returns with nothing pushed, or with the one re-entrant `flows_gone`, which is in `ReentrantPushes`;
    - the assert's halt and the tracker's own step leave the layer alone.
  - `QmInit` starts the layer as `FsmInit` does.
  - The lemmas `InitInv` and `InvStep` of `SynchronizedFSMProofs` are then used through `INSTANCE SynchronizedFSMProofs WITH FsmThreads <- QmThreads, Inputs <- QmInputs`. `FsmAssumption` is discharged from `QmAssumption`.
  - So the single-runner and no-stranded-input guarantees hold with the real `process_input` and its real callers, for every bound.

- **`ResyncTokenProofs!ScanRefinesRequest`: `Spec => Req!ReqInit /\ [][Req!AskCredentialSource]_Req!reqVars`.** This is the safety part of `ResyncRefinesRequest`, proved step by step.
  - Initial states map to `ReqInit`.
  - `ScanParam` leaves `hdr`, `pc` and `hssAutn` alone, so it maps to a stutter.
  - `GetAuthVector` maps to `AskCredentialSource`. The lemma `AutnForwardable` shows that at the sentinel, `autn` is in `ForwardableTokens(hdr)`. It uses `ScanInv` and `SentinelScannedAll` (at the sentinel, every AUTN parameter has been passed).
- **`QuiescingManagerProofs!QmRefinesDispatcher`: `QmSpec => Disp!DispInit /\ [][Disp!DispNext]_Disp!dispVars`.** The dispatcher here is the `Disp` of the instance `FsmP`.
  - With the real `process_input` and its callers, the FSM layer implements the FIFO dispatcher.
  - It composes `QmStepIsFsmStep` with the lemmas `DispInitMapped` and `DispStepMapped` of `SynchronizedFSMProofs`. These are the initial-state and step halves of `FsmRefinesDispatcher`.

## 5. What is left to TLC

The following are left to TLC and outside what TLAPS can prove here:

- liveness (`AllInputsProcessed`, `QuiesceCompletes`) and anything with `ENABLED`;
- induction over data;
- `RECURSIVE` operators. None are used in the proved modules.

Also left to TLC: the fairness parts of `DispatcherRefined` and `ResyncRefinesRequest` (that the drain loop and the scan loop each end). Both are liveness.

Every safety invariant and the action property of the passing runs are proved. The two liveness properties are left to TLC.

## 6. What is not modelled, and why

- **Non-REGISTER requests.** They return at line 277 before any state change. For this reason, the ACK and CANCEL branches (lines 359-375) are unreachable for requests that get that far.
- **SAS markers and analytics.** These are reporting only.
- **`init_authentication` and `destroy_authentication`.** These are one-shot wiring.
- **The AV store and HSS internals.** They are not under `src/`. The store is a function, its expiry is an action, and the HSS is a nondeterministic answer.
- **The QuiescingManager constructor's syntax.** It lacks a comma between its initialisers. Its semantics, the uninitialised `_state`, is `InitStates`.
- **The connection tracker's internals.** Only its two steps towards `connections_gone` are modelled.
- **`STR_AUTN`.** Its literal is defined outside `src/`. The model takes it as the constant `StrAutn`. Spec P6 names the parameter `auts`.
