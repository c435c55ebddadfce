--------------------------- MODULE MMFServiceProofs ---------------------------
(***************************************************************************)
(* Proofs about MMFService: when callers hold _mmf_rw_lock shared around   *)
(* apply_mmf_pre_as / apply_mmf_post_as, get_address_config never throws, *)
(* for any addresses, threads and number of reloads.  The inductive        *)
(* invariant says that a reader past has_config_for_address asks about an *)
(* address the map still has: only a reload could remove it, and a reload *)
(* waits for the shared holders.                                           *)
(***************************************************************************)
EXTENDS MMFService, TLAPS

USE MmfAssumption

\* A reader between the two calls of line 49 (or 61) asks about an address
\* the configuration has.
CheckedInMap ==
    \A r \in Readers : rpc[r] = "checked" => req[r].addr \in DOMAIN cfg

MmfInv == MmfTypeOK /\ CheckedInMap /\ NoOutOfRange

LEMMA MmfInitInv == MmfInit => MmfInv
<1> SUFFICES ASSUME MmfInit PROVE MmfInv
  OBVIOUS
<1>1. thrown = FALSE /\ updates = 0
  BY DEF MmfInit
<1>2. thrown \in BOOLEAN
  BY <1>1, Zenon
<1>3. cfg \in Configs /\ req \in [Readers -> Requests] /\ updates \in 0..MaxUpdates
  BY <1>1 DEF MmfInit
<1>4. rpc \in [Readers -> {"idle", "locked", "checked"}] /\ CheckedInMap
  BY DEF MmfInit, CheckedInMap
<1>5. QED
  BY <1>1, <1>2, <1>3, <1>4 DEF MmfInv, MmfTypeOK, NoOutOfRange

LEMMA MmfStep == CallersLock /\ MmfInv /\ [MmfNext]_mmfVars => MmfInv'
<1> SUFFICES ASSUME CallersLock, MmfInv, [MmfNext]_mmfVars PROVE MmfInv'
  OBVIOUS
<1>1. ASSUME NEW r \in Readers, NEW rq \in Requests, Call(r, rq) PROVE MmfInv'
  BY <1>1 DEF Call, MmfInv, MmfTypeOK, CheckedInMap, NoOutOfRange
<1>2. ASSUME NEW r \in Readers, HasConfig(r) PROVE MmfInv'
  BY <1>2 DEF HasConfig, MmfInv, MmfTypeOK, CheckedInMap, NoOutOfRange
<1>3. ASSUME NEW r \in Readers, GetConfig(r) PROVE MmfInv'
  <2>1. req[r].addr \in DOMAIN cfg
    BY <1>3 DEF GetConfig, MmfInv, CheckedInMap
  <2>2. thrown' = FALSE
    BY <1>3, <2>1 DEF GetConfig, MmfInv, NoOutOfRange
  <2>3. QED
    BY <1>3, <2>2 DEF GetConfig, MmfInv, MmfTypeOK, CheckedInMap, NoOutOfRange
<1>4. CASE UpdateConfig
  <2>1. \A r \in Readers : rpc[r] # "checked"
    BY <1>4 DEF UpdateConfig, SharedHolders
  <2>2. QED
    BY <1>4, <2>1 DEF UpdateConfig, MmfInv, MmfTypeOK, CheckedInMap, NoOutOfRange
<1>5. CASE UNCHANGED mmfVars
  BY <1>5 DEF mmfVars, MmfInv, MmfTypeOK, CheckedInMap, NoOutOfRange
<1>6. QED
  BY <1>1, <1>2, <1>3, <1>4, <1>5 DEF MmfNext

\* With callers holding the shared lock, apply_mmf_pre_as and
\* apply_mmf_post_as never make map::at throw, whatever reloads happen.
THEOREM LockedNoOutOfRange == CallersLock => (MmfSpec => []NoOutOfRange)
<1> SUFFICES ASSUME CallersLock PROVE MmfSpec => []NoOutOfRange
  OBVIOUS
<1>1. MmfInv => NoOutOfRange
  BY DEF MmfInv
<1>2. QED
  BY <1>1, MmfInitInv, MmfStep, PTL DEF MmfSpec
=============================================================================
