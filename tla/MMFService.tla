----------------------------- MODULE MMFService -----------------------------
(***************************************************************************)
(* MMFService (src/include/mmfservice.h): the MMF configuration, a map     *)
(* from address to the flags apply_pre_as / apply_post_as, read by the     *)
(* call-processing threads through apply_mmf_pre_as / apply_mmf_post_as    *)
(* and replaced by update_config when the configuration file is reloaded.  *)
(* The readers test has_config_for_address and then call                  *)
(* get_address_config, whose std::map::at throws std::out_of_range if the  *)
(* address has gone.  The class exposes _mmf_rw_lock (get_mmf_rw_lock) but *)
(* does not take it itself: whether a caller holds it shared is the        *)
(* constant CallersLock.  update_config is not under src/: it is taken to  *)
(* replace the whole map under the exclusive lock.                         *)
(***************************************************************************)
EXTENDS Naturals

CONSTANTS
    Addresses,    \* addresses the configuration may name
    Readers,      \* call-processing threads
    CallersLock,  \* callers hold _mmf_rw_lock shared around apply_mmf_*
    MaxUpdates    \* bound on the reloads of the configuration

ASSUME MmfAssumption ==
    /\ CallersLock \in BOOLEAN
    /\ MaxUpdates \in Nat

Flags == SUBSET {"pre", "post"}
\* A configuration: the addresses it has, each with the flags set for it.
Configs == UNION {[A -> Flags] : A \in SUBSET Addresses}

VARIABLES
    cfg,      \* _mmf_config
    rpc,      \* per reader: "idle", "locked", "checked"
    req,      \* per reader: the address and the flag it asks about
    updates,  \* reloads so far
    thrown    \* a reader's at() threw std::out_of_range

mmfVars == <<cfg, rpc, req, updates, thrown>>

Requests == [addr : Addresses, flag : {"pre", "post"}]

MmfInit ==
    /\ cfg \in Configs
    /\ rpc = [r \in Readers |-> "idle"]
    /\ req \in [Readers -> Requests]
    /\ updates = 0
    /\ thrown = FALSE

SharedHolders == {r \in Readers : rpc[r] # "idle"}

\* A caller takes the shared lock (if it does) and calls apply_mmf_pre_as or
\* apply_mmf_post_as for an address.
Call(r, rq) ==
    /\ rpc[r] = "idle"
    /\ rpc' = [rpc EXCEPT ![r] = "locked"]
    /\ req' = [req EXCEPT ![r] = rq]
    /\ UNCHANGED <<cfg, updates, thrown>>

\* Mutant: the has_config_for_address test is dropped.
HasConfigAlways(r) ==
    /\ rpc[r] = "locked"
    /\ rpc' = [rpc EXCEPT ![r] = "checked"]
    /\ UNCHANGED <<cfg, req, updates, thrown>>

\* has_config_for_address (lines 42-45), the first operand of the && in
\* lines 49 and 61: when it is false the call returns false.
HasConfig(r) ==
    /\ rpc[r] = "locked"
    /\ rpc' = [rpc EXCEPT ![r] = IF req[r].addr \in DOMAIN cfg THEN "checked" ELSE "idle"]
    /\ UNCHANGED <<cfg, req, updates, thrown>>

\* get_address_config (lines 37-40) and the flag test, lines 49-56 and
\* 61-68: at() throws if the address is no longer in the map.
GetConfig(r) ==
    /\ rpc[r] = "checked"
    /\ rpc' = [rpc EXCEPT ![r] = "idle"]
    /\ thrown' = (thrown \/ req[r].addr \notin DOMAIN cfg)
    /\ UNCHANGED <<cfg, req, updates>>

\* update_config: the reload takes the lock exclusively, which waits for
\* the shared holders to leave, and swaps the map.
UpdateConfig ==
    /\ updates < MaxUpdates
    /\ CallersLock => SharedHolders = {}
    /\ \E c \in Configs : cfg' = c
    /\ updates' = updates + 1
    /\ UNCHANGED <<rpc, req, thrown>>

MmfNext ==
    \/ \E r \in Readers, rq \in Requests : Call(r, rq)
    \/ \E r \in Readers : HasConfig(r) \/ GetConfig(r)
    \/ UpdateConfig

MmfSpec == MmfInit /\ [][MmfNext]_mmfVars

-----------------------------------------------------------------------------
MmfTypeOK ==
    /\ cfg \in Configs
    /\ rpc \in [Readers -> {"idle", "locked", "checked"}]
    /\ req \in [Readers -> Requests]
    /\ updates \in 0..MaxUpdates
    /\ thrown \in BOOLEAN

\* apply_mmf_pre_as / apply_mmf_post_as never throw: the address that
\* has_config_for_address found is still in the map when
\* get_address_config reads it, even though update_config may run between
\* two calls.
NoOutOfRange == ~thrown

=============================================================================
