------------------------ MODULE MCSynchronizedFSM -------------------------
(* Three threads feeding two inputs, at most four queued in all: enough    *)
(* for a runner, a re-entrant push and two other threads queueing behind   *)
(* it while the lock is dropped.                                           *)
EXTENDS SynchronizedFSM, TLC

=============================================================================
