------------------------- MODULE MCAuthentication --------------------------
(* Small instance of Authentication for TLC: one subscriber, an attacker,  *)
(* two worker threads and three nonces (so two challenges can be           *)
(* outstanding while a third is being minted).                            *)
EXTENDS Authentication, TLC

MCImpuOf == [s \in Subs |-> "sip:alice"]
MCDefaultPrivateId == [u \in Impus |-> CHOOSE s \in Subs : TRUE]

\* Nonces are interchangeable: nothing in the model tells two of them apart.
MCSymmetry == Permutations(Nonces) \cup Permutations(Threads)
=============================================================================
