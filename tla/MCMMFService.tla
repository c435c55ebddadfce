---------------------------- MODULE MCMMFService ----------------------------
(* Two call-processing threads, two addresses and a few reloads.           *)
EXTENDS MMFService, TLC

MCSymmetry == Permutations(Readers)
=============================================================================
