---------------------------- MODULE MCLiveConfig ----------------------------
(* Small instances of LiveConfig for TLC. *)
EXTENDS LiveConfig, TLC

(* Lookups of the same name are alike. *)
Symmetry == Permutations(Lookups)
=============================================================================
