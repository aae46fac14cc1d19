--------------------------- MODULE MCDnsPipeline ---------------------------
(* Small instances of DnsPipeline for TLC. *)
EXTENDS DnsPipeline, TLC

(* Queries are alike, and so are tunnels. *)
Symmetry == Permutations(Queries) \cup Permutations(Tunnels)
=============================================================================
