---------------------------- MODULE MCServerConn ----------------------------
(* Small instances of ServerConn for TLC. *)
EXTENDS ServerConn, TLC

(* No definition tells two connections, or two addresses, apart. *)
Symmetry == Permutations(Conns) \cup Permutations(Ips)
=============================================================================
