---------------------------- MODULE MCConnPool ----------------------------
(* Small instances of ConnPool for TLC.                                    *)
EXTENDS ConnPool, TLC

\* Requesters are interchangeable, and so are probers, where only safety is asked.
Symmetry == Permutations(Requesters) \cup Permutations(Probers)
=============================================================================
