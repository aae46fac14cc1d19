------------------------------- MODULE Stream -------------------------------
(***************************************************************************)
(* What a relay promises to the two applications it connects: in each      *)
(* direction the receiver gets what the sender wrote, in order, each piece *)
(* once; it sees the end only after the last piece, unless the connection  *)
(* was broken on the way, and then it sees a shorter stream, never another *)
(* one.                                                                    *)
(***************************************************************************)
EXTENDS Naturals, Sequences

CONSTANT Dirs

VARIABLES written,  \* pieces the sender has written: 1, 2, ..., written[d]
          fin,      \* the sender has written its last piece
          got,      \* what the receiver has read
          ended,    \* the receiver sees the end
          broken    \* an end, the path, or the patience of the relay is gone

streamVars == <<written, fin, got, ended, broken>>

Init ==
    /\ written = [d \in Dirs |-> 0]
    /\ fin = [d \in Dirs |-> FALSE]
    /\ got = [d \in Dirs |-> <<>>]
    /\ ended = [d \in Dirs |-> FALSE]
    /\ broken = FALSE

Write(d) ==
    /\ ~fin[d]
    /\ written' = [written EXCEPT ![d] = @ + 1]
    /\ UNCHANGED <<fin, got, ended, broken>>

Finish(d) ==
    /\ fin' = [fin EXCEPT ![d] = TRUE]
    /\ UNCHANGED <<written, got, ended, broken>>

Deliver(d) ==
    /\ Len(got[d]) < written[d] /\ ~ended[d]
    /\ got' = [got EXCEPT ![d] = Append(@, Len(@) + 1)]
    /\ UNCHANGED <<written, fin, ended, broken>>

End(d) ==
    /\ broken \/ (fin[d] /\ Len(got[d]) = written[d])
    /\ ended' = [ended EXCEPT ![d] = TRUE]
    /\ UNCHANGED <<written, fin, got, broken>>

Break ==
    /\ broken' = TRUE
    /\ UNCHANGED <<written, fin, got, ended>>

Next == (\E d \in Dirs : Write(d) \/ Finish(d) \/ Deliver(d) \/ End(d)) \/ Break

Spec == Init /\ [][Next]_streamVars
=============================================================================
