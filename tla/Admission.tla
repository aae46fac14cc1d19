----------------------------- MODULE Admission -----------------------------
(***************************************************************************)
(* The replay cache of the server on the clock that TimeSync corrects while *)
(* the server runs (mirage/core/hello_auth.py _now, server.py main): what   *)
(* ReplayCache takes for granted, a clock that never goes back, does not    *)
(* hold here.                                                              *)
(***************************************************************************)
EXTENDS TimeSync

CONSTANTS Tokens, Tolerance, MaxSize, MaxTime

VARIABLES ts, buckets, totalCount, accepted, again, skipped,
          unsettled   \* tokens accepted before the corrected clock was set back

cacheVars == <<ts, buckets, totalCount, accepted, again, skipped>>
admissionVars == <<timeVars, cacheVars, unsettled>>

Cache == INSTANCE ReplayCache WITH now <- Corrected

AdmissionInit == Init /\ Cache!Init /\ unsettled = {}

ClockStep ==
    /\ Next
    /\ unsettled' = IF Corrected' < Corrected THEN accepted ELSE unsettled
    /\ UNCHANGED cacheVars

CacheStep ==
    /\ UNCHANGED <<timeVars, unsettled>>
    /\ \E t \in Tokens : Cache!RejectReplay(t) \/ Cache!Accept(t)

AdmissionNext == ClockStep \/ CacheStep
AdmissionSpec == AdmissionInit /\ [][AdmissionNext]_admissionVars

-----------------------------------------------------------------------------
(* A token is accepted twice only if it came while the cache was full, or if *)
(* the corrected clock went back after its first time: a step forward, which *)
(* drops whole buckets at once, never does it (hello_auth.py:127-152).       *)
AcceptedOnceUnlessSetBack == again \subseteq skipped \cup unsettled
=============================================================================
