--------------------------- MODULE MCReplayCache ---------------------------
(* What a client meets that is let in, each part on a small instance: the  *)
(* replay cache on a clock that only goes forward (Admission has another),  *)
(* and the handshakes that are replayed.  A behaviour is one of the two.   *)
EXTENDS ReplayCache, Sequences

VARIABLES part, pool, warm, fetch, records, client, given, troubles

Hello == INSTANCE HandshakeCache WITH Fetches <- {"f1", "f2"}, DataMax <- 2, MaxTroubles <- 3

helloVars == <<pool, warm, fetch, records, client, given, troubles>>
allVars == <<part, vars, helloVars>>

CacheStep(A) == part = "cache" /\ A /\ UNCHANGED <<part, helloVars>>
HelloStep(A) == part = "hello" /\ A /\ UNCHANGED <<part, vars>>

MCInit ==
    /\ part \in {"cache", "hello"}
    /\ Init /\ Hello!Init
    /\ part = "hello" => now = 0 /\ ts = [t \in Tokens |-> 0]

MCNext == CacheStep(Next) \/ HelloStep(Hello!Next)

(* The fairness of HandshakeCache.                                           *)
MCFairness ==
    /\ WF_allVars(HelloStep(Hello!Begin)) /\ WF_allVars(HelloStep(Hello!End))
    /\ WF_allVars(HelloStep(Hello!SendFlight)) /\ WF_allVars(HelloStep(Hello!ReadFlight))
    /\ \A f \in {"f1", "f2"} : WF_allVars(HelloStep(Hello!Round(f)))

MCSpec == MCInit /\ [][MCNext]_allVars /\ MCFairness

-----------------------------------------------------------------------------
(* HandshakeCache: once the site is well, so is every client.                *)
ClientsAdmitted == Hello!ClientsAdmitted
=============================================================================
