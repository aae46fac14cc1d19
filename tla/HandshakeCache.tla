--------------------------- MODULE HandshakeCache ---------------------------
(***************************************************************************)
(* The handshakes of the camouflage site that the server replays            *)
(* (mirage/core/handshake_cache.py), from the fetch to the client that      *)
(* takes one for its own (mirage/core/camouflage.py, and the check in       *)
(* mirage/core/conn_pool.py).                                              *)
(*                                                                         *)
(* A flight is the row of its records, by type: "sh" ServerHello, "ccs",    *)
(* "data" for the encrypted ones.                                          *)
(***************************************************************************)
EXTENDS Naturals, Sequences, SequencesExt

CONSTANTS Fetches,    \* one round fetches as many at once
          DataMax,    \* encrypted records after which a fetch stops
          MaxTroubles \* bound on stalls and failures of the site

VARIABLES pool,       \* _pool
          warm,       \* the first fill: "no", "yes", "failed"
          fetch,      \* fetch -> "idle", "read", "done"
          records,    \* what each has read
          client,     \* the client's build: "none", "tail", "admitted", "failed"
          given,      \* the flight it was sent
          troubles

vars == <<pool, warm, fetch, records, client, given, troubles>>

Init ==
    /\ pool = {} /\ warm = "no"
    /\ fetch = [f \in Fetches |-> "idle"] /\ records = [f \in Fetches |-> <<>>]
    /\ client = "none" /\ given = <<>> /\ troubles = 0

Data(r) == Len(SelectSeq(r, LAMBDA t : t = "data"))

(* warmup, and each turn of _auto_refresh_loop; none follows a warm-up that   *)
(* got nothing.                                                              *)
Begin ==
    /\ \A f \in Fetches : fetch[f] = "idle"
    /\ warm \in {"no", "yes"}
    /\ fetch' = [f \in Fetches |-> "read"]
    /\ UNCHANGED <<pool, warm, records, client, given, troubles>>

(* The site's next record; the last one the fetch waits for ends it.         *)
Record(f) ==
    /\ fetch[f] = "read"
    /\ LET t == IF records[f] = <<>> THEN "sh" ELSE IF Len(records[f]) = 1 THEN "ccs" ELSE "data"
       IN  records' = [records EXCEPT ![f] = Append(@, t)]
    /\ fetch' = [fetch EXCEPT ![f] = IF Data(records'[f]) = DataMax THEN "done" ELSE @]
    /\ UNCHANGED <<pool, warm, client, given, troubles>>

(* The site has sent its flight and is silent: the 2 seconds run out.        *)
FlightOver(f) ==
    /\ fetch[f] = "read" /\ Data(records[f]) > 0
    /\ fetch' = [fetch EXCEPT ![f] = "done"]
    /\ UNCHANGED <<pool, warm, records, client, given, troubles>>

(* It is silent too early: what was read is kept.                            *)
Stall(f) ==
    /\ fetch[f] = "read" /\ Data(records[f]) = 0 /\ troubles < MaxTroubles
    /\ fetch' = [fetch EXCEPT ![f] = "done"]
    /\ troubles' = troubles + 1
    /\ UNCHANGED <<pool, warm, records, client, given>>

(* No connection, or an end of file at any time: nothing is kept.            *)
FetchFails(f) ==
    /\ fetch[f] = "read" /\ troubles < MaxTroubles
    /\ fetch' = [fetch EXCEPT ![f] = "done"]
    /\ records' = [records EXCEPT ![f] = <<>>]
    /\ troubles' = troubles + 1
    /\ UNCHANGED <<pool, warm, client, given>>

Fetched == {records[f] : f \in Fetches} \ {<<>>}

(* Mutant: what is fetched is added to what there is.                        *)
Refill_Adds == pool \cup Fetched
(* The new handshakes take the place of the old ones, if there are any.      *)
Refill == IF Fetched = {} THEN pool ELSE Fetched

End ==
    /\ \A f \in Fetches : fetch[f] = "done"
    /\ pool' = Refill
    /\ warm' = IF warm = "no" THEN IF Fetched = {} THEN "failed" ELSE "yes" ELSE warm
    /\ fetch' = [f \in Fetches |-> "idle"] /\ records' = [f \in Fetches |-> <<>>]
    /\ UNCHANGED <<client, given, troubles>>

-----------------------------------------------------------------------------
(* send_server_hello_done, to a client whose token is good: a random one of   *)
(* the pool; the connection is closed if there is none.                       *)
SendFlight ==
    /\ warm # "no" /\ client # "tail"
    /\ IF pool = {} THEN client' = "failed" /\ UNCHANGED given
       ELSE client' = "tail" /\ given' \in pool
    /\ UNCHANGED <<pool, warm, fetch, records, troubles>>

(* The client's check of the flight: it waits for the ServerHello, the CCS    *)
(* and an encrypted record.  Then it sends its CCS and Finished, which the    *)
(* server waits for.                                                          *)
Complete(r) == {"sh", "ccs", "data"} \subseteq ToSet(r)
ReadFlight ==
    /\ client = "tail"
    /\ client' = IF Complete(given) THEN "admitted" ELSE "failed"
    /\ given' = <<>>
    /\ UNCHANGED <<pool, warm, fetch, records, troubles>>

Round(f) == Record(f) \/ FlightOver(f)
Next == \/ Begin \/ End \/ SendFlight \/ ReadFlight
        \/ \E f \in Fetches : Round(f) \/ Stall(f) \/ FetchFails(f)

Spec == Init /\ [][Next]_vars

(* Fetches end by their timeouts, the refresh comes every hour, clients go on *)
(* connecting.                                                               *)
Fairness == /\ WF_vars(Begin) /\ WF_vars(End) /\ WF_vars(SendFlight) /\ WF_vars(ReadFlight)
            /\ \A f \in Fetches : WF_vars(Round(f))

-----------------------------------------------------------------------------
(* A site that stalls leaves handshakes without an end in the pool, and a     *)
(* client that is given one fails.  An hour after the site is well again the  *)
(* pool is, too, and every client with a good token comes in; but only on a   *)
(* server whose first fill got something (handshake_cache.py:115-155).        *)
ClientsAdmitted == <>[](warm = "failed" \/ client # "failed")
=============================================================================
