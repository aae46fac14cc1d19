----------------------------- MODULE LiveConfig -----------------------------
(***************************************************************************)
(* Changing the client's configuration while it runs: a reload (SIGHUP or  *)
(* PUT /configs; mirage/core/reload.py) and the background geo task        *)
(* (mirage/client.py, _geo_background) both rebuild the router and clear   *)
(* the two decision caches that connections (client.py, _dispatch) and DNS *)
(* lookups (mirage/core/dns_forwarder.py, _handle) read and fill.          *)
(*                                                                         *)
(* Rules and geo data are abstracted to version numbers, and a routing     *)
(* decision to the router it came from: two routers may decide differently.*)
(* Decisions on different names do not meet, so one name is modelled.      *)
(***************************************************************************)
EXTENDS Naturals

CONSTANTS Lookups,    \* DNS queries for the name, one handler each
          MaxRules,   \* bound on the edits of the configuration file
          MaxGeo,     \* bound on the versions of the geo data
          Nothing     \* no entry in a cache

ASSUME LiveAssumption == MaxRules \in Nat /\ MaxGeo \in Nat

VARIABLES
    file,       \* version of the configuration file on disk
    installed,  \* version the last successful rebuild of a reload installed
    router,     \* RouterRef._inner: its rules and its geo data
    available,  \* Reloader.available_site and available_ip
    routes,     \* RoutingCache entry of the name
    answers,    \* DnsCache entry of the name: the decision it was asked under
    geo,        \* where the geo task is
    pc,         \* where each lookup is
    decision    \* the decision each lookup has taken

vars == <<file, installed, router, available, routes, answers, geo, pc, decision>>

Routers == [rules : 0 .. MaxRules, geo : 0 .. MaxGeo]

(* The rules main() started with, which the closure of the geo task keeps.   *)
StartRules == 0

-----------------------------------------------------------------------------
(* The first router is built before any geo data is there.                   *)
Init ==
    /\ file = StartRules
    /\ installed = StartRules
    /\ router = [rules |-> StartRules, geo |-> 0]
    /\ available = 0
    /\ routes = Nothing
    /\ answers = Nothing
    /\ geo = "asleep"
    /\ pc = [l \in Lookups |-> "idle"]
    /\ decision = [l \in Lookups |-> Nothing]

(* Mutant: only the DNS cache is invalidated.                                *)
Replace_KeepsRoutes(r) ==
    /\ router' = r
    /\ answers' = Nothing
    /\ UNCHANGED routes

(* RouterRef.replace, then both caches are invalidated, with no await.       *)
Replace(r) ==
    /\ router' = r
    /\ routes' = Nothing
    /\ answers' = Nothing

(* The cached decision, or that of the router, which is then cached.         *)
Decided == IF routes = Nothing THEN router ELSE routes

-----------------------------------------------------------------------------
(* The user edits the configuration file. *)
Edit ==
    /\ file < MaxRules
    /\ file' = file + 1
    /\ UNCHANGED <<installed, router, available, routes, answers, geo, pc, decision>>

(* Mutant: the router is rebuilt without the geo data.                       *)
Reload_NoGeo ==
    /\ Replace([rules |-> file, geo |-> 0])
    /\ installed' = file
    /\ UNCHANGED <<file, available, geo, pc, decision>>

(* Reloader.reload: new rules with the geo data of the last download.  The   *)
(* whole of it runs without an await.                                        *)
Reload ==
    /\ Replace([rules |-> file, geo |-> available])
    /\ installed' = file
    /\ UNCHANGED <<file, available, geo, pc, decision>>

(* The geo task wakes and downloads, through a tunnel or directly.           *)
GeoStart ==
    /\ geo = "asleep"
    /\ geo' = "download"
    /\ UNCHANGED <<file, installed, router, available, routes, answers, pc, decision>>

(* Data arrived, new or still fresh on disk: the router is rebuilt from the  *)
(* configuration the task was created with, and the reloader told.           *)
GeoDone(v) ==
    /\ geo = "download"
    /\ v \in available .. MaxGeo /\ v > 0
    /\ geo' = "asleep"
    /\ Replace([rules |-> StartRules, geo |-> v])
    /\ available' = v
    /\ UNCHANGED <<file, installed, pc, decision>>

(* Nothing could be downloaded, or the rebuild raised: all stays.            *)
GeoFail ==
    /\ geo = "download"
    /\ geo' = "asleep"
    /\ UNCHANGED <<file, installed, router, available, routes, answers, pc, decision>>

(* _dispatch: a connection to the name takes the cached decision, or decides *)
(* and caches.                                                               *)
Dispatch ==
    /\ routes' = Decided
    /\ UNCHANGED <<file, installed, router, available, answers, geo, pc, decision>>

(* _handle, the answer is in the cache.                                      *)
LookupHit(l) ==
    /\ pc[l] = "idle"
    /\ answers # Nothing
    /\ pc' = [pc EXCEPT ![l] = "done"]
    /\ decision' = [decision EXCEPT ![l] = answers]
    /\ UNCHANGED <<file, installed, router, available, routes, answers, geo>>

(* _handle, it is not: decide, then ask the resolver of that outbound.       *)
LookupMiss(l) ==
    /\ pc[l] = "idle"
    /\ answers = Nothing
    /\ routes' = Decided
    /\ decision' = [decision EXCEPT ![l] = Decided]
    /\ pc' = [pc EXCEPT ![l] = "asking"]
    /\ UNCHANGED <<file, installed, router, available, answers, geo>>

(* The answer arrives and is cached, whatever happened in between.           *)
LookupAnswered(l) ==
    /\ pc[l] = "asking"
    /\ answers' = decision[l]
    /\ pc' = [pc EXCEPT ![l] = "done"]
    /\ UNCHANGED <<file, installed, router, available, routes, geo, decision>>

(* No answer, no healthy leaf, or a blocked name: NXDOMAIN, not cached.      *)
LookupFailed(l) ==
    /\ pc[l] = "asking"
    /\ pc' = [pc EXCEPT ![l] = "done"]
    /\ UNCHANGED <<file, installed, router, available, routes, answers, geo, decision>>

(* Time to live, or the least recently used entry makes room.                *)
RouteExpires ==
    /\ routes # Nothing
    /\ routes' = Nothing
    /\ UNCHANGED <<file, installed, router, available, answers, geo, pc, decision>>

AnswerExpires ==
    /\ answers # Nothing
    /\ answers' = Nothing
    /\ UNCHANGED <<file, installed, router, available, routes, geo, pc, decision>>

Next ==
    \/ Edit \/ Reload \/ GeoStart \/ GeoFail \/ Dispatch \/ RouteExpires \/ AnswerExpires
    \/ \E v \in 0 .. MaxGeo : GeoDone(v)
    \/ \E l \in Lookups :
        LookupHit(l) \/ LookupMiss(l) \/ LookupAnswered(l) \/ LookupFailed(l)

Spec == Init /\ [][Next]_vars

-----------------------------------------------------------------------------
(* The variables stay in their ranges.                                       *)
TypeOK ==
    /\ file \in 0 .. MaxRules
    /\ installed \in 0 .. MaxRules
    /\ router \in Routers
    /\ available \in 0 .. MaxGeo
    /\ routes \in Routers \cup {Nothing}
    /\ answers \in Routers \cup {Nothing}
    /\ geo \in {"asleep", "download"}
    /\ pc \in [Lookups -> {"idle", "asking", "done"}]
    /\ decision \in [Lookups -> Routers \cup {Nothing}]

(* No connection is sent by a decision of a router that has been replaced:   *)
(* every path that swaps the router clears the cached decision with it, and  *)
(* none puts one back after an await (reload.py:131-152, client.py:553-564). *)
RoutesFresh == routes # Nothing => routes = router

(* A reload does not take the geo data away again that the background task   *)
(* has brought, and a geo refresh is not lost on a reload that overtakes the *)
(* download (reload.py:141-147, client.py:559-561).                          *)
GeoKept == [][router'.geo >= router.geo /\ router'.geo = available']_vars

(* README.md:956 says that after a reload new dispatches follow the new      *)
(* routes: the router has the rules the last reload installed.  A geo        *)
(* refresh brings back those of the start.                                   *)
RulesAreCurrent == router.rules = installed

(* reload.py:134-136 says the DNS cache must be cleared with the rules, or a *)
(* later query is answered with an address the old rules resolved: a cached  *)
(* answer was asked under the current router.  A lookup that waits for its   *)
(* answer across the reload caches it afterwards.                            *)
AnswersFresh == answers # Nothing => answers = router
=============================================================================
