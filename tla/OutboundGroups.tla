--------------------------- MODULE OutboundGroups ---------------------------
(***************************************************************************)
(* Which node of the client's outbound tree a connection goes through      *)
(* (mirage/core/outbound.py, group.py) and the health check that keeps the *)
(* choice informed (healthcheck.py).                                       *)
(*                                                                         *)
(* A mirage leaf counts its failed builds in a row and keeps the median of *)
(* its last latencies; groups choose by them each time they are asked, and *)
(* asking has a side effect: an urltest group remembers its choice, and    *)
(* reading the latency of a group asks it.  The API reads all of them.     *)
(***************************************************************************)
EXTENDS Integers, Sequences, SequencesExt

CONSTANTS
    Order,       \* the tags in the order they are built: children first
    Kind,        \* node -> "mirage", "direct", "block", "urltest", ...
    Kids,        \* group -> its children in order; no cycle (OutboundBuild)
    Lats,        \* medians that can be observed
    Tolerance,   \* tolerance_ms
    Unhealthy,   \* _UNHEALTHY_AFTER_FAILS
    MaxUnderWay, \* bound on the probes of one node at a time
    NoLat        \* no sample yet; not in Lats

VARIABLES
    failures,    \* _consecutive_failures, counted up to Unhealthy
    lat,         \* latency_ms of the leaves
    fresh,       \* the last sample is at most stale_after old
    up,          \* the node answers
    probes,      \* _probe_one tasks under way
    cur          \* _current of urltest groups, _selected of selectors

groupVars == <<failures, lat, fresh, up, probes, cur>>

Nodes == ToSet(Order)
Mirages == {n \in Nodes : Kind[n] = "mirage"}
Groups == {n \in Nodes : Kind[n] \in {"urltest", "fallback", "selector"}}
KidSet(g) == ToSet(Kids[g])

(* What OutboundBuild makes, for the proofs: tags are distinct, a group has   *)
(* children, and they were built before it; a median is a number or NoLat.   *)
OrderedTree ==
    /\ Order \in Seq(Nodes)
    /\ \A i, j \in DOMAIN Order : Order[i] = Order[j] => i = j
    /\ \A g \in Groups : Kids[g] \in Seq(Nodes) /\ Kids[g] # <<>>
    /\ \A i \in DOMAIN Order : Order[i] \in Groups =>
          \A k \in KidSet(Order[i]) : \E j \in 1 .. i - 1 : Order[j] = k
    /\ Lats \subseteq Nat /\ NoLat \notin Lats /\ Tolerance \in Int

GroupsInit ==
    /\ failures = [n \in Mirages |-> 0]
    /\ lat = [n \in Mirages |-> NoLat]
    /\ fresh = [n \in Mirages |-> FALSE]
    /\ up \in [Mirages -> BOOLEAN]
    /\ probes = [n \in Mirages |-> 0]
    /\ cur \in {c \in [Groups -> Nodes] : \A g \in Groups :
                  IF Kind[g] = "selector" THEN c[g] \in KidSet(g) ELSE c[g] = Kids[g][1]}

-----------------------------------------------------------------------------
(* What the properties and methods of a node answer, computed from those of  *)
(* its children, r: is_healthy; resolve_leaf and the child it goes through;  *)
(* latency_ms; and the groups that are asked on the way.                     *)
HealthyKids(g, r) == {k \in KidSet(g) : r[k].healthy}

(* The first child of g in S; min() keeps the first of equals.               *)
First(g, S) == Kids[g][CHOOSE i \in DOMAIN Kids[g] :
                         /\ Kids[g][i] \in S
                         /\ \A j \in DOMAIN Kids[g] : Kids[g][j] \in S => i <= j]
Best(g, r, S) == First(g, {k \in S : \A j \in S : r[k].lat <= r[j].lat})

(* Mutant: a switch for the sake of a change, within the tolerance.          *)
PickUrl_Restless(g, r) ==
    IF HealthyKids(g, r) = {} THEN g
    ELSE IF HealthyKids(g, r) \subseteq {cur[g]} THEN cur[g]
    ELSE First(g, HealthyKids(g, r) \ {cur[g]})

(* UrlTestGroup.resolve_leaf: nobody (the group itself), the current child,  *)
(* or the best one if it is better by the tolerance.                         *)
PickUrl(g, r) ==
    LET candidates == HealthyKids(g, r)
        timed == {k \in candidates : r[k].lat # NoLat}
        best == Best(g, r, timed)
        stays == cur[g] \in candidates
    IN  IF candidates = {} THEN g
        ELSE IF timed = {} THEN IF stays THEN cur[g] ELSE First(g, candidates)
        ELSE IF /\ stays /\ r[cur[g]].lat # NoLat
                /\ r[cur[g]].lat - r[best].lat < Tolerance
             THEN cur[g] ELSE best

(* Mutant: the first child, healthy or not.                                  *)
PickFallback_First(g, r) == Kids[g][1]
PickFallback(g, r) ==
    IF HealthyKids(g, r) = {} THEN Kids[g][1] ELSE First(g, HealthyKids(g, r))

Answer(n, r) ==
    LET Leaf(h, l) == [healthy |-> h, leaf |-> n, pick |-> n, lat |-> l, asked |-> {}]
        Via(k, h, asked) == [healthy |-> h, leaf |-> r[k].leaf, pick |-> k,
                             lat |-> r[k].lat, asked |-> {n} \cup asked]
        any == HealthyKids(n, r) # {}
    IN  CASE Kind[n] = "mirage" -> Leaf(failures[n] < Unhealthy, lat[n])
          [] Kind[n] = "selector" -> Via(cur[n], r[cur[n]].healthy, r[cur[n]].asked)
          [] Kind[n] = "fallback" -> Via(PickFallback(n, r), any, r[PickFallback(n, r)].asked)
          [] Kind[n] = "urltest" ->
               IF ~any THEN Leaf(FALSE, NoLat)
               ELSE Via(PickUrl(n, r), TRUE, UNION {r[k].asked : k \in HealthyKids(n, r)})
          [] OTHER -> Leaf(TRUE, NoLat)

(* Children first: what the nodes answer once the first i of Order have been  *)
(* asked, a set of one: a result that is a bound variable is evaluated once.  *)
NoAnswers == [n \in Nodes |-> NoLat]
told[i \in 0 .. Len(Order)] ==
    IF i = 0 THEN {NoAnswers} ELSE {[r EXCEPT ![Order[i]] = Answer(Order[i], r)] : r \in told[i - 1]}
Tell == told[Len(Order)]

(* The urltest groups among those asked remember what they picked.           *)
Remember(r, gs) ==
    cur' = [g \in Groups |-> IF g \in gs /\ Kind[g] = "urltest" THEN r[g].pick ELSE cur[g]]

-----------------------------------------------------------------------------
(* A connection is dispatched to g (handle), or the API reads its latency.   *)
Resolve(g) ==
    /\ \E r \in Tell : Remember(r, r[g].asked)
    /\ UNCHANGED <<failures, lat, fresh, up, probes>>

(* GET /proxies reads the latency of every node.                             *)
ReadProxies ==
    /\ \E r \in Tell : Remember(r, UNION {r[g].asked : g \in Groups})
    /\ UNCHANGED <<failures, lat, fresh, up, probes>>

(* PUT /proxies/g: only a selector changes, and only to a child of its own.  *)
Select(g, k) ==
    /\ Kind[g] = "selector" /\ k \in KidSet(g)
    /\ cur' = [cur EXCEPT ![g] = k]
    /\ UNCHANGED <<failures, lat, fresh, up, probes>>

(* A build of the pool ends and tells the leaf: _record_latency,             *)
(* _record_failure.                                                          *)
Mark(n) ==
    IF up[n]
    THEN /\ failures' = [failures EXCEPT ![n] = 0]
         /\ fresh' = [fresh EXCEPT ![n] = TRUE]
         /\ \E l \in Lats : lat' = [lat EXCEPT ![n] = l]
    ELSE /\ failures' = [failures EXCEPT ![n] = IF @ = Unhealthy THEN @ ELSE @ + 1]
         /\ UNCHANGED <<lat, fresh>>

BuildEnd(n) == Mark(n) /\ UNCHANGED <<up, probes, cur>>

(* Mutant: a node that is down is not worth a probe.                         *)
Due_HealthyOnly(n) == ~fresh[n] /\ failures[n] < Unhealthy

(* The scan starts a probe for every leaf whose last good sample is old.     *)
Due(n) == ~fresh[n]

Scan ==
    /\ \E n \in Mirages : Due(n) /\ probes[n] < MaxUnderWay
    /\ probes' = [n \in Mirages |->
                    IF Due(n) /\ probes[n] < MaxUnderWay THEN probes[n] + 1 ELSE probes[n]]
    /\ UNCHANGED <<failures, lat, fresh, up, cur>>

ProbeEnd(n) ==
    /\ probes[n] > 0
    /\ probes' = [probes EXCEPT ![n] = @ - 1]
    /\ Mark(n)
    /\ UNCHANGED <<up, cur>>

(* stale_after passes without a sample.                                      *)
Age(n) ==
    /\ fresh[n]
    /\ fresh' = [fresh EXCEPT ![n] = FALSE]
    /\ UNCHANGED <<failures, lat, up, probes, cur>>

Toggle(n) ==
    /\ up' = [up EXCEPT ![n] = ~@]
    /\ UNCHANGED <<failures, lat, fresh, probes, cur>>

GroupsNext ==
    \/ \E g \in Groups : Resolve(g)
    \/ \E g \in Groups : \E k \in KidSet(g) : Select(g, k)
    \/ \E n \in Mirages : BuildEnd(n) \/ ProbeEnd(n) \/ Age(n) \/ Toggle(n)
    \/ ReadProxies \/ Scan

GroupsSpec == GroupsInit /\ [][GroupsNext]_groupVars

(* The health check sleeps and scans for ever, a build ends by its timeouts, *)
(* time passes.  No traffic is assumed.                                      *)
GroupsFairness ==
    /\ WF_groupVars(Scan)
    /\ \A n \in Mirages : WF_groupVars(ProbeEnd(n)) /\ WF_groupVars(Age(n))

-----------------------------------------------------------------------------
(* A connection to a healthy group, however nested, reaches a healthy leaf   *)
(* and is not refused; and an urltest group with measured healthy children   *)
(* goes to one within the tolerance of the best (group.py:68-147).           *)
RoutesWell == \A r \in Tell, g \in Groups :
    /\ r[g].healthy => r[g].leaf \notin Groups /\ r[r[g].leaf].healthy
    /\ Kind[g] = "urltest" => \A k \in KidSet(g) :
         r[k].healthy /\ r[k].lat # NoLat =>
             r[g].lat # NoLat /\ r[g].lat - r[k].lat < Tolerance

(* Asking changes no answer: while health, latencies and selections stay,    *)
(* neither a connection nor the API, whose reads run the choice of every     *)
(* group, makes the next connection go elsewhere.                            *)
Asking == cur' # cur /\ \A g \in Groups : Kind[g] = "selector" => cur'[g] = cur[g]
Leaves == {[g \in Groups |-> r[g].leaf] : r \in Tell}
SameLeaves == Leaves' = Leaves
ReadsMoveNoRoute == [][Asking => SameLeaves]_groupVars

(* A node that answers again and goes on doing so becomes healthy by the     *)
(* health check alone, though no connection is ever routed to it.            *)
WellOrDown(n) == failures[n] < Unhealthy \/ ~up[n]
Recovers == \A n \in Mirages : up[n] ~> WellOrDown(n)
=============================================================================
