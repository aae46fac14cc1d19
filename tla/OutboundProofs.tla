--------------------------- MODULE OutboundProofs ---------------------------
(***************************************************************************)
(* Proofs about one outbound and the tree of outbounds: ConnPool for every *)
(* pool size and every set of requesters and probers, BuildStagger for     *)
(* every step and jitter, OutboundBuild for every configuration,           *)
(* OutboundGroups for every tree, tolerance and history of the leaves.     *)
(***************************************************************************)
EXTENDS ConnPool, BuildStagger, OutboundBuild, OutboundGroups, SequenceTheorems, FiniteSetTheorems,
        WellFoundedInduction, TLAPS

(***************************************************************************)
(* ConnPool                                                                *)
(***************************************************************************)
\* The inductive invariant: without BuildingAccounted the counter could
\* drop below zero, and without building <= PoolSize a probe that adds a
\* tunnel to a queue with room could break the bound on the sum.
IInv == TypeOK /\ BuildingAccounted /\ PoolBound

\* What Deficit returns when the queue has len tunnels.
LEMMA DeficitValue ==
    ASSUME NEW len \in Nat, building \in Nat
    PROVE  /\ Deficit(len) \in Nat
           /\ Deficit(len) > 0 => len + building + Deficit(len) = PoolSize
           /\ Deficit(len) = 0 => len + building >= PoolSize
BY PoolSizeAssumption DEF Deficit

\* The tail of a queue, the queue with one more tunnel and their lengths.
LEMMA QueueOps ==
    ASSUME q \in Seq(Tunnel)
    PROVE  /\ Len(q) \in Nat
           /\ Append(q, Fresh) \in Seq(Tunnel)
           /\ Len(Append(q, Fresh)) = Len(q) + 1
           /\ q # <<>> => /\ Len(q) >= 1
                          /\ Head(q) \in Tunnel
                          /\ Tail(q) \in Seq(Tunnel)
                          /\ Len(Tail(q)) = Len(q) - 1
                          /\ Append(Tail(q), Fresh) \in Seq(Tunnel)
                          /\ Len(Append(Tail(q), Fresh)) = Len(q)
<1>1. Fresh \in Tunnel
  BY DEF Fresh, Tunnel
<1>2. /\ Len(q) \in Nat
      /\ Append(q, Fresh) \in Seq(Tunnel)
      /\ Len(Append(q, Fresh)) = Len(q) + 1
  BY <1>1
<1>3. ASSUME q # <<>>
      PROVE  /\ Len(q) >= 1
             /\ Head(q) \in Tunnel
             /\ Tail(q) \in Seq(Tunnel)
             /\ Len(Tail(q)) = Len(q) - 1
  BY <1>3
<1>4. ASSUME q # <<>>
      PROVE  /\ Append(Tail(q), Fresh) \in Seq(Tunnel)
             /\ Len(Append(Tail(q), Fresh)) = Len(q)
  BY <1>1, <1>2, <1>3, <1>4
<1> QED
  BY <1>2, <1>3, <1>4

LEMMA InitIInv == Init => IInv
<1> SUFFICES ASSUME Init PROVE IInv
  OBVIOUS
<1>1. NoTunnel \in Tunnel
  BY DEF NoTunnel, Tunnel
<1>2. q \in Seq(Tunnel) /\ Len(q) = 0
  BY DEF Init
<1>3. TypeOK
  <2>1. building \in Nat /\ nDelay \in Nat /\ nConnect \in Nat /\ open \in Int
    BY PoolSizeAssumption DEF Init
  <2>2. /\ pc \in [Requesters -> {"idle", "wait", "direct", "got", "none"}]
        /\ held \in [Requesters -> Tunnel]
        /\ probe \in [Probers -> {"idle", "connect"}]
        /\ warm \in BOOLEAN
    BY <1>1 DEF Init
  <2> QED
    BY <1>2, <2>1, <2>2 DEF TypeOK
<1>4. BuildingAccounted
  BY PoolSizeAssumption DEF Init, BuildingAccounted
<1>5. PoolBound
  BY <1>2, PoolSizeAssumption DEF Init, PoolBound
<1> QED
  BY <1>3, <1>4, <1>5 DEF IInv

-----------------------------------------------------------------------------
\* Each step keeps the invariant: one step of the proof per action.
LEMMA NextIInv == IInv /\ [Next]_vars => IInv'
<1> SUFFICES ASSUME IInv, [Next]_vars PROVE IInv'
  OBVIOUS
<1> USE DEF IInv
<1>t. /\ q \in Seq(Tunnel) /\ Len(q) \in Nat
      /\ building \in Nat /\ nDelay \in Nat /\ nConnect \in Nat
      /\ PoolSize \in Nat /\ PoolSize > 0
  BY QueueOps, PoolSizeAssumption DEF TypeOK
<1>1. CASE WarmupDone
  BY <1>1 DEF WarmupDone, TypeOK, BuildingAccounted, PoolBound
<1>2. ASSUME NEW p \in Requesters, Acquire(p) PROVE IInv'
  <2>1. Deficit(Len(q)) \in Nat
    BY <1>t, DeficitValue
  <2>2. TypeOK'
    BY <1>2, <2>1 DEF Acquire, ScheduleRefills, TypeOK
  <2>3. BuildingAccounted'
    BY <1>2, <1>t, <2>1 DEF Acquire, ScheduleRefills, BuildingAccounted
  <2>4. PoolBound'
    <3>1. q' = q /\ building' = building + Deficit(Len(q))
      BY <1>2 DEF Acquire, ScheduleRefills
    <3>2. \/ Deficit(Len(q)) = 0
          \/ Len(q) + building + Deficit(Len(q)) = PoolSize
      BY <1>t, <2>1, DeficitValue
    <3> QED
      BY <1>t, <2>1, <3>1, <3>2 DEF PoolBound
  <2> QED
    BY <2>2, <2>3, <2>4
<1>3. ASSUME NEW p \in Requesters, DiscardHead(p) PROVE IInv'
  <2>1. Tail(q) \in Seq(Tunnel) /\ Len(Tail(q)) = Len(q) - 1 /\ Len(q) - 1 \in Nat
    BY <1>3, <1>t, QueueOps DEF DiscardHead
  <2>2. Deficit(Len(q) - 1) \in Nat
    BY <1>t, <2>1, DeficitValue
  <2>3. TypeOK'
    BY <1>3, <2>1, <2>2 DEF DiscardHead, ScheduleRefills, TypeOK
  <2>4. BuildingAccounted'
    BY <1>3, <1>t, <2>2 DEF DiscardHead, ScheduleRefills, BuildingAccounted
  <2>5. PoolBound'
    <3>1. q' = Tail(q) /\ building' = building + Deficit(Len(q) - 1)
      BY <1>3 DEF DiscardHead, ScheduleRefills
    <3>2. \/ Deficit(Len(q) - 1) = 0
          \/ Len(q) - 1 + building + Deficit(Len(q) - 1) = PoolSize
      BY <1>t, <2>1, DeficitValue
    <3> QED
      BY <1>t, <2>1, <2>2, <3>1, <3>2 DEF PoolBound
  <2> QED
    BY <2>3, <2>4, <2>5
<1>4. ASSUME NEW p \in Requesters, HandOut(p) PROVE IInv'
  <2>1. Tail(q) \in Seq(Tunnel) /\ Len(Tail(q)) = Len(q) - 1 /\ Head(q) \in Tunnel
    BY <1>4, <1>t, QueueOps DEF HandOut
  <2>2. TypeOK'
    BY <1>4, <2>1 DEF HandOut, TypeOK
  <2> QED
    BY <1>4, <1>t, <2>1, <2>2 DEF HandOut, BuildingAccounted, PoolBound
<1>5. ASSUME NEW p \in Requesters,
             GetTimeout(p) \/ DirectFail(p) \/ CancelAcquire(p)
      PROVE  IInv'
  BY <1>5 DEF GetTimeout, DirectFail, CancelAcquire, TypeOK,
              BuildingAccounted, PoolBound
<1>6. ASSUME NEW p \in Requesters, DirectOk(p) PROVE IInv'
  BY <1>6 DEF DirectOk, TypeOK, BuildingAccounted, PoolBound, Fresh, Tunnel
<1>7. ASSUME NEW p \in Requesters, Release(p) PROVE IInv'
  BY <1>7 DEF Release, TypeOK, BuildingAccounted, PoolBound, NoTunnel, Tunnel
<1>8. CASE BuildStart
  BY <1>8, <1>t DEF BuildStart, TypeOK, BuildingAccounted, PoolBound
<1>9. CASE BuildOk
  <2>1. Append(q, Fresh) \in Seq(Tunnel) /\ Len(Append(q, Fresh)) = Len(q) + 1
    BY <1>t, QueueOps
  <2>2. building - 1 \in Nat /\ nConnect - 1 \in Nat
    BY <1>9, <1>t DEF BuildOk, BuildingAccounted
  <2> QED
    BY <1>9, <1>t, <2>1, <2>2 DEF BuildOk, TypeOK, BuildingAccounted, PoolBound
<1>10. CASE BuildFail
  BY <1>10, <1>t DEF BuildFail, TypeOK, BuildingAccounted, PoolBound
<1>11. ASSUME NEW r \in Probers, ProbeStart(r) \/ ProbeFail(r) PROVE IInv'
  BY <1>11 DEF ProbeStart, ProbeFail, TypeOK, BuildingAccounted, PoolBound
<1>12. ASSUME NEW r \in Probers, ProbeOk(r) PROVE IInv'
  <2>1. /\ q' \in Seq(Tunnel)
        /\ \/ Len(q') = Len(q)
           \/ Len(q) < PoolSize /\ Len(q') = Len(q) + 1
    <3>1. CASE Len(q) >= PoolSize
      <4>1. q # <<>>
        BY <1>t, <3>1
      <4>2. q' = Append(Tail(q), Fresh)
        BY <1>12, <3>1 DEF ProbeOk
      <4> QED
        BY <1>t, <4>1, <4>2, QueueOps
    <3>2. CASE ~(Len(q) >= PoolSize)
      <4>1. q' = Append(q, Fresh)
        BY <1>12, <3>2 DEF ProbeOk
      <4> QED
        BY <1>t, <4>1, <3>2, QueueOps
    <3> QED
      BY <1>t, <3>1, <3>2
  <2>2. open' \in Int
    BY <1>12 DEF ProbeOk, TypeOK
  <2> QED
    BY <1>12, <1>t, <2>1, <2>2 DEF ProbeOk, TypeOK, BuildingAccounted, PoolBound
<1>13. ASSUME NEW i \in DOMAIN q, Expire(i) \/ PeerFin(i) PROVE IInv'
  <2>1. q' \in Seq(Tunnel) /\ Len(q') = Len(q)
    <3>1. q[i] \in Tunnel
      BY <1>13, <1>t
    <3>2. [q[i] EXCEPT !.stale = TRUE] \in Tunnel /\ [q[i] EXCEPT !.fin = TRUE] \in Tunnel
      BY <3>1 DEF Tunnel
    <3>3. \/ q' = [q EXCEPT ![i] = [q[i] EXCEPT !.stale = TRUE]]
          \/ q' = [q EXCEPT ![i] = [q[i] EXCEPT !.fin = TRUE]]
      BY <1>13 DEF Expire, PeerFin
    <3>4. i \in 1 .. Len(q)
      BY <1>13, <1>t
    <3>5. ASSUME NEW t \in Tunnel
          PROVE  /\ [q EXCEPT ![i] = t] \in Seq(Tunnel)
                 /\ Len([q EXCEPT ![i] = t]) = Len(q)
      BY <1>t, <3>4, ExceptSeq
    <3>6. PICK t \in Tunnel : q' = [q EXCEPT ![i] = t]
      BY <3>2, <3>3
    <3> QED
      BY <3>5, <3>6
  <2> QED
    BY <1>13, <2>1 DEF Expire, PeerFin, TypeOK, BuildingAccounted, PoolBound
<1>14. CASE UNCHANGED vars
  BY <1>14 DEF vars, TypeOK, BuildingAccounted, PoolBound
<1> QED
  BY <1>1, <1>2, <1>3, <1>4, <1>5, <1>6, <1>7, <1>8, <1>9, <1>10, <1>11,
     <1>12, <1>13, <1>14
     DEF Next, Requester, Prober, Builder, Environment

LEMMA SpecIInv == Spec => []IInv
BY InitIInv, NextIInv, PTL DEF Spec

-----------------------------------------------------------------------------
\* The variables of the pool keep their types.
THEOREM TypeCorrect == Spec => []TypeOK
BY SpecIInv, PTL DEF IInv

\* _building is the number of running build tasks, for every pool size and
\* however acquires, probes, failures and cancellations interleave.
THEOREM BuildingIsAccounted == Spec => []BuildingAccounted
BY SpecIInv, PTL DEF IInv

\* A pool never has more than pool_size builds running, nor more than
\* 2 * pool_size tunnels ready or on their way.
THEOREM PoolIsBounded == Spec => []PoolBound
BY SpecIInv, PTL DEF IInv

-----------------------------------------------------------------------------
\* Only acquire() and the replacement of a discarded tunnel raise _building,
\* and both raise it to exactly what the queue lacks.
LEMMA StepOrders ==
    IInv /\ [Next]_vars =>
        [building' > building => Len(q') + building' = PoolSize]_vars
<1> SUFFICES ASSUME IInv, Next, building' > building
             PROVE  Len(q') + building' = PoolSize
  BY DEF vars
<1>t. /\ q \in Seq(Tunnel) /\ Len(q) \in Nat
      /\ building \in Nat /\ nDelay \in Nat /\ nConnect \in Nat
      /\ PoolSize \in Nat
  BY QueueOps, PoolSizeAssumption DEF IInv, TypeOK
<1>1. ASSUME NEW p \in Requesters, Acquire(p)
      PROVE  Len(q') + building' = PoolSize
  <2>1. q' = q /\ building' = building + Deficit(Len(q))
    BY <1>1 DEF Acquire, ScheduleRefills
  <2>2. Deficit(Len(q)) \in Nat /\ Deficit(Len(q)) > 0
    BY <1>t, <2>1, DeficitValue
  <2> QED
    BY <1>t, <2>1, <2>2, DeficitValue
<1>2. ASSUME NEW p \in Requesters, DiscardHead(p)
      PROVE  Len(q') + building' = PoolSize
  <2>1. q' = Tail(q) /\ building' = building + Deficit(Len(q) - 1)
    BY <1>2 DEF DiscardHead, ScheduleRefills
  <2>2. Len(Tail(q)) = Len(q) - 1 /\ Len(q) - 1 \in Nat
    BY <1>2, <1>t, QueueOps DEF DiscardHead
  <2>3. Deficit(Len(q) - 1) \in Nat /\ Deficit(Len(q) - 1) > 0
    BY <1>t, <2>1, <2>2, DeficitValue
  <2> QED
    BY <1>t, <2>1, <2>2, <2>3, DeficitValue
<1>3. ASSUME ~\E p \in Requesters : Acquire(p) \/ DiscardHead(p)
      PROVE  building' = building \/ building' = building - 1
  BY <1>3, <1>t DEF Next, WarmupDone, Requester, HandOut, GetTimeout, DirectOk,
     DirectFail, CancelAcquire, Release, Prober, ProbeStart, ProbeOk, ProbeFail,
     Builder, BuildStart, BuildOk, BuildFail, Environment, Expire, PeerFin
<1> QED
  BY <1>t, <1>1, <1>2, <1>3

\* Concurrent acquires never order more builds than the queue lacks.
THEOREM NeverOverOrders == Spec => NoOverOrder
<1>1. Spec => []IInv
  BY SpecIInv
<1> QED
  BY <1>1, StepOrders, PTL DEF Spec, NoOverOrder

-----------------------------------------------------------------------------
LEMMA HoldersFinite == IsFiniteSet(Holders) /\ IsFiniteSet(Holders')
<1>1. Holders \in SUBSET Requesters /\ Holders' \in SUBSET Requesters
  BY DEF Holders
<1> QED
  BY <1>1, RequestersAssumption, FS_Subset

\* Every step moves a socket between the queue and a requester, establishes
\* one, or closes the one it drops.
LEMMA StepSockets == IInv /\ SocketsAccounted /\ [Next]_vars => SocketsAccounted'
<1> SUFFICES ASSUME IInv, SocketsAccounted, [Next]_vars PROVE SocketsAccounted'
  OBVIOUS
<1>t. /\ q \in Seq(Tunnel) /\ Len(q) \in Nat /\ PoolSize \in Nat /\ PoolSize > 0
      /\ pc \in [Requesters -> {"idle", "wait", "direct", "got", "none"}]
      /\ Cardinality(Holders) \in Nat /\ Cardinality(Holders') \in Nat
      /\ open \in Int
  BY QueueOps, PoolSizeAssumption, HoldersFinite, FS_CardinalityType DEF IInv, TypeOK
<1>c. /\ open = Len(q) + Cardinality(Holders)
      /\ SocketsAccounted' <=> open' = Len(q') + Cardinality(Holders')
  BY DEF SocketsAccounted
<1>1. ASSUME NEW p \in Requesters, pc[p] # "got",
             pc' = [pc EXCEPT ![p] = "got"]
      PROVE  Cardinality(Holders') = Cardinality(Holders) + 1
  <2>1. Holders' = Holders \cup {p} /\ p \notin Holders
    BY <1>1, <1>t DEF Holders
  <2> QED
    BY <2>1, HoldersFinite, FS_AddElement
<1>2. ASSUME NEW p \in Requesters, pc[p] = "got",
             pc' = [pc EXCEPT ![p] = "idle"]
      PROVE  Cardinality(Holders') = Cardinality(Holders) - 1
  <2>1. Holders' = Holders \ {p} /\ p \in Holders
    BY <1>2, <1>t DEF Holders
  <2> QED
    BY <2>1, HoldersFinite, FS_RemoveElement
<1>3. ASSUME NEW p \in Requesters, NEW s \in {"idle", "wait", "direct", "none"},
             pc[p] # "got", pc' = [pc EXCEPT ![p] = s]
      PROVE  Holders' = Holders
  BY <1>3, <1>t DEF Holders
<1>4. pc' = pc => Holders' = Holders
  BY DEF Holders
<1>5. ASSUME Holders' = Holders, q' = q, open' = open PROVE SocketsAccounted'
  BY <1>5 DEF SocketsAccounted
<1>6. ASSUME NEW p \in Requesters, Acquire(p) PROVE SocketsAccounted'
  BY <1>6, <1>3, <1>5 DEF Acquire
<1>7. ASSUME NEW p \in Requesters, DiscardHead(p) PROVE SocketsAccounted'
  <2>1. Len(q') = Len(q) - 1 /\ open' = open - 1
    BY <1>7, <1>t, QueueOps DEF DiscardHead
  <2>2. Holders' = Holders
    BY <1>7, <1>4 DEF DiscardHead
  <2> QED
    BY <1>t, <1>c, <2>1, <2>2
<1>8. ASSUME NEW p \in Requesters, HandOut(p) PROVE SocketsAccounted'
  <2>1. Len(q') = Len(q) - 1 /\ open' = open
    BY <1>8, <1>t, QueueOps DEF HandOut
  <2>2. Cardinality(Holders') = Cardinality(Holders) + 1
    BY <1>8, <1>1 DEF HandOut
  <2> QED
    BY <1>t, <1>c, <2>1, <2>2
<1>9. ASSUME NEW p \in Requesters, GetTimeout(p) \/ DirectFail(p) \/ CancelAcquire(p)
      PROVE  SocketsAccounted'
  BY <1>9, <1>3, <1>5 DEF GetTimeout, DirectFail, CancelAcquire
<1>10. ASSUME NEW p \in Requesters, DirectOk(p) PROVE SocketsAccounted'
  <2>1. Cardinality(Holders') = Cardinality(Holders) + 1
    BY <1>10, <1>1 DEF DirectOk
  <2>2. q' = q /\ open' = open + 1
    BY <1>10 DEF DirectOk
  <2> QED
    BY <1>t, <1>c, <2>1, <2>2
<1>11. ASSUME NEW p \in Requesters, Release(p) PROVE SocketsAccounted'
  <2>1. CASE pc[p] = "got"
    <3>1. Cardinality(Holders') = Cardinality(Holders) - 1
      BY <1>11, <1>2, <2>1 DEF Release
    <3>2. q' = q /\ open' = open - 1
      BY <1>11, <2>1 DEF Release
    <3> QED
      BY <1>t, <1>c, <3>1, <3>2
  <2>2. CASE pc[p] = "none"
    BY <1>11, <1>3, <1>5, <2>2 DEF Release
  <2> QED
    BY <1>11, <2>1, <2>2 DEF Release
<1>12. CASE WarmupDone \/ BuildStart \/ BuildFail
  BY <1>12, <1>4, <1>5 DEF WarmupDone, BuildStart, BuildFail
<1>13. CASE BuildOk
  <2>1. Len(q') = Len(q) + 1 /\ open' = open + 1
    BY <1>13, <1>t, QueueOps DEF BuildOk
  <2>2. Holders' = Holders
    BY <1>13, <1>4 DEF BuildOk
  <2> QED
    BY <1>t, <1>c, <2>1, <2>2
<1>14. ASSUME NEW r \in Probers, ProbeStart(r) \/ ProbeFail(r) PROVE SocketsAccounted'
  BY <1>14, <1>4, <1>5 DEF ProbeStart, ProbeFail
<1>15. ASSUME NEW r \in Probers, ProbeOk(r) PROVE SocketsAccounted'
  <2>1. Holders' = Holders
    BY <1>15, <1>4 DEF ProbeOk
  <2>2. CASE Len(q) >= PoolSize
    <3>1. q # <<>>
      BY <1>t, <2>2
    <3>2. Len(q') = Len(q) /\ open' = open
      BY <1>15, <1>t, <2>2, <3>1, QueueOps DEF ProbeOk
    <3> QED
      BY <1>t, <1>c, <2>1, <3>2
  <2>3. CASE ~(Len(q) >= PoolSize)
    <3>1. q' = Append(q, Fresh) /\ open' = open + 1
      BY <1>15, <2>3 DEF ProbeOk
    <3> QED
      BY <1>t, <1>c, <2>1, <3>1, QueueOps
  <2> QED
    BY <2>2, <2>3
<1>16. ASSUME NEW i \in DOMAIN q, Expire(i) \/ PeerFin(i) PROVE SocketsAccounted'
  <2>1. open' = open /\ Holders' = Holders
    BY <1>16, <1>4 DEF Expire, PeerFin
  <2>2. Len(q') = Len(q)
    BY <1>16, <1>t DEF Expire, PeerFin
  <2> QED
    BY <1>t, <1>c, <2>1, <2>2
<1>17. CASE UNCHANGED vars
  BY <1>17, <1>4, <1>5 DEF vars
<1> QED
  BY <1>6, <1>7, <1>8, <1>9, <1>10, <1>11, <1>12, <1>13, <1>14, <1>15, <1>16,
     <1>17 DEF Next, Requester, Prober, Builder, Environment

\* No path of the pool drops an established socket without closing it.
THEOREM SocketsAreAccounted == Spec => []SocketsAccounted
<1>1. Init => SocketsAccounted
  <2> SUFFICES ASSUME Init PROVE SocketsAccounted
    OBVIOUS
  <2>1. Len(q) = 0 /\ open = 0
    BY DEF Init
  <2>2. Holders = {}
    BY DEF Init, Holders
  <2> QED
    BY <2>1, <2>2, FS_EmptySet DEF SocketsAccounted
<1> QED
  BY <1>1, SpecIInv, StepSockets, PTL DEF Spec

(***************************************************************************)
(* BuildStagger                                                            *)
(***************************************************************************)
\* The cursor is past every slot by the least gap; this is what carries
\* SlotsSpaced from one reservation to the next.
CursorAhead == \A i \in DOMAIN slots : nextBuildAt - slots[i] >= Step - Jitter

\* What is known of a connect: it came no earlier than its slot and, as the
\* loop is on time, no later.
LaunchOnTime ==
    \A l \in launches : l.id > 0 => l.id \in DOMAIN slots /\ l.at = slots[l.id]

\* No task sleeps past its slot.
NotLate == \A i \in pending : slots[i] >= now

StaggerInv == StaggerTypeOK /\ SlotsSpaced /\ CursorAhead /\ LaunchOnTime /\ NotLate

\* The next slot is a time, not before now nor before the cursor.
LEMMA NextSlotValue ==
    ASSUME now \in Nat, nextBuildAt \in Nat
    PROVE  NextSlot \in Nat /\ NextSlot >= now /\ NextSlot >= nextBuildAt
BY DEF NextSlot

LEMMA StaggerInitInv == StaggerInit => StaggerInv
BY DEF StaggerInit, StaggerInv, StaggerTypeOK, SlotsSpaced, CursorAhead, LaunchOnTime, NotLate

LEMMA StaggerNextInv == StaggerInv /\ [StaggerNext]_staggerVars => StaggerInv'
<1> SUFFICES ASSUME StaggerInv, [StaggerNext]_staggerVars PROVE StaggerInv'
  OBVIOUS
<1> USE DEF StaggerInv
<1>t. /\ now \in Nat /\ nextBuildAt \in Nat /\ slots \in Seq(Nat)
      /\ pending \subseteq DOMAIN slots
      /\ Step \in Nat /\ Jitter \in Nat /\ Jitter <= Step
      /\ DOMAIN slots = 1 .. Len(slots) /\ Len(slots) \in Nat
      /\ \A i \in DOMAIN slots : slots[i] \in Nat
  BY StaggerAssumption DEF StaggerTypeOK
<1>1. CASE ReserveBuildSlot
  <2>1. PICK j \in -Jitter .. Jitter : nextBuildAt' = NextSlot + Step + j
    BY <1>1 DEF ReserveBuildSlot
  <2>2. /\ slots' = Append(slots, NextSlot)
        /\ pending' = pending \cup {Len(slots) + 1}
        /\ now' = now /\ launches' = launches
    BY <1>1 DEF ReserveBuildSlot
  <2>3. NextSlot \in Nat /\ NextSlot >= now /\ NextSlot >= nextBuildAt
    BY <1>t, NextSlotValue
  <2>4. /\ nextBuildAt' \in Nat
        /\ nextBuildAt' - NextSlot >= Step - Jitter
        /\ nextBuildAt' >= NextSlot
    <3>1. Step + j \in Int /\ Step + j >= Step - Jitter /\ Step + j >= 0
      BY <1>t
    <3> QED
      BY <1>t, <2>1, <2>3, <3>1
  <2>5. /\ slots' \in Seq(Nat)
        /\ DOMAIN slots' = 1 .. Len(slots) + 1
        /\ \A i \in DOMAIN slots : slots'[i] = slots[i]
        /\ slots'[Len(slots) + 1] = NextSlot
    BY <1>t, <2>2, <2>3, AppendProperties
  <2>6. StaggerTypeOK'
    BY <1>t, <2>2, <2>4, <2>5 DEF StaggerTypeOK
  <2>7. SlotsSpaced'
    <3> SUFFICES ASSUME NEW i \in DOMAIN slots', NEW k \in DOMAIN slots', i < k
                 PROVE  slots'[k] - slots'[i] >= Step - Jitter
      BY DEF SlotsSpaced
    <3>1. i \in DOMAIN slots
      BY <1>t, <2>5
    <3>2. CASE k \in DOMAIN slots
      BY <3>1, <3>2, <2>5 DEF SlotsSpaced
    <3>3. CASE k = Len(slots) + 1
      BY <1>t, <3>1, <3>3, <2>3, <2>5 DEF CursorAhead
    <3> QED
      BY <1>t, <2>5, <3>2, <3>3
  <2>8. CursorAhead'
    <3> SUFFICES ASSUME NEW i \in DOMAIN slots'
                 PROVE  nextBuildAt' - slots'[i] >= Step - Jitter
      BY DEF CursorAhead
    <3>1. CASE i \in DOMAIN slots
      <4>1. slots'[i] \in Nat /\ nextBuildAt - slots'[i] >= Step - Jitter
        BY <1>t, <3>1, <2>5 DEF CursorAhead
      <4>2. nextBuildAt' >= nextBuildAt
        BY <1>t, <2>3, <2>4
      <4> QED
        BY <1>t, <2>4, <4>1, <4>2
    <3>2. CASE i = Len(slots) + 1
      BY <3>2, <2>4, <2>5
    <3> QED
      BY <1>t, <2>5, <3>1, <3>2
  <2>9. LaunchOnTime'
    BY <1>t, <2>2, <2>5 DEF LaunchOnTime
  <2>10. NotLate'
    BY <1>t, <2>2, <2>3, <2>5 DEF NotLate
  <2> QED
    BY <2>6, <2>7, <2>8, <2>9, <2>10
<1>2. ASSUME NEW i \in pending, Launch(i) PROVE StaggerInv'
  <2>1. slots[i] = now /\ i \in DOMAIN slots /\ i > 0
    BY <1>2, <1>t DEF Launch, NotLate
  <2>2. LaunchOnTime'
    BY <1>2, <2>1 DEF Launch, LaunchOnTime
  <2> QED
    BY <1>2, <1>t, <2>1, <2>2 DEF Launch, StaggerTypeOK, SlotsSpaced, CursorAhead, NotLate
<1>3. ASSUME NEW i \in pending, GiveUp(i) PROVE StaggerInv'
  BY <1>3 DEF GiveUp, StaggerTypeOK, SlotsSpaced, CursorAhead, LaunchOnTime, NotLate
<1>4. CASE ProbeOnce
  <2>1. PICK k \in 1 .. MaxProbes :
            launches' = launches \cup {[at |-> now, id |-> -k]}
    BY <1>4 DEF ProbeOnce
  <2>2. MaxProbes \in Nat
    BY StaggerAssumption
  <2> QED
    BY <1>4, <1>t, <2>1, <2>2 DEF ProbeOnce, StaggerTypeOK, SlotsSpaced, CursorAhead, LaunchOnTime, NotLate
<1>5. CASE Tick
  BY <1>5, <1>t DEF Tick, StaggerTypeOK, SlotsSpaced, CursorAhead, LaunchOnTime, NotLate
<1>6. CASE UNCHANGED staggerVars
  BY <1>6 DEF staggerVars, StaggerTypeOK, SlotsSpaced, CursorAhead, LaunchOnTime, NotLate
<1> QED
  BY <1>1, <1>2, <1>3, <1>4, <1>5, <1>6 DEF StaggerNext

LEMMA StaggerSpecInv == StaggerSpec => []StaggerInv
BY StaggerInitInv, StaggerNextInv, PTL DEF StaggerSpec

\* Slots are never closer than Step - Jitter, for every step and jitter and
\* every order of warmup, refills and fallbacks.
THEOREM SlotsAreSpaced == StaggerSpec => []SlotsSpaced
BY StaggerSpecInv, PTL DEF StaggerInv

\* Nor are the connects of the tasks that reserved them.
THEOREM ReservedLaunchesAreSpaced == StaggerSpec => []ReservedLaunchesSpaced
<1>1. StaggerInv => ReservedLaunchesSpaced
  <2> SUFFICES ASSUME StaggerInv, NEW l \in launches, NEW m \in launches,
                      l.id > 0, m.id > 0, l.id < m.id
               PROVE  m.at - l.at >= Step - Jitter
    BY DEF ReservedLaunchesSpaced
  <2> QED
    BY DEF StaggerInv, LaunchOnTime, SlotsSpaced
<1> QED
  BY <1>1, StaggerSpecInv, PTL

(***************************************************************************)
(* OutboundBuild                                                           *)
(***************************************************************************)

\* The rows of entries, all of them read from the configuration.
Rows == config \in Seq(Entries) /\ items \in Seq(Entries)
        /\ waiting \in Seq(GroupEntries) /\ retry \in Seq(GroupEntries)

Known == out \subseteq Defined

\* No entry is lost on the way: it is built, or waits somewhere.
Placed ==
    phase # "error" =>
        \A e \in Entries :
            \/ e.tag \in out
            \/ e \in ToSet(items) \/ e \in ToSet(waiting) \/ e \in ToSet(retry)

Phases ==
    /\ phase \in {"leaves", "groups", "built", "error"}
    /\ phase = "leaves" => retry = <<>> /\ ~progress
    /\ phase \in {"groups", "built"} => items = <<>> /\ Implicit \subseteq out
    /\ phase = "built" => waiting = <<>> /\ retry = <<>>
    /\ phase = "error" /\ items = <<>> /\ config # <<>> => Bad

\* As long as a round builds nothing, what it puts back still cannot be built.
Refused ==
    ~progress /\ phase # "error" => \A g \in ToSet(retry) : ~(g.kids \subseteq out)

\* No group of a stuck set is ever built: the first one would have needed
\* another one of the set.
Unbuilt ==
    Distinct => \A S \in SUBSET GroupEntries : Stuck(S) => \A g \in S : g.tag \notin out

BuildInv == Rows /\ Known /\ Placed /\ Phases /\ Refused /\ Unbuilt

-----------------------------------------------------------------------------
\* The members of a row, by its head and its tail.
LEMMA RowHead ==
    ASSUME NEW S, NEW s \in Seq(S), s # <<>>
    PROVE  /\ Head(s) \in S
           /\ Tail(s) \in Seq(S)
           /\ ToSet(s) = {Head(s)} \cup ToSet(Tail(s))
<1>1. /\ Len(s) \in Nat /\ Len(s) >= 1 /\ DOMAIN s = 1 .. Len(s)
      /\ \A i \in 1 .. Len(s) : s[i] \in S
  BY EmptySeq
<1>2. /\ Head(s) = s[1] /\ Tail(s) \in Seq(S)
      /\ Len(Tail(s)) = Len(s) - 1
      /\ \A i \in 1 .. Len(Tail(s)) : Tail(s)[i] = s[i + 1]
  BY <1>1, HeadTailProperties
<1>3. DOMAIN Tail(s) = 1 .. Len(s) - 1
  BY <1>2
<1>4. ASSUME NEW x \in ToSet(s) PROVE x \in {Head(s)} \cup ToSet(Tail(s))
  <2>1. PICK i \in 1 .. Len(s) : x = s[i]
    BY <1>1, <1>4 DEF ToSet
  <2>2. CASE i = 1
    BY <1>2, <2>1, <2>2
  <2>3. CASE i # 1
    <3>1. i - 1 \in DOMAIN Tail(s) /\ i - 1 \in 1 .. Len(Tail(s)) /\ (i - 1) + 1 = i
      BY <1>1, <1>2, <1>3, <2>3
    <3>2. Tail(s)[i - 1] = s[i]
      BY <1>2, <3>1
    <3> QED
      BY <2>1, <3>1, <3>2 DEF ToSet
  <2> QED
    BY <2>2, <2>3
<1>5. ASSUME NEW x \in ToSet(Tail(s)) PROVE x \in ToSet(s)
  <2>1. PICK i \in 1 .. Len(s) - 1 : x = Tail(s)[i]
    BY <1>3, <1>5 DEF ToSet
  <2>2. i \in 1 .. Len(Tail(s)) /\ i + 1 \in DOMAIN s
    BY <1>1, <1>2
  <2>3. x = s[i + 1]
    BY <1>2, <2>1, <2>2
  <2> QED
    BY <2>2, <2>3 DEF ToSet
<1>6. Head(s) \in ToSet(s) /\ Head(s) \in S
  BY <1>1, <1>2 DEF ToSet
<1> QED
  BY <1>2, <1>4, <1>5, <1>6

\* The members of a row that has got one more.
LEMMA RowAppend ==
    ASSUME NEW S, NEW s \in Seq(S), NEW x \in S
    PROVE  Append(s, x) \in Seq(S) /\ ToSet(Append(s, x)) = ToSet(s) \cup {x}
<1>1. /\ Append(s, x) \in Seq(S) /\ Len(s) \in Nat
      /\ DOMAIN s = 1 .. Len(s) /\ DOMAIN Append(s, x) = 1 .. Len(s) + 1
      /\ \A i \in 1 .. Len(s) : Append(s, x)[i] = s[i]
      /\ Append(s, x)[Len(s) + 1] = x
  BY AppendProperties
<1>2. ASSUME NEW y \in ToSet(Append(s, x)) PROVE y \in ToSet(s) \cup {x}
  <2>1. PICK i \in 1 .. Len(s) + 1 : y = Append(s, x)[i]
    BY <1>1, <1>2 DEF ToSet
  <2>2. CASE i = Len(s) + 1
    BY <1>1, <2>1, <2>2
  <2>3. CASE i # Len(s) + 1
    <3>1. i \in 1 .. Len(s)
      BY <1>1, <2>3
    <3> QED
      BY <1>1, <2>1, <3>1 DEF ToSet
  <2> QED
    BY <2>2, <2>3
<1>3. ASSUME NEW y \in ToSet(s) PROVE y \in ToSet(Append(s, x))
  <2>1. PICK i \in 1 .. Len(s) : y = s[i]
    BY <1>1, <1>3 DEF ToSet
  <2>2. i \in DOMAIN Append(s, x) /\ Append(s, x)[i] = y
    BY <1>1, <2>1
  <2> QED
    BY <2>2 DEF ToSet
<1>4. x \in ToSet(Append(s, x))
  <2>1. Len(s) + 1 \in DOMAIN Append(s, x)
    BY <1>1
  <2> QED
    BY <1>1, <2>1 DEF ToSet
<1> QED
  BY <1>1, <1>2, <1>3, <1>4

LEMMA RowMembers ==
    /\ ToSet(<<>>) = {}
    /\ \A S : \A s \in Seq(S) : ToSet(s) \subseteq S /\ (ToSet(s) = {} => s = <<>>)
<1>1. ToSet(<<>>) = {}
  <2>1. DOMAIN <<>> = {}
    OBVIOUS
  <2> QED
    BY <2>1 DEF ToSet
<1>2. ASSUME NEW S, NEW s \in Seq(S)
      PROVE  ToSet(s) \subseteq S /\ (ToSet(s) = {} => s = <<>>)
  <2>1. DOMAIN s = 1 .. Len(s) /\ Len(s) \in Nat /\ \A i \in 1 .. Len(s) : s[i] \in S
    OBVIOUS
  <2>2. ASSUME NEW x \in ToSet(s) PROVE x \in S
    <3>1. PICK i \in 1 .. Len(s) : x = s[i]
      BY <2>1, <2>2 DEF ToSet
    <3> QED
      BY <2>1, <3>1
  <2>3. ASSUME s # <<>> PROVE ToSet(s) # {}
    <3>1. ToSet(s) = {Head(s)} \cup ToSet(Tail(s))
      BY <2>3, RowHead
    <3> QED
      BY <3>1
  <2> QED
    BY <2>2, <2>3
<1> QED
  BY <1>1, <1>2

-----------------------------------------------------------------------------
\* A tag that is the tag of no group of a stuck set may be added.
LEMMA UnbuiltStep ==
    ASSUME Unbuilt, config' = config, NEW t, out' = out \cup {t},
           Distinct => \A S \in SUBSET GroupEntries : Stuck(S) => \A g \in S : g.tag # t
    PROVE  Unbuilt'
<1>1. /\ GroupEntries' = GroupEntries /\ (Distinct' <=> Distinct)
      /\ \A S : Stuck(S)' <=> Stuck(S)
  BY DEF GroupEntries, Entries, Distinct, Stuck, Defined
<1> QED
  BY <1>1 DEF Unbuilt

LEMMA UnbuiltStays ==
    ASSUME Unbuilt, config' = config, out' = out
    PROVE  Unbuilt'
<1>1. /\ GroupEntries' = GroupEntries /\ (Distinct' <=> Distinct)
      /\ \A S : Stuck(S)' <=> Stuck(S)
  BY DEF GroupEntries, Entries, Distinct, Stuck, Defined
<1> QED
  BY <1>1 DEF Unbuilt

\* Two entries with the same tag are one.
LEMMA OneOfTag ==
    ASSUME Distinct, config \in Seq(Entries), NEW g \in Entries, NEW h \in Entries,
           g.tag = h.tag
    PROVE  g = h
<1>1. PICK i \in DOMAIN config : g = config[i]
  BY DEF Entries, ToSet
<1>2. PICK j \in DOMAIN config : h = config[j]
  BY DEF Entries, ToSet
<1>3. i = j
  BY <1>1, <1>2 DEF Distinct
<1> QED
  BY <1>1, <1>2, <1>3

\* A group whose children all exist is in no stuck set.
LEMMA BuildableNotStuck ==
    ASSUME Rows, Known, Unbuilt, Distinct, NEW g \in GroupEntries, g.kids # {},
           g.kids \subseteq out, NEW S \in SUBSET GroupEntries, Stuck(S), NEW h \in S
    PROVE  h.tag # g.tag
<1> SUFFICES ASSUME h.tag = g.tag PROVE FALSE
  OBVIOUS
<1>1. h = g
  BY OneOfTag DEF Rows, GroupEntries
<1>2. PICK k \in g.kids : k \notin Defined \/ \E f \in S : f.tag = k
  BY <1>1 DEF Stuck
<1>3. k \in out /\ k \in Defined
  BY DEF Known
<1>4. PICK f \in S : f.tag = k
  BY <1>2, <1>3
<1> QED
  BY <1>3, <1>4 DEF Unbuilt

\* A row of groups that all miss a child which nobody will build is stuck.
LEMMA RefusedIsBad ==
    ASSUME Rows, Placed, Phases, Refused, phase = "groups", waiting = <<>>, retry # <<>>,
           ~progress
    PROVE  Bad
<1> DEFINE S == ToSet(retry)
<1>1. S \in SUBSET GroupEntries /\ S # {}
  BY RowMembers DEF Rows
<1>2. ASSUME NEW g \in S
      PROVE  \E k \in g.kids : k \notin Defined \/ \E h \in S : h.tag = k
  <2>1. ~(g.kids \subseteq out)
    BY DEF Refused
  <2>2. PICK k \in g.kids : k \notin out
    BY <2>1
  <2>3. ASSUME k \in Defined PROVE \E h \in S : h.tag = k
    <3>1. k \notin Implicit
      BY <2>2 DEF Phases
    <3>2. PICK e \in Entries : e.tag = k
      BY <2>3, <3>1 DEF Defined
    <3>3. ToSet(items) = {} /\ ToSet(waiting) = {}
      BY RowMembers DEF Phases
    <3> QED
      BY <2>2, <3>2, <3>3 DEF Placed
  <2> QED
    BY <2>2, <2>3
<1>3. Stuck(S)
  BY <1>1, <1>2 DEF Stuck
<1> QED
  BY <1>1, <1>3 DEF Bad

LEMMA BuildInitInv ==
    ASSUME NEW E, Configs \subseteq Seq(E), BuildInit
    PROVE  BuildInv
<1>1. \E F : config \in Seq(F)
  <2>1. <<Proxy>> \in Seq({Proxy}) /\ <<>> \in Seq({Proxy})
    OBVIOUS
  <2> QED
    BY <2>1 DEF BuildInit
<1>2. config \in Seq(Entries)
  <2>1. PICK F : config \in Seq(F)
    BY <1>1
  <2>2. \A i \in 1 .. Len(config) : config[i] \in Entries
    BY <2>1 DEF Entries, ToSet
  <2>3. Len(config) \in Nat /\ config = [i \in 1 .. Len(config) |-> config[i]]
    BY <2>1
  <2> QED
    BY <2>2, <2>3
<1>3. Rows
  BY <1>2 DEF BuildInit, Rows
<1>4. Known /\ Unbuilt /\ Refused
  BY RowMembers DEF BuildInit, Known, Unbuilt, Refused
<1>5. Placed
  BY DEF BuildInit, Placed, Entries
<1>6. Phases
  BY DEF BuildInit, Phases
<1> QED
  BY <1>3, <1>4, <1>5, <1>6 DEF BuildInv

LEMMA ReadItemInv ==
    ASSUME BuildInv, ReadItem
    PROVE  BuildInv'
<1> DEFINE i == Head(items)
<1>1. /\ phase = "leaves" /\ items # <<>> /\ retry' = retry /\ progress' = progress
      /\ config' = config /\ retry = <<>> /\ ~progress
  BY DEF ReadItem, BuildInv, Phases
<1>2. /\ Entries' = Entries /\ GroupEntries' = GroupEntries /\ Defined' = Defined
      /\ Bad' = Bad
  BY <1>1 DEF Entries, GroupEntries, Defined, Bad, Stuck
<1>3. /\ i \in Entries /\ Tail(items) \in Seq(Entries)
      /\ ToSet(items) = {i} \cup ToSet(Tail(items)) /\ i.tag \in Defined
  BY <1>1, RowHead DEF BuildInv, Rows, Defined
<1>4. CASE i.tag \in out \/ i.kind \notin LeafKinds \cup GroupKinds
  <2>1. phase' = "error" /\ items' = items /\ out' = out /\ waiting' = waiting
    BY <1>4, <1>1 DEF ReadItem
  <2>2. Unbuilt'
    BY <1>1, <2>1, UnbuiltStays DEF BuildInv
  <2> QED
    BY <1>1, <1>2, <2>1, <2>2 DEF BuildInv, Rows, Known, Placed, Phases, Refused
<1>5. CASE i.tag \notin out /\ i.kind \in LeafKinds
  <2>1. /\ phase' = phase /\ items' = Tail(items) /\ out' = out \cup {i.tag}
        /\ waiting' = waiting
    BY <1>5, <1>1 DEF ReadItem, LeafKinds, GroupKinds
  <2>2. Rows' /\ Known' /\ Placed' /\ Phases'
    BY <1>1, <1>2, <1>3, <2>1 DEF BuildInv, Rows, Known, Placed, Phases
  <2>3. Refused'
    BY <1>1, <2>1, RowMembers DEF Refused
  <2>4. ASSUME Distinct, NEW S \in SUBSET GroupEntries, NEW g \in S PROVE g.tag # i.tag
    <3>1. g \in Entries /\ g.kind \in GroupKinds
      BY DEF GroupEntries
    <3>2. g # i
      BY <1>5, <3>1 DEF LeafKinds, GroupKinds
    <3> QED
      BY <1>3, <2>4, <3>1, <3>2, OneOfTag DEF BuildInv, Rows
  <2>5. Unbuilt'
    BY <1>1, <2>1, <2>4, UnbuiltStep DEF BuildInv
  <2> QED
    BY <2>2, <2>3, <2>5 DEF BuildInv
<1>6. CASE i.tag \notin out /\ i.kind \in GroupKinds
  <2>1. /\ phase' = phase /\ items' = Tail(items) /\ out' = out
        /\ waiting' = Append(waiting, i)
    BY <1>6, <1>1 DEF ReadItem, LeafKinds, GroupKinds
  <2>2. i \in GroupEntries
    BY <1>3, <1>6 DEF GroupEntries
  <2>3. /\ waiting' \in Seq(GroupEntries)
        /\ ToSet(waiting') = ToSet(waiting) \cup {i}
    BY <2>1, <2>2, RowAppend DEF BuildInv, Rows
  <2>4. Rows' /\ Known' /\ Phases'
    BY <1>1, <1>2, <1>3, <2>1, <2>3 DEF BuildInv, Rows, Known, Phases
  <2>5. Placed'
    BY <1>1, <1>2, <1>3, <2>1, <2>3 DEF BuildInv, Placed
  <2>6. Refused' /\ Unbuilt'
    BY <1>1, <2>1, RowMembers, UnbuiltStays DEF BuildInv, Refused
  <2> QED
    BY <2>4, <2>5, <2>6 DEF BuildInv
<1> QED
  BY <1>4, <1>5, <1>6

LEMMA TryGroupInv ==
    ASSUME BuildInv, TryGroup
    PROVE  BuildInv'
<1> DEFINE g == Head(waiting)
<1>1. /\ phase = "groups" /\ waiting # <<>> /\ waiting' = Tail(waiting)
      /\ items' = items /\ config' = config /\ items = <<>> /\ Implicit \subseteq out
  BY DEF TryGroup, BuildInv, Phases
<1>2. /\ Entries' = Entries /\ GroupEntries' = GroupEntries /\ Defined' = Defined
      /\ Bad' = Bad
  BY <1>1 DEF Entries, GroupEntries, Defined, Bad, Stuck
<1>3. /\ g \in GroupEntries /\ Tail(waiting) \in Seq(GroupEntries)
      /\ ToSet(waiting) = {g} \cup ToSet(Tail(waiting))
  BY <1>1, RowHead DEF BuildInv, Rows
<1>4. g \in Entries /\ g.tag \in Defined
  BY <1>3 DEF GroupEntries, Defined
<1>5. CASE g.kids = {}
  <2>1. phase' = "error" /\ out' = out /\ retry' = retry /\ progress' = progress
    BY <1>1, <1>5 DEF TryGroup
  <2>2. Stuck({g})
    BY <1>5 DEF Stuck
  <2>3. Bad
    BY <1>3, <2>2 DEF Bad
  <2>4. Rows' /\ Known' /\ Placed' /\ Refused'
    BY <1>1, <1>2, <1>3, <2>1 DEF BuildInv, Rows, Known, Placed, Refused
  <2>5. Phases'
    BY <1>2, <2>1, <2>3 DEF Phases
  <2>6. Unbuilt'
    BY <1>1, <2>1, UnbuiltStays DEF BuildInv
  <2> QED
    BY <2>4, <2>5, <2>6 DEF BuildInv
<1>6. CASE g.kids # {} /\ g.kids \subseteq out
  <2>1. phase' = phase /\ out' = out \cup {g.tag} /\ retry' = retry /\ progress' = TRUE
    BY <1>1, <1>6 DEF TryGroup
  <2>2. Rows' /\ Known' /\ Placed' /\ Phases' /\ Refused'
    BY <1>1, <1>2, <1>3, <1>4, <2>1 DEF BuildInv, Rows, Known, Placed, Phases, Refused
  <2>3. Unbuilt'
    BY <1>1, <1>3, <1>6, <2>1, BuildableNotStuck, UnbuiltStep DEF BuildInv
  <2> QED
    BY <2>2, <2>3 DEF BuildInv
<1>7. CASE g.kids # {} /\ ~(g.kids \subseteq out)
  <2>1. phase' = phase /\ out' = out /\ retry' = Append(retry, g) /\ progress' = progress
    BY <1>1, <1>7 DEF TryGroup
  <2>2. retry' \in Seq(GroupEntries) /\ ToSet(retry') = ToSet(retry) \cup {g}
    BY <1>3, <2>1, RowAppend DEF BuildInv, Rows
  <2>3. Rows' /\ Known' /\ Phases'
    BY <1>1, <1>2, <1>3, <2>1, <2>2 DEF BuildInv, Rows, Known, Phases
  <2>4. Placed' /\ Refused'
    BY <1>1, <1>2, <1>3, <1>7, <2>1, <2>2 DEF BuildInv, Placed, Refused
  <2>5. Unbuilt'
    BY <1>1, <2>1, UnbuiltStays DEF BuildInv
  <2> QED
    BY <2>3, <2>4, <2>5 DEF BuildInv
<1> QED
  BY <1>5, <1>6, <1>7

LEMMA EndRoundInv ==
    ASSUME BuildInv, EndRound
    PROVE  BuildInv'
<1>1. /\ phase = "groups" /\ waiting = <<>> /\ waiting' = retry /\ retry' = <<>>
      /\ progress' = FALSE /\ items' = items /\ out' = out /\ config' = config
      /\ phase' = IF retry = <<>> THEN "built" ELSE IF progress THEN "groups" ELSE "error"
      /\ items = <<>> /\ Implicit \subseteq out
  BY DEF EndRound, BuildInv, Phases
<1>2. /\ Entries' = Entries /\ GroupEntries' = GroupEntries /\ Defined' = Defined
      /\ Bad' = Bad
  BY <1>1 DEF Entries, GroupEntries, Defined, Bad, Stuck
<1>3. Rows' /\ Known'
  BY <1>1, <1>2 DEF BuildInv, Rows, Known
<1>4. Placed' /\ Refused'
  BY <1>1, <1>2, RowMembers DEF BuildInv, Placed, Refused
<1>5. Phases'
  <2>1. retry # <<>> /\ ~progress => Bad
    BY <1>1, RefusedIsBad DEF BuildInv
  <2> QED
    BY <1>1, <1>2, <2>1 DEF Phases
<1>6. Unbuilt'
  BY <1>1, UnbuiltStays DEF BuildInv
<1> QED
  BY <1>3, <1>4, <1>5, <1>6 DEF BuildInv

LEMMA AddImplicitInv ==
    ASSUME BuildInv, AddImplicit
    PROVE  BuildInv'
<1>1. /\ phase = "leaves" /\ items = <<>> /\ out' = out \cup Implicit /\ phase' = "groups"
      /\ UNCHANGED <<items, waiting, retry, progress, config>>
      /\ retry = <<>> /\ ~progress
  BY DEF AddImplicit, BuildInv, Phases
<1>2. /\ Entries' = Entries /\ GroupEntries' = GroupEntries /\ Defined' = Defined
      /\ \A S : Stuck(S)' <=> Stuck(S)
      /\ Distinct' <=> Distinct
  BY <1>1 DEF Entries, GroupEntries, Defined, Stuck, Distinct
<1>3. Rows' /\ Known' /\ Placed' /\ Phases'
  BY <1>1, <1>2 DEF BuildInv, Rows, Known, Placed, Phases, Defined
<1>4. Refused'
  BY <1>1, RowMembers DEF Refused
<1>5. Unbuilt'
  BY <1>1, <1>2 DEF BuildInv, Unbuilt, Distinct
<1> QED
  BY <1>3, <1>4, <1>5 DEF BuildInv

LEMMA BuildNextInv == BuildInv /\ [BuildNext]_buildVars => BuildInv'
<1> SUFFICES ASSUME BuildInv, [BuildNext]_buildVars PROVE BuildInv'
  OBVIOUS
<1>1. CASE ReadItem
  BY <1>1, ReadItemInv
<1>2. ASSUME \/ ResolveFails
             \/ UNCHANGED buildVars
      PROVE  BuildInv'
  <2>1. /\ UNCHANGED <<items, waiting, retry, progress, out, config>>
        /\ phase' = phase \/ (phase = "leaves" /\ phase' = "error" /\ items # <<>>)
    BY <1>2 DEF ResolveFails, buildVars
  <2>2. /\ Entries' = Entries /\ GroupEntries' = GroupEntries /\ Defined' = Defined
        /\ Bad' = Bad
    BY <2>1 DEF Entries, GroupEntries, Defined, Bad, Stuck
  <2>3. Unbuilt'
    BY <2>1, UnbuiltStays DEF BuildInv
  <2> QED
    BY <2>1, <2>2, <2>3 DEF BuildInv, Rows, Known, Placed, Phases, Refused
<1>3. CASE AddImplicit
  BY <1>3, AddImplicitInv
<1>4. CASE TryGroup
  BY <1>4, TryGroupInv
<1>5. CASE EndRound
  BY <1>5, EndRoundInv
<1> QED
  BY <1>1, <1>2, <1>3, <1>4, <1>5 DEF BuildNext

LEMMA BuildInvExact == BuildInv => BuildExact
<1> SUFFICES ASSUME BuildInv PROVE BuildExact
  OBVIOUS
<1>1. ASSUME phase = "built", Distinct PROVE ~Bad /\ out = Defined
  <2>1. ToSet(items) = {} /\ ToSet(waiting) = {} /\ ToSet(retry) = {} /\ Implicit \subseteq out
    BY <1>1, RowMembers DEF BuildInv, Phases
  <2>2. \A e \in Entries : e.tag \in out
    BY <1>1, <2>1 DEF BuildInv, Placed
  <2>3. out = Defined
    BY <2>1, <2>2 DEF BuildInv, Known, Defined
  <2>4. ASSUME Bad PROVE FALSE
    <3>1. PICK S \in SUBSET GroupEntries : Stuck(S)
      BY <2>4 DEF Bad
    <3>2. PICK g \in S : TRUE
      BY <3>1 DEF Stuck
    <3>3. g.tag \in out
      BY <2>2 DEF GroupEntries
    <3> QED
      BY <1>1, <3>1, <3>3 DEF BuildInv, Unbuilt
  <2> QED
    BY <2>3, <2>4
<1> QED
  BY <1>1 DEF BuildInv, Phases, BuildExact

\* For every configuration whose tags are distinct, the rounds build all of
\* it exactly when no set of groups is circular, dangling or empty; and no
\* configuration is turned down in the rounds without such a set.
THEOREM BuildIsExact ==
    ASSUME NEW E, Configs \subseteq Seq(E)
    PROVE  BuildSpec => []BuildExact
<1>1. BuildInit => BuildInv
  BY BuildInitInv
<1> QED
  BY <1>1, BuildNextInv, BuildInvExact, PTL DEF BuildSpec

(***************************************************************************)
(* OutboundGroups                                                          *)
(***************************************************************************)

\* What the choice needs of the state: a selector selects a child, a latency
\* is one that can be observed or none.
GroupInv ==
    /\ cur \in [Groups -> Nodes]
    /\ \A g \in Groups : Kind[g] = "selector" => cur[g] \in KidSet(g)
    /\ lat \in [Mirages -> Lats \cup {NoLat}]

\* Induction over positions, as the absence of a least counterexample.
LEMMA Least ==
    ASSUME NEW S, S \subseteq Nat, S # {}
    PROVE  \E x \in S : \A y \in S : x <= y
<1>1. \E x \in S : \A y \in S : ~ (<<y, x>> \in OpToRel(<, Nat))
  BY NatLessThanWellFounded, WFMin
<1>2. PICK x \in S : \A y \in S : ~ (<<y, x>> \in OpToRel(<, Nat))
  BY <1>1
<1>3. ASSUME NEW y \in S PROVE x <= y
  <2>1. x \in Nat /\ y \in Nat
    OBVIOUS
  <2>2. ~ (y < x)
    BY <1>2, <2>1 DEF OpToRel
  <2> QED
    BY <2>1, <2>2
<1> QED
  BY <1>3

LEMMA OrderFacts ==
    ASSUME OrderedTree
    PROVE  /\ Len(Order) \in Nat /\ DOMAIN Order = 1 .. Len(Order)
           /\ Nodes = {Order[i] : i \in DOMAIN Order}
           /\ Groups \subseteq Nodes /\ Mirages \subseteq Nodes
           /\ \A g \in Groups : KidSet(g) \subseteq Nodes /\ KidSet(g) # {}
<1>1. Len(Order) \in Nat /\ DOMAIN Order = 1 .. Len(Order)
  BY DEF OrderedTree
<1>2. Nodes = {Order[i] : i \in DOMAIN Order}
  BY DEF Nodes, ToSet
<1>3. ASSUME NEW g \in Groups PROVE KidSet(g) \subseteq Nodes /\ KidSet(g) # {}
  <2>1. Kids[g] \in Seq(Nodes) /\ Kids[g] # <<>>
    BY DEF OrderedTree
  <2>2. Len(Kids[g]) \in Nat /\ Len(Kids[g]) > 0 /\ DOMAIN Kids[g] = 1 .. Len(Kids[g])
    BY <2>1, EmptySeq
  <2>3. \A i \in DOMAIN Kids[g] : Kids[g][i] \in Nodes
    BY <2>1
  <2>4. 1 \in DOMAIN Kids[g]
    BY <2>2
  <2> QED
    BY <2>3, <2>4 DEF KidSet, ToSet
<1> QED
  BY <1>1, <1>2, <1>3 DEF Groups, Mirages

\* The first child in a set is a child in the set.
LEMMA FirstIn ==
    ASSUME OrderedTree, NEW g \in Groups, NEW S, S \subseteq KidSet(g), S # {}
    PROVE  First(g, S) \in S
<1> DEFINE I == {i \in DOMAIN Kids[g] : Kids[g][i] \in S}
<1>1. Kids[g] \in Seq(Nodes)
  BY DEF OrderedTree
<1>2. I \subseteq Nat /\ I # {}
  <2>1. DOMAIN Kids[g] \subseteq Nat
    BY <1>1
  <2> QED
    BY <2>1 DEF KidSet, ToSet
<1>3. \E x \in I : \A y \in I : x <= y
  <2> HIDE DEF I
  <2> QED
    BY <1>2, Least
<1>4. \E i \in DOMAIN Kids[g] : /\ Kids[g][i] \in S
                                /\ \A j \in DOMAIN Kids[g] : Kids[g][j] \in S => i <= j
  BY <1>3
<1> QED
  BY <1>4 DEF First

\* What the children of n told, in r, is of its type; r and s agree on it.
KidsTold(n, r) == n \in Groups => \A k \in KidSet(n) : r[k].lat \in Lats \cup {NoLat}
KidsAgree(n, r, s) == n \in Groups => \A k \in KidSet(n) : r[k] = s[k]

\* The best child is the first of the fastest.
LEMMA BestIn ==
    ASSUME OrderedTree, NEW g \in Groups, NEW r, KidsTold(g, r),
           NEW S, S \subseteq KidSet(g), S # {}, \A k \in S : r[k].lat # NoLat
    PROVE  /\ Best(g, r, S) \in S
           /\ \A k \in S : r[Best(g, r, S)].lat <= r[k].lat
<1> DEFINE L == {r[k].lat : k \in S}
           B == {k \in S : \A j \in S : r[k].lat <= r[j].lat}
<1>1. \A k \in S : r[k].lat \in Nat
  BY DEF KidsTold, OrderedTree
<1>2. L \subseteq Nat /\ L # {}
  BY <1>1
<1>3. \E x \in L : \A y \in L : x <= y
  <2> HIDE DEF L
  <2> QED
    BY <1>2, Least
<1>4. B # {} /\ B \subseteq S
  BY <1>3
<1>5. First(g, B) \in B
  <2> HIDE DEF B
  <2> QED
    BY <1>4, FirstIn
<1> QED
  BY <1>5 DEF Best

LEMMA PickUrlIn ==
    ASSUME OrderedTree, NEW g \in Groups, NEW r, KidsTold(g, r), HealthyKids(g, r) # {}
    PROVE  /\ PickUrl(g, r) \in HealthyKids(g, r)
           /\ \A k \in HealthyKids(g, r) : r[k].lat # NoLat =>
                /\ r[PickUrl(g, r)].lat \in Lats /\ r[k].lat \in Lats
                /\ 0 < Tolerance => r[PickUrl(g, r)].lat - r[k].lat < Tolerance
<1> DEFINE H == HealthyKids(g, r)
           timed == {k \in H : r[k].lat # NoLat}
           best == Best(g, r, timed)
           Stays == cur[g] \in H /\ r[cur[g]].lat # NoLat /\ r[cur[g]].lat - r[best].lat < Tolerance
<1>1. H \subseteq KidSet(g)
  BY DEF HealthyKids
<1>2. \A k \in timed : r[k].lat \in Lats /\ r[k].lat \in Nat
  BY <1>1 DEF KidsTold, OrderedTree
<1>3. timed \subseteq KidSet(g) /\ \A k \in timed : r[k].lat # NoLat
  BY <1>1
<1>4. CASE timed = {}
  <2>1. PickUrl(g, r) = IF cur[g] \in H THEN cur[g] ELSE First(g, H)
    BY <1>4 DEF PickUrl
  <2>2. First(g, H) \in H
    BY <1>1, FirstIn
  <2> QED
    BY <1>4, <2>1, <2>2
<1>5. CASE timed # {}
  <2>1. PickUrl(g, r) = IF Stays THEN cur[g] ELSE best
    BY <1>5 DEF PickUrl
  <2>2. best \in timed /\ \A k \in timed : r[best].lat <= r[k].lat
    <3> HIDE DEF timed
    <3> QED
      BY <1>3, <1>5, BestIn
  <2>3. Tolerance \in Int
    BY DEF OrderedTree
  <2> HIDE DEF best
  <2>4. CASE Stays
    <3>1. PickUrl(g, r) = cur[g] /\ cur[g] \in timed
      BY <2>1, <2>4
    <3> QED
      BY <1>2, <2>2, <2>3, <2>4, <3>1
  <2>5. CASE ~Stays
    BY <1>2, <2>1, <2>2, <2>3, <2>5
  <2> QED
    BY <2>4, <2>5
<1> QED
  BY <1>4, <1>5

\* The answer of a node depends on those of its children only, and has a
\* latency that can be observed, or none, if theirs have.
AnswersLocal ==
    \A n \in Nodes : \A r, s :
        GroupInv /\ KidsTold(n, r) /\ KidsAgree(n, r, s) =>
            /\ Answer(n, r) = Answer(n, s)
            /\ Answer(n, r).lat \in Lats \cup {NoLat}

LEMMA SameHealthyKids ==
    ASSUME NEW g \in Groups, NEW r, NEW s, KidsAgree(g, r, s)
    PROVE  HealthyKids(g, r) = HealthyKids(g, s)
BY DEF HealthyKids, KidsAgree

LEMMA SamePickUrl ==
    ASSUME OrderedTree, NEW g \in Groups, NEW r, NEW s, KidsTold(g, r), KidsAgree(g, r, s)
    PROVE  PickUrl(g, r) = PickUrl(g, s)
<1> DEFINE H == HealthyKids(g, r)
           T(u) == {k \in H : u[k].lat # NoLat}
<1>1. HealthyKids(g, s) = H /\ H \subseteq KidSet(g)
  BY SameHealthyKids DEF HealthyKids
<1>2. \A k \in H : r[k] = s[k]
  BY <1>1 DEF KidsAgree
<1>3. T(r) = T(s)
  BY <1>2
<1>4. Best(g, r, T(r)) = Best(g, s, T(r))
  <2>1. {k \in T(r) : \A j \in T(r) : r[k].lat <= r[j].lat}
          = {k \in T(r) : \A j \in T(r) : s[k].lat <= s[j].lat}
    BY <1>2
  <2> QED
    BY <2>1 DEF Best
<1>5. ASSUME T(r) # {} PROVE Best(g, r, T(r)) \in H
  <2> DEFINE V == T(r)
  <2>1. V \subseteq KidSet(g) /\ V # {} /\ V \subseteq H /\ \A k \in V : r[k].lat # NoLat
    BY <1>1, <1>5
  <2> HIDE DEF V, H
  <2>2. Best(g, r, V) \in V
    BY <2>1, BestIn
  <2> QED
    BY <2>1, <2>2 DEF V
<1> DEFINE b == Best(g, r, T(r))
           P(u) == IF H = {} THEN g
                   ELSE IF T(r) = {} THEN IF cur[g] \in H THEN cur[g] ELSE First(g, H)
                   ELSE IF cur[g] \in H /\ u[cur[g]].lat # NoLat
                           /\ u[cur[g]].lat - u[b].lat < Tolerance
                        THEN cur[g] ELSE b
<1>6. PickUrl(g, r) = P(r)
  BY DEF PickUrl
<1>7. PickUrl(g, s) = P(s)
  <2> HIDE DEF H
  <2>1. PickUrl(g, s)
          = IF H = {} THEN g
            ELSE IF T(s) = {} THEN IF cur[g] \in H THEN cur[g] ELSE First(g, H)
            ELSE IF cur[g] \in H /\ s[cur[g]].lat # NoLat
                    /\ s[cur[g]].lat - s[Best(g, s, T(s))].lat < Tolerance
                 THEN cur[g] ELSE Best(g, s, T(s))
    BY <1>1 DEF PickUrl
  <2>2. Best(g, s, T(s)) = b
    BY <1>3, <1>4
  <2> QED
    BY <1>3, <2>1, <2>2
<1>8. P(r) = P(s)
  <2> HIDE DEF H
  <2>1. CASE T(r) = {}
    BY <2>1
  <2>2. CASE T(r) # {}
    <3>1. r[b] = s[b]
      BY <1>2, <1>5, <2>2
    <3>2. cur[g] \in H => r[cur[g]] = s[cur[g]]
      BY <1>2
    <3> HIDE DEF b
    <3> QED
      BY <2>2, <3>1, <3>2
  <2> QED
    BY <2>1, <2>2
<1> HIDE DEF P
<1> QED
  BY <1>6, <1>7, <1>8

LEMMA PickFallbackIn ==
    ASSUME OrderedTree, NEW g \in Groups, NEW r
    PROVE  /\ PickFallback(g, r) \in KidSet(g)
           /\ HealthyKids(g, r) # {} => PickFallback(g, r) \in HealthyKids(g, r)
<1>1. HealthyKids(g, r) \subseteq KidSet(g)
  BY DEF HealthyKids
<1>2. Kids[g][1] \in KidSet(g)
  <2>1. Kids[g] \in Seq(Nodes) /\ Kids[g] # <<>>
    BY DEF OrderedTree
  <2>2. 1 \in DOMAIN Kids[g]
    BY <2>1, EmptySeq
  <2> QED
    BY <2>2 DEF KidSet, ToSet
<1>3. HealthyKids(g, r) # {} => First(g, HealthyKids(g, r)) \in HealthyKids(g, r)
  BY <1>1, FirstIn
<1> QED
  BY <1>1, <1>2, <1>3 DEF PickFallback

LEMMA AnswerLocal == OrderedTree => AnswersLocal
<1> SUFFICES ASSUME OrderedTree, NEW n \in Nodes, NEW r, NEW s,
                    GroupInv, KidsTold(n, r), KidsAgree(n, r, s)
             PROVE  /\ Answer(n, r) = Answer(n, s)
                    /\ Answer(n, r).lat \in Lats \cup {NoLat}
  BY DEF AnswersLocal
<1>1. CASE Kind[n] = "mirage"
  <2>1. lat[n] \in Lats \cup {NoLat}
    BY <1>1 DEF GroupInv, Mirages
  <2> QED
    BY <1>1, <2>1 DEF Answer
<1>2. CASE Kind[n] = "selector"
  <2>1. n \in Groups /\ cur[n] \in KidSet(n)
    BY <1>2 DEF Groups, GroupInv
  <2>2. r[cur[n]] = s[cur[n]] /\ r[cur[n]].lat \in Lats \cup {NoLat}
    BY <2>1 DEF KidsTold, KidsAgree
  <2> QED
    BY <1>2, <2>2 DEF Answer
<1>3. CASE Kind[n] = "fallback"
  <2>1. n \in Groups
    BY <1>3 DEF Groups
  <2>2. HealthyKids(n, r) = HealthyKids(n, s)
    BY <2>1, SameHealthyKids
  <2>3. PickFallback(n, r) = PickFallback(n, s)
    BY <2>2 DEF PickFallback
  <2>4. PickFallback(n, r) \in KidSet(n)
    BY <2>1, PickFallbackIn
  <2> DEFINE k == PickFallback(n, r)
  <2>5. r[k] = s[k] /\ r[k].lat \in Lats \cup {NoLat}
    BY <2>1, <2>4 DEF KidsTold, KidsAgree
  <2> HIDE DEF k
  <2>6. PickFallback(n, r) = k /\ PickFallback(n, s) = k
    BY <2>3 DEF k
  <2> QED
    BY <1>3, <2>2, <2>5, <2>6 DEF Answer
<1>4. CASE Kind[n] = "urltest"
  <2>1. n \in Groups
    BY <1>4 DEF Groups
  <2>2. HealthyKids(n, r) = HealthyKids(n, s) /\ HealthyKids(n, r) \subseteq KidSet(n)
    BY <2>1, SameHealthyKids DEF HealthyKids
  <2>3. CASE HealthyKids(n, r) = {}
    BY <1>4, <2>2, <2>3 DEF Answer
  <2>4. CASE HealthyKids(n, r) # {}
    <3> DEFINE k == PickUrl(n, r)
               H == HealthyKids(n, r)
    <3>1. k \in H /\ PickUrl(n, s) = k
      BY <2>1, <2>4, PickUrlIn, SamePickUrl
    <3>2. r[k] = s[k] /\ r[k].lat \in Lats \cup {NoLat}
      BY <2>1, <2>2, <3>1 DEF KidsTold, KidsAgree
    <3>3. {r[i].asked : i \in H} = {s[i].asked : i \in H}
      BY <2>1, <2>2 DEF KidsAgree
    <3>4. HealthyKids(n, r) = H /\ HealthyKids(n, s) = H /\ PickUrl(n, r) = k
      BY <2>2
    <3> HIDE DEF k, H
    <3>5. Answer(n, r) = [healthy |-> TRUE, leaf |-> r[k].leaf, pick |-> k, lat |-> r[k].lat,
                          asked |-> {n} \cup UNION {r[i].asked : i \in H}]
      BY <1>4, <2>4, <3>4 DEF Answer
    <3>6. Answer(n, s) = [healthy |-> TRUE, leaf |-> s[k].leaf, pick |-> k, lat |-> s[k].lat,
                          asked |-> {n} \cup UNION {s[i].asked : i \in H}]
      BY <1>4, <2>4, <3>1, <3>4 DEF Answer
    <3>7. Answer(n, r).lat = r[k].lat
      BY <3>5
    <3>8. r[k].leaf = s[k].leaf /\ r[k].lat = s[k].lat
      BY <3>2
    <3>9. Answer(n, r) = Answer(n, s)
      BY <3>3, <3>5, <3>6, <3>8, Zenon
    <3> QED
      BY <3>2, <3>7, <3>9
  <2> QED
    BY <2>3, <2>4
<1>5. CASE Kind[n] \notin {"mirage", "selector", "fallback", "urltest"}
  BY <1>5 DEF Answer
<1> QED
  BY <1>1, <1>2, <1>3, <1>4, <1>5

-----------------------------------------------------------------------------
\* told exists: the first i nodes, for every i.
TellNext(i, S) == {[r EXCEPT ![Order[i]] = Answer(Order[i], r)] : r \in S}
ToldUpTo(f, m) == f = [i \in 0 .. m |-> IF i = 0 THEN {NoAnswers} ELSE TellNext(i, f[i - 1])]

LEMMA ToldExists == \A m \in Nat : \E f : ToldUpTo(f, m)
<1> DEFINE S == {m \in Nat : ~ \E f : ToldUpTo(f, m)}
<1> SUFFICES ASSUME S # {} PROVE FALSE
  OBVIOUS
<1>1. PICK m \in S : \A y \in S : m <= y
  <2>1. S \subseteq Nat
    OBVIOUS
  <2> HIDE DEF S
  <2> QED
    BY <2>1, Least
<1>2. m \in Nat /\ ~ \E f : ToldUpTo(f, m)
  BY <1>1
<1>3. CASE m = 0
  <2> DEFINE f == [i \in 0 .. 0 |-> {NoAnswers}]
  <2>1. f = [i \in 0 .. 0 |-> IF i = 0 THEN {NoAnswers} ELSE TellNext(i, f[i - 1])]
    OBVIOUS
  <2> HIDE DEF f
  <2>2. ToldUpTo(f, m)
    BY <1>3, <2>1 DEF ToldUpTo
  <2> QED
    BY <1>2, <2>2
<1>4. CASE m # 0
  <2>1. m - 1 \in Nat /\ m - 1 \notin S
    BY <1>1, <1>2, <1>4
  <2>2. PICK f : ToldUpTo(f, m - 1)
    BY <2>1
  <2> DEFINE h == [i \in 0 .. m |-> IF i = m THEN TellNext(m, f[m - 1]) ELSE f[i]]
  <2>3. ASSUME NEW i \in 0 .. m
        PROVE  h[i] = IF i = 0 THEN {NoAnswers} ELSE TellNext(i, h[i - 1])
    <3>1. CASE i = 0
      <4>1. f[0] = {NoAnswers}
        BY <2>1, <2>2 DEF ToldUpTo
      <4> QED
        BY <1>4, <3>1, <4>1
    <3>2. CASE i = m
      <4>1. h[i - 1] = f[m - 1] /\ h[i] = TellNext(m, f[m - 1])
        BY <1>2, <1>4, <3>2
      <4> HIDE DEF h
      <4> QED
        BY <1>4, <3>2, <4>1
    <3>3. CASE i # 0 /\ i # m
      <4>1. i \in 0 .. m - 1 /\ i - 1 \in 0 .. m - 1 /\ i - 1 \in 0 .. m
        BY <1>2, <3>3
      <4>2. h[i - 1] = f[i - 1] /\ h[i] = f[i]
        BY <1>2, <3>3, <4>1
      <4>3. f[i] = TellNext(i, f[i - 1])
        BY <2>2, <3>3, <4>1 DEF ToldUpTo
      <4> HIDE DEF h
      <4> QED
        BY <3>3, <4>2, <4>3
    <3> QED
      BY <3>1, <3>2, <3>3
  <2>4. h = [i \in 0 .. m |-> h[i]]
    OBVIOUS
  <2> HIDE DEF h
  <2>5. ToldUpTo(h, m)
    BY <2>3, <2>4 DEF ToldUpTo
  <2> QED
    BY <1>2, <2>5
<1> QED
  BY <1>3, <1>4

LEMMA ToldEach ==
    ASSUME OrderedTree, NEW i \in 0 .. Len(Order)
    PROVE  told[i] = IF i = 0 THEN {NoAnswers} ELSE TellNext(i, told[i - 1])
<1>1. \E f : ToldUpTo(f, Len(Order))
  BY OrderFacts, ToldExists
<1>2. \E f : f = [j \in 0 .. Len(Order) |->
                    IF j = 0 THEN {NoAnswers}
                    ELSE {[r EXCEPT ![Order[j]] = Answer(Order[j], r)] : r \in f[j - 1]}]
  BY <1>1 DEF ToldUpTo, TellNext
<1>3. told = [j \in 0 .. Len(Order) |->
                 IF j = 0 THEN {NoAnswers}
                 ELSE {[r EXCEPT ![Order[j]] = Answer(Order[j], r)] : r \in told[j - 1]}]
  BY <1>2 DEF told
<1> HIDE DEF told
<1> QED
  BY <1>3 DEF TellNext

\* r answers for the first i nodes as their handlers would, given r.
AnswersUpTo(i, r) ==
    /\ r = [n \in Nodes |-> r[n]]
    /\ \A j \in 1 .. i : /\ r[Order[j]] = Answer(Order[j], r)
                         /\ r[Order[j]].lat \in Lats \cup {NoLat}

LEMMA ToldStep ==
    ASSUME OrderedTree, GroupInv, NEW i \in 1 .. Len(Order), NEW r, AnswersUpTo(i - 1, r),
           NEW s, s = [r EXCEPT ![Order[i]] = Answer(Order[i], r)]
    PROVE  AnswersUpTo(i, s)
<1>1. /\ Len(Order) \in Nat /\ DOMAIN Order = 1 .. Len(Order) /\ i \in Nat
      /\ \A j \in 1 .. i : Order[j] \in Nodes /\ j \in DOMAIN Order
  BY OrderFacts
<1>2. \A j \in 1 .. i - 1 : Order[j] # Order[i]
  <2> SUFFICES ASSUME NEW j \in 1 .. i - 1, Order[j] = Order[i] PROVE FALSE
    OBVIOUS
  <2>1. j \in DOMAIN Order /\ i \in DOMAIN Order /\ j # i
    BY <1>1
  <2> QED
    BY <2>1 DEF OrderedTree
<1>5. s = [n \in Nodes |-> s[n]] /\ s[Order[i]] = Answer(Order[i], r)
  BY <1>1 DEF AnswersUpTo
<1>6. \A j \in 1 .. i - 1 : s[Order[j]] = r[Order[j]]
  BY <1>1, <1>2 DEF AnswersUpTo
<1>7. ASSUME NEW j \in 1 .. i
      PROVE  /\ KidsTold(Order[j], r) /\ KidsAgree(Order[j], r, s)
             /\ Answer(Order[j], r) = Answer(Order[j], s)
             /\ Answer(Order[j], r).lat \in Lats \cup {NoLat}
  <2>1. Order[j] \in Nodes /\ j \in DOMAIN Order /\ j \in Nat
    BY <1>1
  <2>2. ASSUME Order[j] \in Groups, NEW k \in KidSet(Order[j])
        PROVE  r[k].lat \in Lats \cup {NoLat} /\ r[k] = s[k]
    <3>1. PICK m \in 1 .. j - 1 : Order[m] = k
      BY <2>1, <2>2 DEF OrderedTree
    <3>2. m \in 1 .. i - 1
      BY <1>1, <2>1, <3>1
    <3> QED
      BY <1>6, <3>1, <3>2 DEF AnswersUpTo
  <2>3. KidsTold(Order[j], r) /\ KidsAgree(Order[j], r, s)
    BY <2>2 DEF KidsTold, KidsAgree
  <2>4. AnswersLocal
    BY AnswerLocal
  <2> QED
    BY <2>1, <2>3, <2>4 DEF AnswersLocal
<1>8. ASSUME NEW j \in 1 .. i
      PROVE  s[Order[j]] = Answer(Order[j], s) /\ s[Order[j]].lat \in Lats \cup {NoLat}
  <2>1. CASE j = i
    BY <1>5, <1>7, <2>1
  <2>2. CASE j # i
    <3>1. j \in 1 .. i - 1
      BY <1>1, <2>2
    <3>2. r[Order[j]] = Answer(Order[j], r) /\ s[Order[j]] = r[Order[j]]
      BY <1>6, <3>1 DEF AnswersUpTo
    <3> QED
      BY <1>7, <3>2
  <2> QED
    BY <2>1, <2>2
<1> QED
  BY <1>5, <1>8 DEF AnswersUpTo

LEMMA ToldAnswers ==
    ASSUME OrderedTree, GroupInv
    PROVE  \A i \in 0 .. Len(Order) : told[i] # {} /\ \A r \in told[i] : AnswersUpTo(i, r)
<1> DEFINE P(i) == told[i] # {} /\ \A r \in told[i] : AnswersUpTo(i, r)
           S == {i \in 0 .. Len(Order) : ~ P(i)}
<1> SUFFICES ASSUME S # {} PROVE FALSE
  OBVIOUS
<1>1. Len(Order) \in Nat
  BY OrderFacts
<1>2. PICK m \in S : \A y \in S : m <= y
  <2>1. S \subseteq Nat
    BY <1>1
  <2> HIDE DEF S
  <2> QED
    BY <2>1, Least
<1>3. m \in 0 .. Len(Order) /\ ~ P(m) /\ m \in Nat
  BY <1>1, <1>2
<1>4. told[m] = IF m = 0 THEN {NoAnswers} ELSE TellNext(m, told[m - 1])
  BY <1>3, ToldEach
<1>5. CASE m = 0
  <2>1. told[m] = {NoAnswers}
    BY <1>4, <1>5
  <2>3. AnswersUpTo(0, NoAnswers)
    BY DEF AnswersUpTo, NoAnswers
  <2> QED
    BY <1>3, <1>5, <2>1, <2>3
<1>6. CASE m # 0
  <2>1. m - 1 \in 0 .. Len(Order) /\ m - 1 \notin S /\ m \in 1 .. Len(Order)
    BY <1>1, <1>2, <1>3, <1>6
  <2>2. P(m - 1)
    BY <2>1
  <2>3. told[m] = {[r EXCEPT ![Order[m]] = Answer(Order[m], r)] : r \in told[m - 1]}
    BY <1>4, <1>6 DEF TellNext
  <2>4. ASSUME NEW s \in told[m] PROVE AnswersUpTo(m, s)
    <3>1. PICK r \in told[m - 1] : s = [r EXCEPT ![Order[m]] = Answer(Order[m], r)]
      BY <2>3
    <3>2. AnswersUpTo(m - 1, r)
      BY <2>2
    <3> QED
      BY <2>1, <3>1, <3>2, ToldStep
  <2>5. told[m] # {}
    BY <2>2, <2>3
  <2> QED
    BY <1>3, <2>4, <2>5
<1> QED
  BY <1>5, <1>6

\* What a question to the tree is answered with: one answer for every node,
\* each computed from those of its children.
AnswersOf(r) ==
    /\ r = [n \in Nodes |-> r[n]]
    /\ \A n \in Nodes : r[n] = Answer(n, r) /\ r[n].lat \in Lats \cup {NoLat}
TellAnswers == GroupInv => Tell # {} /\ \A r \in Tell : AnswersOf(r)

LEMMA TellIsAnswers == OrderedTree => TellAnswers
<1> SUFFICES ASSUME OrderedTree, GroupInv PROVE Tell # {} /\ \A r \in Tell : AnswersOf(r)
  BY DEF TellAnswers
<1>1. Len(Order) \in 0 .. Len(Order) /\ Nodes = {Order[j] : j \in 1 .. Len(Order)}
  BY OrderFacts
<1>2. Tell # {} /\ \A r \in Tell : AnswersUpTo(Len(Order), r)
  BY <1>1, ToldAnswers DEF Tell
<1>3. ASSUME NEW r, AnswersUpTo(Len(Order), r) PROVE AnswersOf(r)
  BY <1>1, <1>3 DEF AnswersUpTo, AnswersOf
<1> QED
  BY <1>2, <1>3

-----------------------------------------------------------------------------
LEMMA ToldOfKids ==
    ASSUME OrderedTree, NEW r, AnswersOf(r), NEW n \in Nodes
    PROVE  KidsTold(n, r)
<1>1. n \in Groups => KidSet(n) \subseteq Nodes
  BY OrderFacts
<1> QED
  BY <1>1 DEF KidsTold, AnswersOf

\* What each kind of node answers.
LEMMA LeafAnswer ==
    ASSUME NEW r, NEW n \in Nodes, n \notin Groups
    PROVE  /\ Answer(n, r).leaf = n /\ Answer(n, r).asked = {}
<1>1. CASE Kind[n] = "mirage"
  BY <1>1 DEF Answer
<1>2. CASE Kind[n] # "mirage"
  BY <1>2 DEF Answer, Groups
<1> QED
  BY <1>1, <1>2

\* A healthy group answers through a healthy child.
LEMMA ViaKid ==
    ASSUME OrderedTree, GroupInv, NEW r, AnswersOf(r), NEW g \in Groups, r[g].healthy
    PROVE  \E k \in KidSet(g) : r[k].healthy /\ r[g].leaf = r[k].leaf /\ r[g].lat = r[k].lat
                                /\ (Kind[g] = "urltest" => k = PickUrl(g, r))
<1>1. g \in Nodes /\ r[g] = Answer(g, r) /\ Kind[g] \in {"urltest", "fallback", "selector"}
  BY OrderFacts DEF AnswersOf, Groups
<1>2. CASE Kind[g] = "selector"
  <2>1. cur[g] \in KidSet(g)
    BY <1>2 DEF GroupInv
  <2>2. /\ r[g].healthy = r[cur[g]].healthy /\ r[g].leaf = r[cur[g]].leaf
        /\ r[g].lat = r[cur[g]].lat
    <3>1. /\ Answer(g, r).healthy = r[cur[g]].healthy /\ Answer(g, r).leaf = r[cur[g]].leaf
          /\ Answer(g, r).lat = r[cur[g]].lat
      BY <1>2 DEF Answer
    <3> QED
      BY <1>1, <3>1
  <2> QED
    BY <1>2, <2>1, <2>2
<1>3. CASE Kind[g] = "fallback"
  <2> DEFINE k == PickFallback(g, r)
  <2>1. r[g].healthy = (HealthyKids(g, r) # {}) /\ r[g].leaf = r[k].leaf /\ r[g].lat = r[k].lat
    <3>1. /\ Answer(g, r).healthy = (HealthyKids(g, r) # {})
          /\ Answer(g, r).leaf = r[k].leaf /\ Answer(g, r).lat = r[k].lat
      BY <1>3 DEF Answer
    <3> QED
      BY <1>1, <3>1
  <2>2. k \in HealthyKids(g, r)
    BY <2>1, PickFallbackIn
  <2>3. k \in KidSet(g) /\ r[k].healthy
    BY <2>2 DEF HealthyKids
  <2> QED
    BY <1>3, <2>1, <2>3
<1>4. CASE Kind[g] = "urltest"
  <2> DEFINE k == PickUrl(g, r)
  <2>1. HealthyKids(g, r) # {}
    BY <1>1, <1>4 DEF Answer
  <2>2. r[g].leaf = r[k].leaf /\ r[g].lat = r[k].lat
    BY <1>1, <1>4, <2>1 DEF Answer
  <2>3. KidsTold(g, r)
    BY <1>1, ToldOfKids
  <2>4. k \in HealthyKids(g, r)
    BY <2>1, <2>3, PickUrlIn
  <2>5. k \in KidSet(g) /\ r[k].healthy
    BY <2>4 DEF HealthyKids
  <2> QED
    BY <2>2, <2>5
<1> QED
  BY <1>1, <1>2, <1>3, <1>4

LEMMA HealthyLeaf ==
    ASSUME OrderedTree, GroupInv, NEW r, AnswersOf(r)
    PROVE  \A n \in Nodes : r[n].healthy => r[n].leaf \notin Groups /\ r[r[n].leaf].healthy
<1> DEFINE Good(n) == r[n].healthy => r[n].leaf \notin Groups /\ r[r[n].leaf].healthy
           S == {i \in DOMAIN Order : ~ Good(Order[i])}
<1> SUFFICES ASSUME NEW n \in Nodes, ~ Good(n) PROVE FALSE
  OBVIOUS
<1>1. DOMAIN Order \subseteq Nat /\ S # {}
  BY OrderFacts
<1>2. PICK m \in S : \A y \in S : m <= y
  <2>1. S \subseteq Nat
    BY <1>1
  <2> HIDE DEF S
  <2> QED
    BY <1>1, <2>1, Least
<1> DEFINE g == Order[m]
<1>3. m \in DOMAIN Order /\ ~ Good(g) /\ g \in Nodes /\ m \in Nat
  BY <1>1, <1>2, OrderFacts
<1>4. r[g] = Answer(g, r)
  BY <1>3 DEF AnswersOf
<1>5. CASE g \notin Groups
  <2>1. r[g].leaf = g
    BY <1>3, <1>4, <1>5, LeafAnswer
  <2> QED
    BY <1>3, <1>5, <2>1
<1>6. CASE g \in Groups
  <2>1. PICK k \in KidSet(g) : r[k].healthy /\ r[g].leaf = r[k].leaf
    BY <1>3, <1>6, ViaKid
  <2>2. PICK j \in 1 .. m - 1 : Order[j] = k
    BY <1>3, <1>6, <2>1 DEF OrderedTree
  <2>3. j \in DOMAIN Order /\ j \in Nat /\ ~ (m <= j)
    BY <1>3, <2>2, OrderFacts
  <2>4. Good(k)
    BY <1>2, <2>2, <2>3
  <2> QED
    BY <1>3, <2>1, <2>4
<1> QED
  BY <1>5, <1>6

LEMMA RoutesWellHere ==
    ASSUME OrderedTree, Tolerance > 0, GroupInv
    PROVE  RoutesWell
<1> SUFFICES ASSUME NEW r \in Tell, NEW g \in Groups
             PROVE  /\ r[g].healthy => r[g].leaf \notin Groups /\ r[r[g].leaf].healthy
                    /\ Kind[g] = "urltest" => \A k \in KidSet(g) :
                         r[k].healthy /\ r[k].lat # NoLat =>
                             r[g].lat # NoLat /\ r[g].lat - r[k].lat < Tolerance
  BY DEF RoutesWell
<1>1. AnswersOf(r) /\ g \in Nodes
  BY TellIsAnswers, OrderFacts DEF TellAnswers
<1>2. r[g].healthy => r[g].leaf \notin Groups /\ r[r[g].leaf].healthy
  BY <1>1, HealthyLeaf
<1>3. ASSUME Kind[g] = "urltest", NEW k \in KidSet(g), r[k].healthy, r[k].lat # NoLat
      PROVE  r[g].lat # NoLat /\ r[g].lat - r[k].lat < Tolerance
  <2> DEFINE p == PickUrl(g, r)
  <2>1. k \in HealthyKids(g, r) /\ HealthyKids(g, r) # {}
    BY <1>3 DEF HealthyKids
  <2>2. KidsTold(g, r)
    BY <1>1, ToldOfKids
  <2>3. r[p].lat \in Lats /\ r[p].lat - r[k].lat < Tolerance
    <3>1. 0 < Tolerance
      BY DEF OrderedTree
    <3> QED
      BY <1>3, <2>1, <2>2, <3>1, PickUrlIn
  <2>4. r[g] = Answer(g, r)
    BY <1>1 DEF AnswersOf
  <2>5. r[g].lat = r[p].lat
    BY <1>3, <2>1, <2>4 DEF Answer
  <2>6. NoLat \notin Lats
    BY DEF OrderedTree
  <2> HIDE DEF p
  <2> QED
    BY <2>3, <2>5, <2>6
<1> QED
  BY <1>2, <1>3

-----------------------------------------------------------------------------
LEMMA UrlPick ==
    ASSUME OrderedTree, NEW r, AnswersOf(r), NEW g \in Groups, Kind[g] = "urltest"
    PROVE  /\ r[g].pick \in Nodes
           /\ HealthyKids(g, r) # {} => r[g].pick = PickUrl(g, r)
<1>1. g \in Nodes /\ r[g] = Answer(g, r) /\ KidsTold(g, r) /\ HealthyKids(g, r) \subseteq Nodes
  BY OrderFacts, ToldOfKids DEF AnswersOf, HealthyKids
<1>2. CASE HealthyKids(g, r) = {}
  <2>1. Answer(g, r).pick = g
    BY <1>2 DEF Answer
  <2> QED
    BY <1>1, <1>2, <2>1
<1>3. CASE HealthyKids(g, r) # {}
  <2>1. Answer(g, r).pick = PickUrl(g, r)
    BY <1>3 DEF Answer
  <2>2. PickUrl(g, r) \in Nodes
    BY <1>1, <1>3, PickUrlIn
  <2> QED
    BY <1>1, <2>1, <2>2
<1> QED
  BY <1>2, <1>3

LEMMA GroupInvInit == OrderedTree /\ GroupsInit => GroupInv
<1> SUFFICES ASSUME OrderedTree, GroupsInit PROVE GroupInv
  OBVIOUS
<1>1. /\ cur \in [Groups -> Nodes] /\ lat = [n \in Mirages |-> NoLat]
      /\ \A g \in Groups : Kind[g] = "selector" => cur[g] \in KidSet(g)
  BY DEF GroupsInit
<1> QED
  BY <1>1 DEF GroupInv

\* A question moves urltest groups only, to what they picked.
LEMMA AskStep ==
    ASSUME OrderedTree, GroupInv, (\E g \in Groups : Resolve(g)) \/ ReadProxies
    PROVE  \E r \in Tell :
             /\ failures' = failures /\ lat' = lat
             /\ cur' = [g \in Groups |-> cur'[g]]
             /\ \A g \in Groups : \/ cur'[g] = cur[g]
                                  \/ Kind[g] = "urltest" /\ cur'[g] = r[g].pick
<1>1. PICK r \in Tell : \E gs : Remember(r, gs)
  BY DEF Resolve, ReadProxies
<1>2. PICK gs : Remember(r, gs)
  BY <1>1
<1>3. failures' = failures /\ lat' = lat
  BY DEF Resolve, ReadProxies
<1>4. /\ cur' = [g \in Groups |-> cur'[g]]
      /\ \A g \in Groups : \/ cur'[g] = cur[g]
                           \/ Kind[g] = "urltest" /\ cur'[g] = r[g].pick
  BY <1>2 DEF Remember
<1> QED
  BY <1>3, <1>4

LEMMA GroupInvStep == OrderedTree /\ GroupInv /\ [GroupsNext]_groupVars => GroupInv'
<1> SUFFICES ASSUME OrderedTree, GroupInv, [GroupsNext]_groupVars PROVE GroupInv'
  OBVIOUS
<1>1. CASE (\E g \in Groups : Resolve(g)) \/ ReadProxies
  <2>1. PICK r \in Tell : /\ failures' = failures /\ lat' = lat
                          /\ cur' = [g \in Groups |-> cur'[g]]
                          /\ \A g \in Groups : \/ cur'[g] = cur[g]
                                               \/ Kind[g] = "urltest" /\ cur'[g] = r[g].pick
    BY <1>1, AskStep
  <2>2. AnswersOf(r)
    BY TellIsAnswers DEF TellAnswers
  <2>3. ASSUME NEW g \in Groups
        PROVE  cur'[g] \in Nodes /\ (Kind[g] = "selector" => cur'[g] \in KidSet(g))
    <3>1. CASE cur'[g] = cur[g]
      BY <3>1 DEF GroupInv
    <3>2. CASE Kind[g] = "urltest" /\ cur'[g] = r[g].pick
      BY <2>2, <3>2, UrlPick
    <3> QED
      BY <2>1, <3>1, <3>2
  <2> QED
    BY <2>1, <2>3 DEF GroupInv
<1>2. ASSUME NEW g \in Groups, NEW k \in KidSet(g), Select(g, k) PROVE GroupInv'
  <2>1. k \in Nodes
    BY OrderFacts
  <2> QED
    BY <1>2, <2>1 DEF Select, GroupInv
<1>3. ASSUME NEW n \in Mirages, BuildEnd(n) \/ ProbeEnd(n) PROVE GroupInv'
  BY <1>3 DEF BuildEnd, ProbeEnd, Mark, GroupInv
<1>4. ASSUME NEW n \in Mirages, Age(n) \/ Toggle(n) PROVE GroupInv'
  BY <1>4 DEF Age, Toggle, GroupInv
<1>5. CASE Scan
  BY <1>5 DEF Scan, GroupInv
<1>6. CASE UNCHANGED groupVars
  BY <1>6 DEF groupVars, GroupInv
<1> QED
  BY <1>1, <1>2, <1>3, <1>4, <1>5, <1>6 DEF GroupsNext

\* A group that remembers what it picked picks it again.
LEMMA PickAgain ==
    ASSUME OrderedTree, NEW g \in Groups, NEW r, KidsTold(g, r),
           cur'[g] = cur[g] \/ cur'[g] = PickUrl(g, r)
    PROVE  PickUrl(g, r)' = PickUrl(g, r)
<1> DEFINE H == HealthyKids(g, r)
           T == {k \in H : r[k].lat # NoLat}
           b == Best(g, r, T)
           f == First(g, H)
           P(c) == IF H = {} THEN g
                   ELSE IF T = {} THEN IF c \in H THEN c ELSE f
                   ELSE IF c \in H /\ r[c].lat # NoLat /\ r[c].lat - r[b].lat < Tolerance
                        THEN c ELSE b
<1>1. PickUrl(g, r) = P(cur[g]) /\ PickUrl(g, r)' = P(cur'[g])
  BY DEF PickUrl, HealthyKids
<1>2. H \subseteq KidSet(g) /\ T \subseteq H /\ \A k \in T : r[k].lat # NoLat /\ r[k].lat \in Nat
  BY DEF HealthyKids, KidsTold, OrderedTree
<1>3. H # {} => f \in H
  <2> HIDE DEF H
  <2> QED
    BY <1>2, FirstIn
<1>4. T # {} => b \in T
  <2> HIDE DEF H, T
  <2> QED
    BY <1>2, BestIn
<1>5. Tolerance \in Int
  BY DEF OrderedTree
<1>6. P(P(cur[g])) = P(cur[g])
  <2> DEFINE c == cur[g]
  <2> HIDE DEF H, T, b, f, c
  <2>1. CASE H = {} \/ T = {}
    BY <1>3, <2>1
  <2>2. CASE H # {} /\ T # {}
    <3>1. P(b) = b
      BY <1>4, <2>2
    <3>2. P(c) = c \/ P(c) = b
      BY <2>2
    <3> HIDE DEF P
    <3> QED
      BY <3>1, <3>2 DEF c
  <2> QED
    BY <2>1, <2>2 DEF c
<1> HIDE DEF P
<1> QED
  BY <1>1, <1>6

LEMMA AnswerStays ==
    ASSUME OrderedTree, GroupInv, NEW r, AnswersOf(r), NEW n \in Nodes,
           failures' = failures, lat' = lat,
           n \in Groups => \/ cur'[n] = cur[n]
                           \/ Kind[n] = "urltest" /\ cur'[n] = r[n].pick
    PROVE  Answer(n, r)' = Answer(n, r)
<1>1. CASE Kind[n] = "mirage"
  BY <1>1 DEF Answer
<1>2. CASE Kind[n] = "selector"
  <2>1. cur'[n] = cur[n]
    BY <1>2 DEF Groups
  <2> QED
    BY <1>2, <2>1 DEF Answer
<1>3. HealthyKids(n, r)' = HealthyKids(n, r)
  BY DEF HealthyKids
<1>4. CASE Kind[n] = "fallback"
  <2>1. PickFallback(n, r)' = PickFallback(n, r)
    BY <1>3 DEF PickFallback
  <2> QED
    BY <1>3, <1>4, <2>1 DEF Answer
<1>5. CASE Kind[n] = "urltest"
  <2>1. CASE HealthyKids(n, r) = {}
    BY <1>3, <1>5, <2>1 DEF Answer
  <2>2. CASE HealthyKids(n, r) # {}
    <3>1. n \in Groups
      BY <1>5 DEF Groups
    <3>2. KidsTold(n, r) /\ (cur'[n] = cur[n] \/ cur'[n] = PickUrl(n, r))
      BY <1>5, <2>2, <3>1, ToldOfKids, UrlPick
    <3>3. PickUrl(n, r)' = PickUrl(n, r)
      BY <3>1, <3>2, PickAgain
    <3> QED
      BY <1>3, <1>5, <2>2, <3>3 DEF Answer
  <2> QED
    BY <2>1, <2>2
<1>6. CASE Kind[n] \notin {"mirage", "selector", "fallback", "urltest"}
  BY <1>6 DEF Answer
<1> QED
  BY <1>1, <1>2, <1>4, <1>5, <1>6

LEMMA OneAnswer ==
    ASSUME OrderedTree, GroupInv, NEW r, AnswersOf(r), NEW s, AnswersOf(s)
    PROVE  s = r
<1> DEFINE S == {i \in DOMAIN Order : s[Order[i]] # r[Order[i]]}
<1>1. r = [n \in Nodes |-> r[n]] /\ s = [n \in Nodes |-> s[n]]
  BY DEF AnswersOf
<1> SUFFICES ASSUME NEW n \in Nodes, s[n] # r[n] PROVE FALSE
  BY <1>1
<1>2. S \subseteq Nat /\ S # {}
  BY OrderFacts
<1>3. PICK m \in S : \A y \in S : m <= y
  <2> HIDE DEF S
  <2> QED
    BY <1>2, Least
<1> DEFINE g == Order[m]
<1>4. m \in DOMAIN Order /\ m \in Nat /\ g \in Nodes /\ s[g] # r[g]
  BY <1>2, <1>3, OrderFacts
<1>5. KidsAgree(g, r, s)
  <2> SUFFICES ASSUME g \in Groups, NEW k \in KidSet(g) PROVE r[k] = s[k]
    BY DEF KidsAgree
  <2>1. PICK j \in 1 .. m - 1 : Order[j] = k
    BY <1>4 DEF OrderedTree
  <2>2. j \in DOMAIN Order /\ ~ (m <= j)
    BY <1>4, <2>1, OrderFacts
  <2> QED
    BY <1>3, <2>1, <2>2
<1>6. Answer(g, r) = Answer(g, s)
  <2>1. KidsTold(g, r) /\ AnswersLocal
    BY <1>4, ToldOfKids, AnswerLocal
  <2> QED
    BY <1>4, <1>5, <2>1 DEF AnswersLocal
<1> QED
  BY <1>4, <1>6 DEF AnswersOf

LEMMA SameAnswers ==
    ASSUME OrderedTree, GroupInv, GroupInv', AnswersLocal', NEW r, AnswersOf(r),
           NEW s, AnswersOf(s)', failures' = failures, lat' = lat,
           \A g \in Groups : \/ cur'[g] = cur[g]
                             \/ Kind[g] = "urltest" /\ cur'[g] = r[g].pick
    PROVE  s = r
<1> DEFINE S == {i \in DOMAIN Order : s[Order[i]] # r[Order[i]]}
<1>1. r = [n \in Nodes |-> r[n]] /\ s = [n \in Nodes |-> s[n]]
  BY DEF AnswersOf
<1> SUFFICES ASSUME NEW n \in Nodes, s[n] # r[n] PROVE FALSE
  BY <1>1
<1>2. S \subseteq Nat /\ S # {}
  BY OrderFacts
<1>3. PICK m \in S : \A y \in S : m <= y
  <2> HIDE DEF S
  <2> QED
    BY <1>2, Least
<1> DEFINE g == Order[m]
<1>4. m \in DOMAIN Order /\ m \in Nat /\ g \in Nodes /\ s[g] # r[g]
  BY <1>2, <1>3, OrderFacts
<1>5. s[g] = Answer(g, s)' /\ r[g] = Answer(g, r)
  BY <1>4 DEF AnswersOf
<1>6. KidsAgree(g, r, s)
  <2> SUFFICES ASSUME g \in Groups, NEW k \in KidSet(g) PROVE r[k] = s[k]
    BY DEF KidsAgree
  <2>1. PICK j \in 1 .. m - 1 : Order[j] = k
    BY <1>4 DEF OrderedTree
  <2>2. j \in DOMAIN Order /\ ~ (m <= j)
    BY <1>4, <2>1, OrderFacts
  <2> QED
    BY <1>3, <2>1, <2>2
<1>7. Answer(g, r)' = Answer(g, s)'
  <2>1. KidsTold(g, r)
    BY <1>4, ToldOfKids
  <2>2. KidsTold(g, r)' /\ KidsAgree(g, r, s)'
    BY <1>6, <2>1 DEF KidsTold, KidsAgree
  <2> QED
    BY <1>4, <2>2 DEF AnswersLocal
<1>8. Answer(g, r)' = Answer(g, r)
  BY <1>4, AnswerStays
<1> QED
  BY <1>4, <1>5, <1>7, <1>8

LEMMA AskedAgain ==
    OrderedTree /\ GroupInv /\ GroupInv' /\ AnswersLocal' /\ TellAnswers' /\ [GroupsNext]_groupVars
        => [Asking => SameLeaves]_groupVars
<1> SUFFICES ASSUME OrderedTree, GroupInv, GroupInv', AnswersLocal', TellAnswers',
                    GroupsNext, Asking
             PROVE  SameLeaves
  OBVIOUS
<1>1. (\E g \in Groups : Resolve(g)) \/ ReadProxies
  <2>1. ASSUME NEW g \in Groups, NEW k \in KidSet(g), Select(g, k) PROVE FALSE
    <3>1. Kind[g] = "selector" /\ cur' = [cur EXCEPT ![g] = k]
      BY <2>1 DEF Select
    <3>2. cur'[g] = cur[g]
      BY <3>1 DEF Asking
    <3>3. cur' = cur
      BY <3>1, <3>2 DEF GroupInv
    <3> QED
      BY <3>3 DEF Asking
  <2>2. ASSUME NEW n \in Mirages, BuildEnd(n) \/ ProbeEnd(n) \/ Age(n) \/ Toggle(n) PROVE FALSE
    BY <2>2 DEF BuildEnd, ProbeEnd, Age, Toggle, Asking
  <2>3. ~ Scan
    BY DEF Scan, Asking
  <2> QED
    BY <2>1, <2>2, <2>3 DEF GroupsNext
<1>2. PICK p \in Tell : /\ failures' = failures /\ lat' = lat
                        /\ \A g \in Groups : \/ cur'[g] = cur[g]
                                             \/ Kind[g] = "urltest" /\ cur'[g] = p[g].pick
  BY <1>1, AskStep
<1>3. /\ \A r \in Tell : AnswersOf(r)
      /\ Tell' # {} /\ \A s \in Tell' : AnswersOf(s)'
  BY TellIsAnswers DEF TellAnswers
<1>4. \A s \in Tell' : s = p
  BY <1>2, <1>3, SameAnswers
<1>5. \A r \in Tell : r = p
  <2> SUFFICES ASSUME NEW r \in Tell PROVE r = p
    OBVIOUS
  <2>1. AnswersOf(r) /\ AnswersOf(p)
    BY <1>3
  <2> QED
    BY <2>1, OneAnswer
<1>6. Tell' = Tell
  BY <1>2, <1>3, <1>4, <1>5
<1>7. Leaves' = Leaves
  BY <1>6 DEF Leaves
<1> QED
  BY <1>7 DEF SameLeaves

\* Whatever the tree and the history of builds, probes and selections, a
\* connection to a healthy group reaches a healthy leaf, and an urltest group
\* leads to a child within the tolerance of the best (group.py:68-147).  With
\* a tolerance of 0 it would be the best itself, and "less than" the wrong word.
THEOREM GroupsRouteWell ==
    ASSUME OrderedTree, Tolerance > 0
    PROVE  GroupsSpec => []RoutesWell
<1>1. GroupsInit => GroupInv
  BY GroupInvInit
<1>2. GroupInv /\ [GroupsNext]_groupVars => GroupInv'
  BY GroupInvStep
<1>3. GroupInv => RoutesWell
  BY RoutesWellHere
<1> QED
  BY <1>1, <1>2, <1>3, PTL DEF GroupsSpec

\* Neither a connection nor the API, whose reads run the choice of every group,
\* changes where the next connection goes, whatever the tolerance.
THEOREM ReadsMoveNothing ==
    ASSUME OrderedTree
    PROVE  GroupsSpec => ReadsMoveNoRoute
<1>1. GroupsInit => GroupInv
  BY GroupInvInit
<1>2. GroupInv /\ [GroupsNext]_groupVars => GroupInv'
  BY GroupInvStep
<1>3. AnswersLocal /\ TellAnswers
  BY AnswerLocal, TellIsAnswers
<1>4. GroupInv /\ GroupInv' /\ AnswersLocal' /\ TellAnswers' /\ [GroupsNext]_groupVars
         => [Asking => SameLeaves]_groupVars
  BY AskedAgain
<1> QED
  BY <1>1, <1>2, <1>3, <1>4, PTL DEF GroupsSpec, ReadsMoveNoRoute
=============================================================================
