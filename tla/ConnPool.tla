------------------------------ MODULE ConnPool ------------------------------
(***************************************************************************)
(* The pool of pre-built tunnels of one mirage outbound                    *)
(* (mirage/core/conn_pool.py, class BrutalPool).                           *)
(*                                                                         *)
(* The pool runs on one asyncio loop, so code between two awaits is one    *)
(* step here.  Build tasks are anonymous: the coroutines spawned by        *)
(* _schedule_refills and warmup are counted by the await they stand at.    *)
(* A tunnel in the queue is what acquire() can tell about it: whether its  *)
(* jittered lifetime has run out, and whether the peer has sent FIN.       *)
(***************************************************************************)
EXTENDS Integers, Sequences, FiniteSets

CONSTANTS Requesters,   \* coroutines that call acquire(), one call at a time
          Probers,      \* callers of probe_once(): the health check, the API
          PoolSize      \* cfg["brutal_pool_size"]

ASSUME PoolSizeAssumption == PoolSize \in Nat \ {0}
ASSUME RequestersAssumption == IsFiniteSet(Requesters)

VARIABLES q,            \* self._queue, oldest tunnel first
          building,     \* self._building
          nDelay,       \* build tasks in asyncio.sleep(delay)
          nConnect,     \* build tasks in _build_one()
          pc,           \* where each requester is in acquire()
          held,         \* the tunnel each requester was given
          probe,        \* where each prober is in probe_once()
          warm,         \* warmup() has returned
          open          \* sockets established and not closed yet

vars == <<q, building, nDelay, nConnect, pc, held, probe, warm, open>>

Tunnel   == [stale : BOOLEAN, fin : BOOLEAN]
NoTunnel == [stale |-> FALSE, fin |-> TRUE]
Fresh    == [stale |-> FALSE, fin |-> FALSE]

(***************************************************************************)
(* _ReadyTunnel.is_alive.  The peek never takes place: conn_pool.py does   *)
(* not import socket, so its arguments raise NameError (and the transport's *)
(* socket has no recv of its own any more), and the last handler returns   *)
(* True whatever the peer did.                                             *)
(***************************************************************************)
IsAlive(t) == TRUE

Discard(t) == t.stale \/ ~IsAlive(t)

\* Mutants of Deficit: counting only the queue; one more
Deficit_QueueOnly(len) == IF PoolSize > len THEN PoolSize - len ELSE 0
Deficit_OneMore(len) ==
    IF PoolSize >= len + building THEN PoolSize + 1 - len - building ELSE 0

Deficit(len) ==
    IF PoolSize > len + building THEN PoolSize - len - building ELSE 0

\* _schedule_refills, with a queue of length len
ScheduleRefills(len) ==
    /\ building' = building + Deficit(len)
    /\ nDelay'   = nDelay + Deficit(len)

-----------------------------------------------------------------------------
(* warmup(): pool_size tasks are ordered at once and awaited together.     *)

Init ==
    /\ q = <<>>
    /\ building = PoolSize
    /\ nDelay = PoolSize
    /\ nConnect = 0
    /\ pc = [p \in Requesters |-> "idle"]
    /\ held = [p \in Requesters |-> NoTunnel]
    /\ probe = [r \in Probers |-> "idle"]
    /\ warm = FALSE
    /\ open = 0

WarmupDone ==
    /\ ~warm
    /\ nDelay = 0 /\ nConnect = 0
    /\ warm' = TRUE
    /\ UNCHANGED <<q, building, nDelay, nConnect, pc, held, probe, open>>

-----------------------------------------------------------------------------
(* acquire()                                                               *)

Acquire(p) ==
    /\ warm
    /\ pc[p] = "idle"
    /\ ScheduleRefills(Len(q))
    /\ pc' = [pc EXCEPT ![p] = "wait"]
    /\ UNCHANGED <<q, nConnect, held, probe, warm, open>>

\* Mutant: the discarded tunnel is not closed
DiscardHead_NoClose(p) ==
    /\ pc[p] = "wait"
    /\ q # <<>>
    /\ Discard(Head(q))
    /\ q' = Tail(q)
    /\ ScheduleRefills(Len(q) - 1)
    /\ UNCHANGED <<nConnect, pc, held, probe, warm, open>>

\* a stale or dead tunnel is closed and replaced; the wait starts again
DiscardHead(p) ==
    /\ pc[p] = "wait"
    /\ q # <<>>
    /\ Discard(Head(q))
    /\ q' = Tail(q)
    /\ open' = open - 1
    /\ ScheduleRefills(Len(q) - 1)
    /\ UNCHANGED <<nConnect, pc, held, probe, warm>>

HandOut(p) ==
    /\ pc[p] = "wait"
    /\ q # <<>>
    /\ ~Discard(Head(q))
    /\ q' = Tail(q)
    /\ pc' = [pc EXCEPT ![p] = "got"]
    /\ held' = [held EXCEPT ![p] = Head(q)]
    /\ UNCHANGED <<building, nDelay, nConnect, probe, warm, open>>

\* Mutant: queue.get() without a time limit
GetTimeout_Never(p) == FALSE /\ UNCHANGED vars /\ pc[p] = "wait"

\* wait_for(..., 5.0) expires: the requester builds a tunnel of its own,
\* which _building does not count
GetTimeout(p) ==
    /\ pc[p] = "wait"
    /\ q = <<>>
    /\ pc' = [pc EXCEPT ![p] = "direct"]
    /\ UNCHANGED <<q, building, nDelay, nConnect, held, probe, warm, open>>

DirectOk(p) ==
    /\ pc[p] = "direct"
    /\ pc' = [pc EXCEPT ![p] = "got"]
    /\ held' = [held EXCEPT ![p] = Fresh]
    /\ open' = open + 1
    /\ UNCHANGED <<q, building, nDelay, nConnect, probe, warm>>

DirectFail(p) ==
    /\ pc[p] = "direct"
    /\ pc' = [pc EXCEPT ![p] = "none"]
    /\ UNCHANGED <<q, building, nDelay, nConnect, held, probe, warm, open>>

\* the caller is cancelled at one of acquire's awaits
CancelAcquire(p) ==
    /\ pc[p] \in {"wait", "direct"}
    /\ pc' = [pc EXCEPT ![p] = "idle"]
    /\ UNCHANGED <<q, building, nDelay, nConnect, held, probe, warm, open>>

\* the caller is done with what acquire() returned
Release(p) ==
    /\ pc[p] \in {"got", "none"}
    /\ pc' = [pc EXCEPT ![p] = "idle"]
    /\ held' = [held EXCEPT ![p] = NoTunnel]
    /\ open' = IF pc[p] = "got" THEN open - 1 ELSE open
    /\ UNCHANGED <<q, building, nDelay, nConnect, probe, warm>>

-----------------------------------------------------------------------------
(* _build_and_enqueue(), always entered with pre_reserved=True             *)

\* the delay is over: give up if the queue is full by now, else connect
BuildStart ==
    /\ nDelay > 0
    /\ nDelay' = nDelay - 1
    /\ IF Len(q) >= PoolSize
       THEN building' = building - 1 /\ UNCHANGED nConnect
       ELSE nConnect' = nConnect + 1 /\ UNCHANGED building
    /\ UNCHANGED <<q, pc, held, probe, warm, open>>

BuildOk ==
    /\ nConnect > 0
    /\ nConnect' = nConnect - 1
    /\ building' = building - 1
    /\ q' = Append(q, Fresh)
    /\ open' = open + 1
    /\ UNCHANGED <<nDelay, pc, held, probe, warm>>

\* Mutant: a failed build skips the finally clause
BuildFail_KeepsCount ==
    /\ nConnect > 0
    /\ nConnect' = nConnect - 1
    /\ UNCHANGED <<q, building, nDelay, pc, held, probe, warm, open>>

BuildFail ==
    /\ nConnect > 0
    /\ nConnect' = nConnect - 1
    /\ building' = building - 1
    /\ UNCHANGED <<q, nDelay, pc, held, probe, warm, open>>

-----------------------------------------------------------------------------
(* probe_once()                                                            *)

ProbeStart(r) ==
    /\ warm
    /\ probe[r] = "idle"
    /\ probe' = [probe EXCEPT ![r] = "connect"]
    /\ UNCHANGED <<q, building, nDelay, nConnect, pc, held, warm, open>>

\* the new tunnel is queued; a full queue loses its oldest tunnel first
ProbeOk(r) ==
    /\ probe[r] = "connect"
    /\ probe' = [probe EXCEPT ![r] = "idle"]
    /\ IF Len(q) >= PoolSize
       THEN q' = Append(Tail(q), Fresh) /\ UNCHANGED open
       ELSE q' = Append(q, Fresh) /\ open' = open + 1
    /\ UNCHANGED <<building, nDelay, nConnect, pc, held, warm>>

ProbeFail(r) ==
    /\ probe[r] = "connect"
    /\ probe' = [probe EXCEPT ![r] = "idle"]
    /\ UNCHANGED <<q, building, nDelay, nConnect, pc, held, warm, open>>

-----------------------------------------------------------------------------
(* Time and the server.  A lifetime is at least 90 seconds and a waiting   *)
(* requester takes a queued tunnel at the next turn of the loop, so        *)
(* nothing expires under a waiting requester.                              *)

Expire(i) ==
    /\ \A p \in Requesters : pc[p] # "wait"
    /\ ~q[i].stale
    /\ q' = [q EXCEPT ![i].stale = TRUE]
    /\ UNCHANGED <<building, nDelay, nConnect, pc, held, probe, warm, open>>

PeerFin(i) ==
    /\ ~q[i].fin
    /\ q' = [q EXCEPT ![i].fin = TRUE]
    /\ UNCHANGED <<building, nDelay, nConnect, pc, held, probe, warm, open>>

-----------------------------------------------------------------------------
Requester(p) ==
    \/ Acquire(p) \/ DiscardHead(p) \/ HandOut(p) \/ GetTimeout(p)
    \/ DirectOk(p) \/ DirectFail(p) \/ CancelAcquire(p) \/ Release(p)

Prober(r) == ProbeStart(r) \/ ProbeOk(r) \/ ProbeFail(r)

Builder == BuildStart \/ BuildOk \/ BuildFail

Environment == \E i \in DOMAIN q : Expire(i) \/ PeerFin(i)

Next ==
    \/ WarmupDone
    \/ \E p \in Requesters : Requester(p)
    \/ \E r \in Probers : Prober(r)
    \/ Builder
    \/ Environment

Spec == Init /\ [][Next]_vars

(***************************************************************************)
(* Every await of the code has a time limit (5 s for the queue, 20 s for a *)
(* build), so each one ends; nobody promises that a caller calls again,    *)
(* releases, or that the server misbehaves.                                *)
(***************************************************************************)
Fairness ==
    /\ WF_vars(WarmupDone)
    /\ WF_vars(BuildStart)
    /\ WF_vars(BuildOk \/ BuildFail)
    /\ \A p \in Requesters :
        /\ WF_vars(DiscardHead(p) \/ HandOut(p) \/ GetTimeout(p))
        /\ WF_vars(DirectOk(p) \/ DirectFail(p))

FairSpec == Spec /\ Fairness

-----------------------------------------------------------------------------
\* The counters never go below zero and everything else keeps its range.
TypeOK ==
    /\ q \in Seq(Tunnel)
    /\ building \in Nat
    /\ nDelay \in Nat
    /\ nConnect \in Nat
    /\ pc \in [Requesters -> {"idle", "wait", "direct", "got", "none"}]
    /\ held \in [Requesters -> Tunnel]
    /\ probe \in [Probers -> {"idle", "connect"}]
    /\ warm \in BOOLEAN
    /\ open \in Int

\* _building counts exactly the build tasks that are still running: no
\* early return, failure or completion of _build_and_enqueue leaks a count
\* (a leaked count would make the pool smaller for ever).
BuildingAccounted == building = nDelay + nConnect

\* Refills and probes may overshoot pool_size, but never beyond twice of
\* it, and _schedule_refills never has more than pool_size builds running, nor
\* does an overshoot make it count fewer than none.
PoolBound ==
    /\ building \in 0 .. PoolSize
    /\ Len(q) + building <= 2 * PoolSize

Holders == {p \in Requesters : pc[p] = "got"}

\* Every established socket is in the queue or held by a requester: stale
\* tunnels, and tunnels pushed out by a probe, are closed.
SocketsAccounted == open = Len(q) + Cardinality(Holders)

\* Concurrent acquires do not order the same missing tunnel twice: a step
\* that orders builds leaves ready and ordered tunnels at pool_size.
NoOverOrder ==
    [][building' > building => Len(q') + building' = PoolSize]_vars

\* Every acquire() ends, with a tunnel, with none or cancelled, whether it
\* waits for the queue or builds directly after that, even when builds fail,
\* tunnels are stale and other requesters take what was built
\* (conn_pool.py:297-322).
AcquireReturns ==
    \A p \in Requesters : pc[p] \in {"wait", "direct"} ~> pc[p] \in {"got", "none", "idle"}

\* acquire() skips tunnels whose peer has sent FIN (its docstring and that
\* of is_alive).
HandOutAlive ==
    [][\A p \in Requesters :
        pc[p] = "wait" /\ pc'[p] = "got" => ~held'[p].fin]_vars
=============================================================================
