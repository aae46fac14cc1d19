---------------------------- MODULE DnsPipeline ----------------------------
(***************************************************************************)
(* The DNS query pipeline of the client: many queries share one tunnel to  *)
(* the resolver, each under a transaction id of its own, and one reader    *)
(* task hands the answers back (mirage/core/dns/upstream.py, UdpUpstream). *)
(*                                                                         *)
(* When anything fails the tunnel is dropped: closed, forgotten, and its   *)
(* reader cancelled.  A cancelled task still runs its finally clause, at a *)
(* later turn of the event loop, and that clause drops "the" tunnel again: *)
(* by then it can be the next one.                                         *)
(***************************************************************************)
EXTENDS Naturals, FiniteSets

CONSTANTS Queries,      \* calls of query()
          Tunnels,      \* tunnels the outbound can hand out
          NumTx,        \* transaction ids are 1 .. NumTx (65535 in the code)
          MaxInflight,  \* MAX_INFLIGHT: 64 (UDP), 32 (DoT)
          None          \* no tunnel, no query

ASSUME PipelineAssumption ==
    /\ NumTx \in Nat \ {0}
    /\ MaxInflight \in 1 .. NumTx
    /\ None \notin Tunnels \cup Queries
    /\ {"none", "pending", "error"} \cap Queries = {}   \* states of a future

VARIABLES
    pc,        \* where each query is
    attempt,   \* its turn of "for attempt in (0, 1)"
    tx,        \* the transaction id of its last attempt
    via,       \* the tunnel its last attempt was written on
    fut,       \* its future: "none", "pending", "error", or the query answered
    pending,   \* _pending: transaction id -> query
    nextTx,    \* _next_tx
    lock,      \* the holder of _setup_lock
    ready,     \* _ready: the current tunnel
    reader,    \* _reader_task, named by the tunnel it was made for
    tstate,    \* each tunnel: not yet acquired, open, cut by the peer, closed
    rstate,    \* the reader task of each tunnel
    wire,      \* answers on their way: <<tunnel, transaction id, query>>
    closed     \* DNSForwarder.reload has closed this upstream

vars == <<pc, attempt, tx, via, fut, pending, nextTx, lock, ready, reader, tstate,
          rstate, wire, closed>>

TxIds == 1 .. NumTx

(* "queued": at the semaphore; "ensure": in _ensure_ready; "setup": it holds *)
(* the lock and waits for a tunnel; "send": its packet is written but not    *)
(* drained; "wait": it waits for its future.                                 *)
Stages == {"idle", "queued", "ensure", "setup", "send", "wait", "done", "failed"}
Waiting == {"send", "wait"}
Inflight == {q \in Queries : pc[q] \in {"ensure", "setup", "send", "wait"}}

Undone == {"created", "running", "cancelling"}
Held(t) == tstate[t] \in {"open", "cut"}

(* The test at the head of _ensure_ready: a tunnel, and a reader not done.   *)
Live == ready # None /\ reader # None /\ rstate[reader] \in Undone

-----------------------------------------------------------------------------
Init ==
    /\ pc = [q \in Queries |-> "idle"]
    /\ attempt = [q \in Queries |-> 0]
    /\ tx = [q \in Queries |-> 1]
    /\ via = [q \in Queries |-> None]
    /\ fut = [q \in Queries |-> "none"]
    /\ pending = [x \in TxIds |-> None]
    /\ nextTx = 1
    /\ lock = None
    /\ ready = None
    /\ reader = None
    /\ tstate = [t \in Tunnels |-> "fresh"]
    /\ rstate = [t \in Tunnels |-> "none"]
    /\ wire = {}
    /\ closed = FALSE

(* _drop_tunnel: close and forget the tunnel, cancel and forget the reader.  *)
(* self is the reader that runs it in its finally clause and so ends, or     *)
(* None when a query or close() runs it.  A task cancelled before its first  *)
(* step never runs; a running one gets CancelledError at a later step.       *)
Cancelled(r) == CASE rstate[r] = "created" -> "ended"
                  [] rstate[r] = "running" -> "cancelling"
                  [] OTHER -> rstate[r]

(* Mutant: the reader is forgotten, not cancelled.                           *)
DropTunnel_NoCancel(self) ==
    /\ ready' = None
    /\ reader' = None
    /\ tstate' = [t \in Tunnels |-> IF t = ready THEN "closed" ELSE tstate[t]]
    /\ rstate' = [t \in Tunnels |-> IF t = self THEN "ended" ELSE rstate[t]]
    /\ wire' = {m \in wire : m[1] # ready}

DropTunnel(self) ==
    /\ ready' = None
    /\ reader' = None
    /\ tstate' = [t \in Tunnels |-> IF t = ready THEN "closed" ELSE tstate[t]]
    /\ rstate' = [t \in Tunnels |-> IF t = self THEN "ended"
                                    ELSE IF t = reader THEN Cancelled(t)
                                    ELSE rstate[t]]
    /\ wire' = {m \in wire : m[1] # ready}

(* _allocate_tx: the first id at or after nextTx, cyclically and without 0,  *)
(* that no query is waiting on; raises when there is none.                   *)
(* Mutants of the counter: it runs past the last id; it stands still.        *)
NextId_NoWrap(x) == x + 1
NextId_Stuck(x) == x

NextId(x) == IF x = NumTx THEN 1 ELSE x + 1
Distance(x) == IF x >= nextTx THEN x - nextTx ELSE x + NumTx - nextTx
AllocateTx(x) ==
    /\ pending[x] = None
    /\ \A y \in TxIds : Distance(y) < Distance(x) => pending[y] # None

(* _send_recv up to its first await: register the future, write the packet   *)
(* on tunnel t.  The write goes through at once or has to be drained.        *)
SendOn(q, t) ==
    \E x \in TxIds :
        /\ AllocateTx(x)
        /\ nextTx' = NextId(x)
        /\ tx' = [tx EXCEPT ![q] = x]
        /\ via' = [via EXCEPT ![q] = t]
        /\ fut' = [fut EXCEPT ![q] = "pending"]
        /\ pending' = [pending EXCEPT ![x] = q]
        /\ wire' = wire \cup {w \in {<<t, x, q>>} : tstate[t] # "cut"}
        /\ pc' \in {[pc EXCEPT ![q] = s] : s \in Waiting}

(* Mutant: no finally clause.                                                *)
PopPending_Never(q) == pc[q] \in Stages /\ pending' = pending

(* The finally clause of _send_recv forgets whatever is under the id.        *)
PopPending(q) ==
    pending' = IF pc[q] \in Waiting THEN [pending EXCEPT ![tx[q]] = None]
                                    ELSE pending

(* The except clause of query: drop the tunnel, try once more or raise.      *)
FailAttempt(q) ==
    /\ PopPending(q)
    /\ DropTunnel(None)
    /\ fut' = [fut EXCEPT ![q] = "none"]
    /\ attempt' = [attempt EXCEPT ![q] = 1]
    /\ pc' = [pc EXCEPT ![q] = IF attempt[q] = 1 THEN "failed" ELSE "ensure"]

-----------------------------------------------------------------------------
(* The forwarder calls query() on this upstream until a reload replaces it.  *)
Call(q) ==
    /\ pc[q] = "idle"
    /\ ~closed
    /\ pc' = [pc EXCEPT ![q] = "queued"]
    /\ UNCHANGED <<attempt, tx, via, fut, pending, nextTx, lock, ready, reader, tstate,
                   rstate, wire, closed>>

Enter(q) ==
    /\ pc[q] = "queued"
    /\ Cardinality(Inflight) < MaxInflight
    /\ pc' = [pc EXCEPT ![q] = "ensure"]
    /\ UNCHANGED <<attempt, tx, via, fut, pending, nextTx, lock, ready, reader, tstate,
                   rstate, wire, closed>>

(* The tunnel is there, before or after the wait for the lock.               *)
SendOnLive(q) ==
    /\ pc[q] = "ensure"
    /\ Live
    /\ SendOn(q, ready)
    /\ UNCHANGED <<attempt, lock, ready, reader, tstate, rstate, closed>>

(* Mutant: no lock around the setup.                                         *)
TakeSetupLock_NoLock(q) ==
    /\ pc[q] = "ensure"
    /\ ~Live
    /\ lock' = q
    /\ pc' = [pc EXCEPT ![q] = "setup"]
    /\ UNCHANGED <<attempt, tx, via, fut, pending, nextTx, ready, reader, tstate, rstate,
                   wire, closed>>

(* No tunnel: one query at a time sets one up.                               *)
TakeSetupLock(q) ==
    /\ pc[q] = "ensure"
    /\ ~Live
    /\ lock = None
    /\ lock' = q
    /\ pc' = [pc EXCEPT ![q] = "setup"]
    /\ UNCHANGED <<attempt, tx, via, fut, pending, nextTx, ready, reader, tstate, rstate,
                   wire, closed>>

(* acquire_tunnel answered; _ready and the reader task are set, the lock     *)
(* released and the query sent without another await.                        *)
SetupOk(q, t) ==
    /\ pc[q] = "setup"
    /\ tstate[t] = "fresh"
    /\ tstate' = [tstate EXCEPT ![t] = "open"]
    /\ rstate' = [rstate EXCEPT ![t] = "created"]
    /\ ready' = t
    /\ reader' = t
    /\ lock' = None
    /\ SendOn(q, t)
    /\ UNCHANGED <<attempt, closed>>

(* Mutant: a failed setup keeps the lock.                                    *)
SetupFail_KeepsLock(q) ==
    /\ pc[q] = "setup"
    /\ FailAttempt(q)
    /\ UNCHANGED <<tx, via, nextTx, lock, closed>>

(* No tunnel, or it broke on its first packet and was closed.                *)
SetupFail(q) ==
    /\ pc[q] = "setup"
    /\ lock' = None
    /\ FailAttempt(q)
    /\ UNCHANGED <<tx, via, nextTx, closed>>

(* Mutant: a setup that timed out keeps the lock.                            *)
SetupTimeout_KeepsLock(q) ==
    /\ pc[q] = "setup"
    /\ pc' = [pc EXCEPT ![q] = "failed"]
    /\ UNCHANGED <<attempt, tx, via, fut, pending, nextTx, lock, ready, reader, tstate,
                   rstate, wire, closed>>

(* The dial or the TLS handshake timed out: TimeoutError is not retried.     *)
SetupTimeout(q) ==
    /\ pc[q] = "setup"
    /\ lock' = None
    /\ pc' = [pc EXCEPT ![q] = "failed"]
    /\ UNCHANGED <<attempt, tx, via, fut, pending, nextTx, ready, reader, tstate, rstate,
                   wire, closed>>

(* The write is flushed, or drain raises because the tunnel it went to is    *)
(* gone (its transport was closed or its peer is).                           *)
Drained(q) ==
    /\ pc[q] = "send"
    /\ pc' = [pc EXCEPT ![q] = "wait"]
    /\ UNCHANGED <<attempt, tx, via, fut, pending, nextTx, lock, ready, reader, tstate,
                   rstate, wire, closed>>

DrainFail(q) ==
    /\ pc[q] = "send"
    /\ tstate[via[q]] \in {"cut", "closed"}
    /\ FailAttempt(q)
    /\ UNCHANGED <<tx, via, nextTx, lock, closed>>

(* The future has a result: the answer goes to the caller under its own id.  *)
Answered(q) ==
    /\ pc[q] = "wait"
    /\ fut[q] \in Queries
    /\ PopPending(q)
    /\ pc' = [pc EXCEPT ![q] = "done"]
    /\ UNCHANGED <<attempt, tx, via, fut, nextTx, lock, ready, reader, tstate, rstate,
                   wire, closed>>

(* The reader failed the future.                                             *)
Failed(q) ==
    /\ pc[q] = "wait"
    /\ fut[q] = "error"
    /\ FailAttempt(q)
    /\ UNCHANGED <<tx, via, nextTx, lock, closed>>

(* Five seconds without an answer: TimeoutError, no retry, no drop.          *)
Timeout(q) ==
    /\ pc[q] = "wait"
    /\ fut[q] = "pending"
    /\ PopPending(q)
    /\ fut' = [fut EXCEPT ![q] = "none"]
    /\ pc' = [pc EXCEPT ![q] = "failed"]
    /\ UNCHANGED <<attempt, tx, via, nextTx, lock, ready, reader, tstate, rstate, wire,
                   closed>>

-----------------------------------------------------------------------------
(* The first step of the reader task of t.                                   *)
ReaderStart(t) ==
    /\ rstate[t] = "created"
    /\ rstate' = [rstate EXCEPT ![t] = "running"]
    /\ UNCHANGED <<pc, attempt, tx, via, fut, pending, nextTx, lock, ready, reader, tstate,
                   wire, closed>>

(* A frame arrives on the current tunnel (the loop reads self._ready each    *)
(* turn); the query waiting under its id, if any, gets it.                   *)
ReaderAnswer(t, m) ==
    /\ rstate[t] = "running"
    /\ m[1] = ready
    /\ wire' = wire \ {m}
    /\ LET q == pending[m[2]] IN
         /\ pending' = [pending EXCEPT ![m[2]] = None]
         /\ fut' = [p \in Queries |-> IF p = q /\ fut[p] = "pending" THEN m[3]
                                                                     ELSE fut[p]]
    /\ UNCHANGED <<pc, attempt, tx, via, nextTx, lock, ready, reader, tstate, rstate, closed>>

(* The tunnel ends under the reader: every waiting query is failed, the      *)
(* table cleared, and the finally clause drops the tunnel.                   *)
ReaderFail(t) ==
    /\ rstate[t] = "running"
    /\ ready # None /\ tstate[ready] = "cut"
    /\ fut' = [q \in Queries |->
                 IF \E x \in TxIds : pending[x] = q /\ fut[q] = "pending"
                 THEN "error" ELSE fut[q]]
    /\ pending' = [x \in TxIds |-> None]
    /\ DropTunnel(t)
    /\ UNCHANGED <<pc, attempt, tx, via, nextTx, lock, closed>>

(* CancelledError reaches a cancelled reader.  It is no Exception: no query  *)
(* is failed, and the finally clause drops the tunnel of the moment.         *)
ReaderCancelled(t) ==
    /\ rstate[t] = "cancelling"
    /\ DropTunnel(t)
    /\ UNCHANGED <<pc, attempt, tx, via, fut, pending, nextTx, lock, closed>>

(* The peer cuts a tunnel; what was on its way is lost.                      *)
Cut(t) ==
    /\ tstate[t] = "open"
    /\ tstate' = [tstate EXCEPT ![t] = "cut"]
    /\ wire' = {m \in wire : m[1] # t}
    /\ UNCHANGED <<pc, attempt, tx, via, fut, pending, nextTx, lock, ready, reader, rstate,
                   closed>>

(* DNSForwarder.reload closes the upstream and forgets it.                   *)
Close ==
    /\ ~closed
    /\ closed' = TRUE
    /\ DropTunnel(None)
    /\ UNCHANGED <<pc, attempt, tx, via, fut, pending, nextTx, lock>>

-----------------------------------------------------------------------------
QueryStep(q) ==
    \/ Call(q) \/ Enter(q) \/ SendOnLive(q) \/ TakeSetupLock(q)
    \/ \E t \in Tunnels : SetupOk(q, t)
    \/ SetupFail(q) \/ SetupTimeout(q) \/ Drained(q) \/ DrainFail(q)
    \/ Answered(q) \/ Failed(q) \/ Timeout(q)

ReaderStep(t) ==
    \/ ReaderStart(t) \/ ReaderFail(t) \/ ReaderCancelled(t)
    \/ \E m \in wire : ReaderAnswer(t, m)

Next ==
    \/ \E q \in Queries : QueryStep(q)
    \/ \E t \in Tunnels : ReaderStep(t) \/ Cut(t)
    \/ Close

Spec == Init /\ [][Next]_vars

(* The event loop runs what is ready, the semaphore and the lock are handed  *)
(* over, dialling and waiting have timeouts.  Nothing makes the resolver     *)
(* answer.                                                                   *)
Fairness ==
    /\ \A q \in Queries :
        /\ WF_vars(Enter(q))
        /\ WF_vars(SendOnLive(q) \/ TakeSetupLock(q))
        /\ WF_vars(SetupFail(q) \/ SetupTimeout(q))
        /\ WF_vars(Drained(q) \/ DrainFail(q))
        /\ WF_vars(Answered(q) \/ Failed(q) \/ Timeout(q))
    /\ \A t \in Tunnels : WF_vars(ReaderStart(t) \/ ReaderFail(t) \/ ReaderCancelled(t))

FairSpec == Spec /\ Fairness

-----------------------------------------------------------------------------
(* The variables stay in their ranges.                                       *)
TypeOK ==
    /\ pc \in [Queries -> Stages]
    /\ attempt \in [Queries -> 0 .. 1]
    /\ tx \in [Queries -> TxIds]
    /\ via \in [Queries -> Tunnels \cup {None}]
    /\ fut \in [Queries -> {"none", "pending", "error"} \cup Queries]
    /\ pending \in [TxIds -> Queries \cup {None}]
    /\ nextTx \in TxIds
    /\ lock \in Queries \cup {None}
    /\ ready \in Tunnels \cup {None}
    /\ reader \in Tunnels \cup {None}
    /\ tstate \in [Tunnels -> {"fresh", "open", "cut", "closed"}]
    /\ rstate \in [Tunnels -> {"none", "created", "running", "cancelling", "ended"}]
    /\ wire \subseteq Tunnels \X TxIds \X Queries
    /\ closed \in BOOLEAN

(* The upstream never loses track of a tunnel: every tunnel it has acquired  *)
(* and not closed is the current one, however drops, retries, late finally   *)
(* clauses and concurrent setups interleave (upstream.py:101-186).           *)
NoTunnelLeak == \A t \in Tunnels : Held(t) => t = ready

(* The current tunnel has a reader that is not cancelled, made for it, and   *)
(* no other reader is in its loop: two tasks never read one stream, and no   *)
(* query is sent on a tunnel nobody reads.                                   *)
OneReader ==
    /\ ready # None => reader = ready /\ rstate[ready] \in {"created", "running"}
    /\ \A t \in Tunnels : rstate[t] \in {"created", "running"} => t = ready

(* Setups exclude one another, and none starts while a tunnel is current.    *)
SetupExclusive ==
    /\ \A q \in Queries : pc[q] = "setup" <=> lock = q
    /\ lock # None => ready = None

(* As long as the ids have not come round, the answer a query gets is the    *)
(* answer to that query, whatever was dropped, retried or timed out before.  *)
AnswersMatch == \A q \in Queries : fut[q] \in Queries => fut[q] = q

(* A query that waits can be found under its id by the reader, and nothing   *)
(* else is in the table: no waiting query is forgotten by the finally clause *)
(* of another, no finished one stays.                                        *)
PendingAccounted ==
    \A q \in Queries, x \in TxIds :
        pending[x] = q <=> pc[q] \in Waiting /\ fut[q] = "pending" /\ tx[q] = x

(* Every query that is admitted ends, with an answer or an error: no lost    *)
(* future, lock or semaphore permit leaves one hanging.                      *)
QueryEnds == \A q \in Queries : pc[q] = "queued" ~> pc[q] \in {"done", "failed"}

(* CHANGELOG.md:1728 says close() makes the queries in flight raise OSError: *)
(* once the cancelled readers have run out, none waits for an answer from a  *)
(* tunnel close() has closed.  Cancelling the reader fails no future, so     *)
(* they wait for their timeout (upstream.py:158-186).                        *)
CloseFailsInflight ==
    closed /\ (\A t \in Tunnels : rstate[t] # "cancelling") =>
        \A q \in Queries :
            pc[q] = "wait" /\ fut[q] = "pending" => tstate[via[q]] # "closed"
=============================================================================
