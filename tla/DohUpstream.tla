---------------------------- MODULE DohUpstream ----------------------------
(***************************************************************************)
(* DNS over HTTPS of the client (mirage/core/dns/upstream.py, DohUpstream): *)
(* one TLS connection through a tunnel, one HTTP transaction at a time      *)
(* under a lock; whatever fails drops the connection, and the query tries   *)
(* once more.  The forwarder (mirage/core/dns_forwarder.py) makes the       *)
(* upstream when it first needs it and closes and forgets it on a reload;   *)
(* the queries inside keep the one they have.                              *)
(***************************************************************************)
EXTENDS Naturals, Sequences

CONSTANTS Queries, Conns,
          MaxReloads,   \* bound: reloads that change the DNS addresses
          None

VARIABLES pc,        \* where each query is
          attempt,   \* its turn of "for attempt in (0, 1)"
          up,        \* the upstream it was given
          on,        \* the connection it reads
          got,       \* what it has read of the answer, by whose answer it is
          current,   \* the upstream in _tunnels, or to be made next
          tls,       \* _tls (and _ready) of each upstream
          setup, req, \* the holders of _setup_lock and _req_lock
          cstate,    \* each connection: not yet made, open, closed
          stream,    \* the pieces of answers that arrive on it
          busy       \* upstreams closed with queries inside

dohVars == <<pc, attempt, up, on, got, current, tls, setup, req, cstate, stream, busy>>

Upstreams == 0 .. MaxReloads
Inside(u) == {q \in Queries : up[q] = u /\ pc[q] \notin {"idle", "done", "failed"}}

Init ==
    /\ pc = [q \in Queries |-> "idle"] /\ attempt = [q \in Queries |-> 0]
    /\ up = [q \in Queries |-> 0] /\ on = [q \in Queries |-> None]
    /\ got = [q \in Queries |-> <<>>]
    /\ current = 0 /\ busy = {}
    /\ tls = [u \in Upstreams |-> None]
    /\ setup = [u \in Upstreams |-> None] /\ req = [u \in Upstreams |-> None]
    /\ cstate = [c \in Conns |-> "fresh"] /\ stream = [c \in Conns |-> <<>>]

(* _drop: whatever connection the upstream has now.                          *)
Drop(u) ==
    /\ tls' = [tls EXCEPT ![u] = None]
    /\ cstate' = [c \in Conns |-> IF c = tls[u] THEN "closed" ELSE cstate[c]]

(* Mutant: the request lock is not released.                                 *)
Release_Not(lock, q) == [u \in Upstreams |-> IF lock[u] = q THEN q ELSE lock[u]]

Release(lock, q) == [u \in Upstreams |-> IF lock[u] = q THEN None ELSE lock[u]]

(* Mutant: a failed query leaves the connection to the next one.             *)
FailAttempt_NoDrop(q) ==
    /\ setup' = Release(setup, q) /\ req' = Release(req, q)
    /\ attempt' = [attempt EXCEPT ![q] = 1]
    /\ got' = [got EXCEPT ![q] = <<>>] /\ on' = [on EXCEPT ![q] = None]
    /\ pc' = [pc EXCEPT ![q] = IF attempt[q] = 1 THEN "failed" ELSE "ensure"]
    /\ UNCHANGED <<up, current, tls, cstate, stream, busy>>

(* The locks are released on the way out; then the except clause of query.   *)
FailAttempt(q) ==
    /\ setup' = Release(setup, q) /\ req' = Release(req, q)
    /\ Drop(up[q])
    /\ attempt' = [attempt EXCEPT ![q] = 1]
    /\ got' = [got EXCEPT ![q] = <<>>] /\ on' = [on EXCEPT ![q] = None]
    /\ pc' = [pc EXCEPT ![q] = IF attempt[q] = 1 THEN "failed" ELSE "ensure"]
    /\ UNCHANGED <<up, current, stream, busy>>

-----------------------------------------------------------------------------
(* _handle: _tunnel_for(leaf).query(data), without an await between.         *)
Ask(q) ==
    /\ pc[q] = "idle"
    /\ up' = [up EXCEPT ![q] = current]
    /\ pc' = [pc EXCEPT ![q] = "ensure"]
    /\ UNCHANGED <<attempt, on, got, current, tls, setup, req, cstate, stream, busy>>

(* _ensure_ready: the connection is there, before or after the wait.         *)
Ready(q) ==
    /\ pc[q] = "ensure" /\ tls[up[q]] # None
    /\ pc' = [pc EXCEPT ![q] = "queued"]
    /\ UNCHANGED <<attempt, up, on, got, current, tls, setup, req, cstate, stream, busy>>

TakeSetupLock(q) ==
    /\ pc[q] = "ensure" /\ tls[up[q]] = None /\ setup[up[q]] = None
    /\ setup' = [setup EXCEPT ![up[q]] = q]
    /\ pc' = [pc EXCEPT ![q] = "setup"]
    /\ UNCHANGED <<attempt, up, on, got, current, tls, req, cstate, stream, busy>>

(* A tunnel and a TLS handshake on it.                                       *)
SetupOk(q) ==
    /\ pc[q] = "setup"
    /\ \E c \in Conns :
        /\ cstate[c] = "fresh"
        /\ tls' = [tls EXCEPT ![up[q]] = c]
        /\ cstate' = [cstate EXCEPT ![c] = "open"]
    /\ setup' = Release(setup, q)
    /\ pc' = [pc EXCEPT ![q] = "queued"]
    /\ UNCHANGED <<attempt, up, on, got, current, req, stream, busy>>

(* No tunnel, a handshake that fails or takes too long: the tunnel, if any,  *)
(* is closed.                                                               *)
SetupFail(q) == pc[q] = "setup" /\ FailAttempt(q)

TakeRequestLock(q) ==
    /\ pc[q] = "queued" /\ req[up[q]] = None
    /\ req' = [req EXCEPT ![up[q]] = q]
    /\ pc' = [pc EXCEPT ![q] = "locked"]
    /\ UNCHANGED <<attempt, up, on, got, current, tls, setup, cstate, stream, busy>>

(* _do_request on the connection of the moment; its answer comes in two      *)
(* pieces, the header and the body.                                         *)
Send(q) ==
    LET c == tls[up[q]] IN
    /\ pc[q] = "locked" /\ c # None
    /\ on' = [on EXCEPT ![q] = c]
    /\ stream' = [stream EXCEPT ![c] = @ \o <<q, q>>]
    /\ pc' = [pc EXCEPT ![q] = "reading"]
    /\ UNCHANGED <<attempt, up, got, current, tls, setup, req, cstate, busy>>

(* The holder before it dropped the connection: self._tls is None.           *)
NoConnection(q) == pc[q] = "locked" /\ tls[up[q]] = None /\ FailAttempt(q)

(* A piece arrives; the next one is read from self._tls of that moment.      *)
ReadHeader(q) ==
    LET c == on[q] IN
    /\ pc[q] = "reading" /\ Len(got[q]) = 0
    /\ tls[up[q]] # None
    /\ stream[c] # <<>>
    /\ got' = [got EXCEPT ![q] = Append(@, Head(stream[c]))]
    /\ stream' = [stream EXCEPT ![c] = Tail(@)]
    /\ on' = [on EXCEPT ![q] = tls[up[q]]]
    /\ UNCHANGED <<pc, attempt, up, current, tls, setup, req, cstate, busy>>

ReadBody(q) ==
    LET c == on[q] IN
    /\ pc[q] = "reading" /\ Len(got[q]) = 1
    /\ stream[c] # <<>>
    /\ got' = [got EXCEPT ![q] = Append(@, Head(stream[c]))]
    /\ stream' = [stream EXCEPT ![c] = Tail(@)]
    /\ on' = [on EXCEPT ![q] = None]
    /\ req' = Release(req, q)
    /\ pc' = [pc EXCEPT ![q] = "done"]
    /\ UNCHANGED <<attempt, up, current, tls, setup, cstate, busy>>

(* Five seconds, a broken connection, self._tls gone, an answer that is not  *)
(* 200, without a length or too long.                                       *)
RequestFails(q) == pc[q] = "reading" /\ FailAttempt(q)

(* reload with new addresses, or stop: close and forget the upstream.        *)
Reload ==
    /\ current < MaxReloads
    /\ Drop(current)
    /\ busy' = busy \cup {u \in {current} : Inside(u) # {}}
    /\ current' = current + 1
    /\ UNCHANGED <<pc, attempt, up, on, got, setup, req, stream>>

QueryStep(q) ==
    \/ Ask(q) \/ Ready(q) \/ TakeSetupLock(q) \/ SetupOk(q) \/ SetupFail(q)
    \/ TakeRequestLock(q) \/ Send(q) \/ NoConnection(q)
    \/ ReadHeader(q) \/ ReadBody(q) \/ RequestFails(q)

Next == Reload \/ \E q \in Queries : QueryStep(q)

Spec == Init /\ [][Next]_dohVars

-----------------------------------------------------------------------------
(* A query is never answered with another's answer or a mix of two, whatever *)
(* was given up on the connection before (upstream.py:350-427).             *)
OwnAnswers == \A q \in Queries : pc[q] = "done" => got[q] = <<q, q>>

(* Every open connection is the one of an upstream, and an upstream that was *)
(* closed has one only if queries were inside: they set it up afterwards     *)
(* (upstream.py:362-384, 429-436; dns_forwarder.py:239-241).                *)
TunnelsHeld ==
    /\ \A c \in Conns : cstate[c] = "open" => \E u \in Upstreams : tls[u] = c
    /\ \A u \in Upstreams : u < current /\ u \notin busy => tls[u] = None

DohSound == OwnAnswers /\ TunnelsHeld

(* Every query ends: each wait has a timeout or waits for one that has, and  *)
(* there are two attempts (upstream.py:350-360).                            *)
DohServed == \A q \in Queries : pc[q] = "ensure" ~> pc[q] \in {"done", "failed"}
=============================================================================
