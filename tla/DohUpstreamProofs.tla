------------------------- MODULE DohUpstreamProofs -------------------------
(***************************************************************************)
(* Proofs about DohUpstream, for any number of queries, connections and     *)
(* reloads: answers are not mixed up, and no connection is lost.            *)
(***************************************************************************)
EXTENDS DohUpstream, SequenceTheorems, TLAPS

Stages == {"idle", "ensure", "setup", "queued", "locked", "reading", "done", "failed"}

Types ==
    /\ pc \in [Queries -> Stages]
    /\ up \in [Queries -> Upstreams]
    /\ on \in [Queries -> Conns \cup {None}]
    /\ got \in [Queries -> Seq(Queries)]
    /\ current \in Upstreams
    /\ tls \in [Upstreams -> Conns \cup {None}]
    /\ setup \in [Upstreams -> Queries \cup {None}]
    /\ req \in [Upstreams -> Queries \cup {None}]
    /\ cstate \in [Conns -> {"fresh", "open", "closed"}]
    /\ stream \in [Conns -> Seq(Queries)]
    /\ busy \subseteq Upstreams

(* A lock of an upstream is held by a query inside that is where it needs it. *)
Locks ==
    /\ \A q \in Queries : pc[q] = "setup" => setup[up[q]] = q
    /\ \A q \in Queries : pc[q] \in {"locked", "reading"} => req[up[q]] = q
    /\ \A u \in Upstreams, q \in Queries : setup[u] = q => up[q] = u /\ pc[q] = "setup"
    /\ \A u \in Upstreams, q \in Queries :
          req[u] = q => up[q] = u /\ pc[q] \in {"locked", "reading"}

(* Connections: the open ones are those of the upstreams, one each; while one *)
(* is set up there is none.                                                  *)
Held ==
    /\ \A u \in Upstreams : tls[u] # None => cstate[tls[u]] = "open"
    /\ \A c \in Conns : cstate[c] = "open" => \E u \in Upstreams : tls[u] = c
    /\ \A u, v \in Upstreams : tls[u] # None /\ tls[u] = tls[v] => u = v
    /\ \A q \in Queries : pc[q] = "setup" => tls[up[q]] = None

(* A query that reads has its connection for itself, and finds on it the rest *)
(* of its answer or, if the connection was replaced, nothing.                *)
Reads ==
    /\ \A q \in Queries : pc[q] = "reading" =>
          /\ on[q] \in Conns
          /\ cstate[on[q]] = "closed" \/ tls[up[q]] = on[q]
          /\ \/ got[q] = <<>> /\ stream[on[q]] = <<q, q>>
             \/ got[q] = <<q>> /\ stream[on[q]] \in {<<q>>, <<>>}
    /\ \A q, r \in Queries :
          pc[q] = "reading" /\ pc[r] = "reading" /\ on[q] = on[r] => q = r

(* What nobody reads from is empty: a connection not made yet, and the        *)
(* present one of an upstream.                                              *)
Clean ==
    /\ \A c \in Conns : cstate[c] = "fresh" => stream[c] = <<>>
    /\ \A u \in Upstreams : tls[u] # None =>
          \/ stream[tls[u]] = <<>>
          \/ \E q \in Queries : pc[q] = "reading" /\ on[q] = tls[u]

(* Queries are given the present upstream; a closed one that nobody was in    *)
(* stays empty.                                                             *)
Left ==
    /\ \A q \in Queries : up[q] <= current
    /\ \A u \in Upstreams : u < current /\ u \notin busy =>
          /\ tls[u] = None
          /\ \A q \in Queries : up[q] = u => pc[q] \in {"idle", "done", "failed"}

(* Nothing has been read before the request, or is kept after a failure.     *)
Unread == \A q \in Queries : pc[q] \notin {"reading", "done"} => got[q] = <<>>

DohInv == Types /\ Locks /\ Held /\ Reads /\ Clean /\ Left /\ Unread /\ OwnAnswers

(* The constants.                                                            *)
Constants == None \notin Conns \cup Queries /\ MaxReloads \in Nat

(* An answer of two pieces.                                                  *)
LEMMA Pieces ==
    ASSUME NEW q \in Queries
    PROVE  /\ <<>> \in Seq(Queries) /\ <<q>> \in Seq(Queries) /\ <<q, q>> \in Seq(Queries)
           /\ <<>> \o <<q, q>> = <<q, q>>
           /\ <<q, q>> # <<>> /\ Head(<<q, q>>) = q /\ Tail(<<q, q>>) = <<q>>
           /\ <<q>> # <<>> /\ Head(<<q>>) = q /\ Tail(<<q>>) = <<>>
           /\ Append(<<>>, q) = <<q>> /\ Append(<<q>>, q) = <<q, q>>
           /\ Len(<<>>) = 0 /\ Len(<<q>>) = 1
<1>1. <<>> \in Seq(Queries) /\ <<q>> \in Seq(Queries) /\ <<q, q>> \in Seq(Queries)
  OBVIOUS
<1>2. <<>> \o <<q, q>> = <<q, q>>
  BY <1>1, ConcatEmptySeq
<1>3. <<q, q>> # <<>> /\ Head(<<q, q>>) = q
  OBVIOUS
<1>6. Tail(<<q, q>>) = <<q>>
  OBVIOUS
<1>7. <<q>> # <<>> /\ Head(<<q>>) = q
  OBVIOUS
<1>8. Tail(<<q>>) = <<>>
  OBVIOUS
<1>4. Append(<<>>, q) = <<q>>
  OBVIOUS
<1>9. Append(<<q>>, q) = <<q, q>>
  <2>1. /\ Append(<<q>>, q) \in Seq(Queries) /\ Len(Append(<<q>>, q)) = Len(<<q>>) + 1
        /\ \A i \in 1 .. Len(<<q>>) : Append(<<q>>, q)[i] = <<q>>[i]
        /\ Append(<<q>>, q)[Len(<<q>>) + 1] = q
    BY <1>1, AppendProperties
  <2>2. Len(Append(<<q>>, q)) = 2 /\ Len(<<q, q>>) = 2
    BY <2>1
  <2>3. \A i \in 1 .. 2 : Append(<<q>>, q)[i] = <<q, q>>[i]
    BY <2>1
  <2> QED
    BY <1>1, <2>1, <2>2, <2>3, SeqEqual
<1>5. Len(<<>>) = 0 /\ Len(<<q>>) = 1
  OBVIOUS
<1> QED
  BY <1>1, <1>2, <1>3, <1>4, <1>5, <1>6, <1>7, <1>8, <1>9

(* The locks: whoever leaves gives back what it holds.                       *)
LEMMA Released ==
    ASSUME Constants, NEW q \in Queries, NEW lock \in [Upstreams -> Queries \cup {None}]
    PROVE  /\ Release(lock, q) \in [Upstreams -> Queries \cup {None}]
           /\ \A u \in Upstreams : Release(lock, q)[u] # q
           /\ \A u \in Upstreams, r \in Queries : Release(lock, q)[u] = r => lock[u] = r
           /\ \A u \in Upstreams, r \in Queries : r # q /\ lock[u] = r =>
                 Release(lock, q)[u] = r
BY DEF Release, Constants

(* The initial state.                                                        *)
LEMMA DohInit == Constants /\ Init => DohInv
<1> SUFFICES ASSUME Constants, Init PROVE DohInv
  OBVIOUS
<1>1. <<>> \in Seq(Queries)
  BY EmptySeq
<1>2. 0 \in Upstreams
  BY DEF Constants, Upstreams
<1>3. Types
  BY <1>1, <1>2 DEF Init, Types, Stages
<1>4. Locks /\ Held /\ Reads /\ Clean /\ Unread /\ OwnAnswers
  BY <1>3 DEF Init, Constants, Types, Locks, Held, Reads, Clean, Unread, OwnAnswers
<1>5. Left
  BY DEF Init, Left, Upstreams
<1> QED
  BY <1>3, <1>4, <1>5 DEF DohInv

-----------------------------------------------------------------------------
(* What Drop does to the connections: one is closed, the others stay.        *)
LEMMA Dropped ==
    ASSUME Constants, Types, Held, NEW u \in Upstreams, Drop(u)
    PROVE  /\ tls' \in [Upstreams -> Conns \cup {None}]
           /\ cstate' \in [Conns -> {"fresh", "open", "closed"}]
           /\ tls'[u] = None /\ \A v \in Upstreams \ {u} : tls'[v] = tls[v]
           /\ \A c \in Conns : cstate[c] = "closed" => cstate'[c] = "closed"
           /\ \A c \in Conns : tls[u] = c => cstate'[c] = "closed"
           /\ \A c \in Conns : cstate'[c] = "fresh" => cstate[c] = "fresh"
           /\ \A v \in Upstreams : tls'[v] # None => cstate'[tls'[v]] = "open"
           /\ \A c \in Conns : cstate'[c] = "open" => \E v \in Upstreams : tls'[v] = c
           /\ \A v, w \in Upstreams : tls'[v] # None /\ tls'[v] = tls'[w] => v = w
<1>1. /\ tls' \in [Upstreams -> Conns \cup {None}]
      /\ cstate' \in [Conns -> {"fresh", "open", "closed"}]
      /\ tls'[u] = None /\ \A v \in Upstreams \ {u} : tls'[v] = tls[v]
  BY DEF Drop, Types
<1>2. \A c \in Conns : cstate'[c] = IF c = tls[u] THEN "closed" ELSE cstate[c]
  BY DEF Drop
<1>3. \A v \in Upstreams : tls'[v] # None => cstate'[tls'[v]] = "open"
  <2> SUFFICES ASSUME NEW v \in Upstreams, tls'[v] # None PROVE cstate'[tls'[v]] = "open"
    OBVIOUS
  <2>1. v # u /\ tls'[v] = tls[v] /\ tls[v] \in Conns /\ cstate[tls[v]] = "open"
    BY <1>1 DEF Types, Held
  <2>2. tls[v] # tls[u]
    BY <2>1 DEF Held, Constants
  <2> QED
    BY <1>2, <2>1, <2>2
<1>4. \A c \in Conns : cstate'[c] = "open" => \E v \in Upstreams : tls'[v] = c
  BY <1>1, <1>2 DEF Held
<1>5. \A v, w \in Upstreams : tls'[v] # None /\ tls'[v] = tls'[w] => v = w
  BY <1>1 DEF Held
<1> QED
  BY <1>1, <1>2, <1>3, <1>4, <1>5

(* A query that fails: it leaves its locks and its connection.  Whoever reads *)
(* on another connection is not disturbed.                                  *)
LEMMA FailStep ==
    ASSUME Constants, DohInv, NEW q \in Queries, pc[q] \in {"setup", "locked", "reading"},
           FailAttempt(q)
    PROVE  DohInv'
<1>0. /\ up[q] \in Upstreams /\ Drop(up[q]) /\ up' = up /\ current' = current
      /\ stream' = stream /\ busy' = busy
      /\ setup' = Release(setup, q) /\ req' = Release(req, q)
  BY DEF DohInv, Types, FailAttempt
<1>1. /\ pc'[q] \in {"ensure", "failed"} /\ got'[q] = <<>> /\ on'[q] = None
      /\ \A r \in Queries \ {q} : pc'[r] = pc[r] /\ got'[r] = got[r] /\ on'[r] = on[r]
  BY DEF DohInv, Types, FailAttempt
<1>2. /\ tls' \in [Upstreams -> Conns \cup {None}]
      /\ cstate' \in [Conns -> {"fresh", "open", "closed"}]
      /\ tls'[up[q]] = None /\ \A v \in Upstreams \ {up[q]} : tls'[v] = tls[v]
      /\ \A c \in Conns : cstate[c] = "closed" => cstate'[c] = "closed"
      /\ \A c \in Conns : tls[up[q]] = c => cstate'[c] = "closed"
      /\ \A c \in Conns : cstate'[c] = "fresh" => cstate[c] = "fresh"
      /\ \A v \in Upstreams : tls'[v] # None => cstate'[tls'[v]] = "open"
      /\ \A c \in Conns : cstate'[c] = "open" => \E v \in Upstreams : tls'[v] = c
      /\ \A v, w \in Upstreams : tls'[v] # None /\ tls'[v] = tls'[w] => v = w
  BY <1>0, Dropped DEF DohInv
<1>3. Types'
  <2>1. <<>> \in Seq(Queries)
    BY EmptySeq
  <2>2. setup' \in [Upstreams -> Queries \cup {None}] /\ req' \in [Upstreams -> Queries \cup {None}]
    BY <1>0, Released DEF DohInv, Types
  <2>3. pc' \in [Queries -> Stages]
    BY DEF DohInv, Types, FailAttempt, Stages
  <2>4. on' \in [Queries -> Conns \cup {None}] /\ got' \in [Queries -> Seq(Queries)]
    BY <2>1 DEF DohInv, Types, FailAttempt
  <2> QED
    BY <1>0, <1>2, <2>2, <2>3, <2>4 DEF DohInv, Types
<1>4. Locks'
  <2>1. /\ \A u \in Upstreams : setup'[u] # q /\ req'[u] # q
        /\ \A u \in Upstreams, r \in Queries : setup'[u] = r => setup[u] = r
        /\ \A u \in Upstreams, r \in Queries : req'[u] = r => req[u] = r
        /\ \A u \in Upstreams, r \in Queries : r # q /\ setup[u] = r => setup'[u] = r
        /\ \A u \in Upstreams, r \in Queries : r # q /\ req[u] = r => req'[u] = r
    <3>1. setup \in [Upstreams -> Queries \cup {None}] /\ req \in [Upstreams -> Queries \cup {None}]
      BY DEF DohInv, Types
    <3>2. /\ \A u \in Upstreams : setup'[u] # q
          /\ \A u \in Upstreams, r \in Queries : setup'[u] = r => setup[u] = r
          /\ \A u \in Upstreams, r \in Queries : r # q /\ setup[u] = r => setup'[u] = r
      BY <1>0, <3>1, Released
    <3>3. /\ \A u \in Upstreams : req'[u] # q
          /\ \A u \in Upstreams, r \in Queries : req'[u] = r => req[u] = r
          /\ \A u \in Upstreams, r \in Queries : r # q /\ req[u] = r => req'[u] = r
      BY <1>0, <3>1, Released
    <3> QED
      BY <3>2, <3>3
  <2>2. \A r \in Queries : up[r] \in Upstreams
    BY DEF DohInv, Types
  <2>3. ASSUME NEW r \in Queries
        PROVE  /\ pc'[r] = "setup" => setup'[up[r]] = r
               /\ pc'[r] \in {"locked", "reading"} => req'[up[r]] = r
    BY <1>1, <2>1, <2>2 DEF DohInv, Locks
  <2>4. ASSUME NEW u \in Upstreams, NEW r \in Queries
        PROVE  /\ setup'[u] = r => up[r] = u /\ pc'[r] = "setup"
               /\ req'[u] = r => up[r] = u /\ pc'[r] \in {"locked", "reading"}
    <3>1. CASE r = q
      BY <2>1, <3>1
    <3>2. CASE r # q
      BY <1>1, <2>1, <3>2 DEF DohInv, Locks
    <3> QED
      BY <3>1, <3>2
  <2>5. up' = up
    BY <1>0
  <2>6. \A r \in Queries : pc'[r] = "setup" => setup'[up'[r]] = r
    BY <2>3, <2>5
  <2>7. \A r \in Queries : pc'[r] \in {"locked", "reading"} => req'[up'[r]] = r
    BY <2>3, <2>5
  <2> QED
    BY <2>4, <2>5, <2>6, <2>7 DEF Locks
<1>5. Held'
  <2>1. ASSUME NEW r \in Queries, pc'[r] = "setup" PROVE tls'[up'[r]] = None
    <3>1. r # q /\ pc[r] = "setup" /\ up[r] \in Upstreams /\ up'[r] = up[r]
      BY <1>0, <1>1, <2>1 DEF DohInv, Types
    <3>2. tls[up[r]] = None
      BY <3>1 DEF DohInv, Held
    <3> QED
      BY <1>2, <3>1, <3>2
  <2> QED
    BY <1>2, <2>1 DEF Held
<1>6. Reads'
  <2> SUFFICES ASSUME NEW r \in Queries, pc'[r] = "reading"
               PROVE  /\ on'[r] \in Conns
                      /\ cstate'[on'[r]] = "closed" \/ tls'[up'[r]] = on'[r]
                      /\ \/ got'[r] = <<>> /\ stream'[on'[r]] = <<r, r>>
                         \/ got'[r] = <<r>> /\ stream'[on'[r]] \in {<<r>>, <<>>}
                      /\ \A p \in Queries : pc'[p] = "reading" /\ on'[r] = on'[p] => r = p
    BY DEF Reads
  <2>1. r # q /\ pc[r] = "reading" /\ on'[r] = on[r] /\ got'[r] = got[r]
    BY <1>1
  <2>2. /\ on[r] \in Conns
        /\ cstate[on[r]] = "closed" \/ tls[up[r]] = on[r]
        /\ \/ got[r] = <<>> /\ stream[on[r]] = <<r, r>>
           \/ got[r] = <<r>> /\ stream[on[r]] \in {<<r>>, <<>>}
        /\ \A p \in Queries : pc[p] = "reading" /\ on[r] = on[p] => r = p
    BY <2>1 DEF DohInv, Reads
  <2>3. cstate'[on[r]] = "closed" \/ tls'[up[r]] = on[r]
    BY <1>0, <1>2, <2>2 DEF DohInv, Types
  <2>4. \A p \in Queries : pc'[p] = "reading" => pc[p] = "reading" /\ on'[p] = on[p]
    BY <1>1
  <2> QED
    BY <1>0, <2>1, <2>2, <2>3, <2>4
<1>7. Clean'
  <2> SUFFICES ASSUME NEW u \in Upstreams, tls'[u] # None
               PROVE  \/ stream[tls'[u]] = <<>>
                      \/ \E r \in Queries : pc'[r] = "reading" /\ on'[r] = tls'[u]
    BY <1>0, <1>2 DEF DohInv, Clean
  <2>1. u # up[q] /\ tls'[u] = tls[u]
    BY <1>0, <1>2
  <2>2. \/ stream[tls[u]] = <<>>
        \/ \E r \in Queries : pc[r] = "reading" /\ on[r] = tls[u]
    BY <2>1 DEF DohInv, Clean
  <2>3. ASSUME NEW r \in Queries, pc[r] = "reading", on[r] = tls[u] PROVE r # q
    <3>1. cstate[tls[u]] = "open" /\ tls[up[r]] = on[r]
      BY <2>1, <2>3 DEF DohInv, Held, Reads
    <3>2. up[r] = u
      BY <2>1, <2>3, <3>1 DEF DohInv, Held, Types
    <3> QED
      BY <2>1, <3>2
  <2> QED
    BY <1>1, <2>1, <2>2, <2>3
<1>8. Left'
  <2>1. \A u \in Upstreams : tls[u] = None => tls'[u] = None
    BY <1>2
  <2>2. \A r \in Queries : pc[r] \in {"idle", "done", "failed"} => pc'[r] \in {"idle", "done", "failed"}
    BY <1>1
  <2> QED
    BY <1>0, <2>1, <2>2 DEF DohInv, Left
<1>9. Unread' /\ OwnAnswers'
  BY <1>1 DEF DohInv, Unread, OwnAnswers
<1> QED
  BY <1>3, <1>4, <1>5, <1>6, <1>7, <1>8, <1>9 DEF DohInv

(* Who reads, reads on a connection of its own upstream, if it is open, and   *)
(* there is one reader for each.                                             *)
LEMMA OneReader ==
    ASSUME Constants, DohInv, NEW q \in Queries, pc[q] \in {"locked", "reading"},
           NEW r \in Queries, pc[r] = "reading", on[r] = tls[up[q]]
    PROVE  r = q
<1>1. up[q] \in Upstreams /\ up[r] \in Upstreams /\ on[r] \in Conns
  BY DEF DohInv, Types, Reads
<1>2. tls[up[q]] # None /\ cstate[on[r]] = "open"
  BY <1>1 DEF DohInv, Held, Constants
<1>3. tls[up[r]] = on[r]
  BY <1>2 DEF DohInv, Reads
<1>4. up[r] = up[q]
  BY <1>1, <1>2, <1>3 DEF DohInv, Held
<1>5. req[up[q]] = q /\ req[up[r]] = r
  BY DEF DohInv, Locks
<1> QED
  BY <1>4, <1>5

(* The steps of a query that does not read yet, and none that others see.    *)
LEMMA AskStep ==
    ASSUME Constants, DohInv, NEW q \in Queries, Ask(q)
    PROVE  DohInv'
<1>1. /\ pc[q] = "idle" /\ pc'[q] = "ensure" /\ up'[q] = current
      /\ \A r \in Queries \ {q} : pc'[r] = pc[r] /\ up'[r] = up[r]
      /\ on' = on /\ got' = got /\ current' = current /\ tls' = tls /\ setup' = setup
      /\ req' = req /\ cstate' = cstate /\ stream' = stream /\ busy' = busy
  BY DEF Ask, DohInv, Types
<1>2. Types'
  BY DEF Ask, DohInv, Types, Stages
<1>3. Locks'
  BY <1>1 DEF DohInv, Locks
<1>4. Held'
  BY <1>1 DEF DohInv, Held
<1>5. Reads'
  BY <1>1 DEF DohInv, Reads
<1>6. Clean'
  BY <1>1 DEF DohInv, Clean
<1>7. Left'
  <2>1. current \in Nat
    BY DEF DohInv, Types, Upstreams, Constants
  <2> QED
    BY <1>1, <2>1 DEF DohInv, Left
<1>8. Unread' /\ OwnAnswers'
  BY <1>1 DEF DohInv, Unread, OwnAnswers
<1> QED
  BY <1>2, <1>3, <1>4, <1>5, <1>6, <1>7, <1>8 DEF DohInv

LEMMA LockStep ==
    ASSUME Constants, DohInv, NEW q \in Queries,
           Ready(q) \/ TakeSetupLock(q) \/ TakeRequestLock(q)
    PROVE  DohInv'
<1>1. /\ pc[q] \in {"ensure", "queued"} /\ pc'[q] \in {"queued", "setup", "locked"}
      /\ \A r \in Queries \ {q} : pc'[r] = pc[r]
      /\ up' = up /\ on' = on /\ got' = got /\ current' = current /\ tls' = tls
      /\ cstate' = cstate /\ stream' = stream /\ busy' = busy
  BY DEF Ready, TakeSetupLock, TakeRequestLock, DohInv, Types
<1>2. Types' /\ up[q] \in Upstreams
  <2>1. up[q] \in Upstreams
    BY DEF DohInv, Types
  <2>2. pc' \in [Queries -> Stages]
    BY DEF Ready, TakeSetupLock, TakeRequestLock, DohInv, Types, Stages
  <2>3. /\ setup' \in [Upstreams -> Queries \cup {None}]
        /\ req' \in [Upstreams -> Queries \cup {None}]
    <3>1. CASE Ready(q)
      BY <3>1 DEF Ready, DohInv, Types
    <3>2. CASE TakeSetupLock(q)
      BY <2>1, <3>2 DEF TakeSetupLock, DohInv, Types
    <3>3. CASE TakeRequestLock(q)
      BY <2>1, <3>3 DEF TakeRequestLock, DohInv, Types
    <3> QED
      BY <3>1, <3>2, <3>3
  <2> QED
    BY <1>1, <2>1, <2>2, <2>3 DEF DohInv, Types
<1>3. Locks'
  <2>1. CASE Ready(q)
    BY <1>1, <2>1 DEF Ready, DohInv, Types, Locks
  <2>2. CASE TakeSetupLock(q)
    <3>1. /\ setup[up[q]] = None /\ setup'[up[q]] = q /\ req' = req /\ pc'[q] = "setup"
          /\ \A u \in Upstreams \ {up[q]} : setup'[u] = setup[u]
      BY <1>2, <2>2 DEF TakeSetupLock, DohInv, Types
    <3>2. \A r \in Queries : up[r] \in Upstreams
      BY DEF DohInv, Types
    <3>3. \A r \in Queries : pc'[r] = "setup" => setup'[up[r]] = r
      BY <1>1, <3>1, <3>2 DEF DohInv, Locks, Constants
    <3> QED
      BY <1>1, <3>1, <3>3 DEF DohInv, Locks
  <2>3. CASE TakeRequestLock(q)
    <3>1. /\ req[up[q]] = None /\ req'[up[q]] = q /\ setup' = setup /\ pc'[q] = "locked"
          /\ \A u \in Upstreams \ {up[q]} : req'[u] = req[u]
      BY <1>2, <2>3 DEF TakeRequestLock, DohInv, Types
    <3>2. \A r \in Queries : up[r] \in Upstreams
      BY DEF DohInv, Types
    <3>3. \A r \in Queries : pc'[r] \in {"locked", "reading"} => req'[up[r]] = r
      BY <1>1, <3>1, <3>2 DEF DohInv, Locks, Constants
    <3> QED
      BY <1>1, <3>1, <3>3 DEF DohInv, Locks
  <2> QED
    BY <2>1, <2>2, <2>3
<1>4. Held'
  <2>1. pc'[q] = "setup" => tls[up[q]] = None
    BY <1>2 DEF Ready, TakeSetupLock, TakeRequestLock, DohInv, Types
  <2> QED
    BY <1>1, <2>1 DEF DohInv, Held
<1>5. Reads'
  BY <1>1 DEF DohInv, Reads
<1>6. Clean'
  BY <1>1 DEF DohInv, Clean
<1>7. Left'
  BY <1>1 DEF DohInv, Left
<1>8. Unread' /\ OwnAnswers'
  BY <1>1 DEF DohInv, Unread, OwnAnswers
<1> QED
  BY <1>2, <1>3, <1>4, <1>5, <1>6, <1>7, <1>8 DEF DohInv

(* A new connection has nothing on it and no reader.                         *)
LEMMA SetupStep ==
    ASSUME Constants, DohInv, NEW q \in Queries, SetupOk(q)
    PROVE  DohInv'
<1>1. PICK c \in Conns : /\ cstate[c] = "fresh"
                         /\ tls' = [tls EXCEPT ![up[q]] = c]
                         /\ cstate' = [cstate EXCEPT ![c] = "open"]
  BY DEF SetupOk
<1>2. /\ pc[q] = "setup" /\ pc'[q] = "queued" /\ up[q] \in Upstreams
      /\ \A r \in Queries \ {q} : pc'[r] = pc[r]
      /\ up' = up /\ on' = on /\ got' = got /\ current' = current
      /\ stream' = stream /\ busy' = busy /\ req' = req /\ setup' = Release(setup, q)
  BY DEF SetupOk, DohInv, Types
<1>3. /\ tls'[up[q]] = c /\ \A v \in Upstreams \ {up[q]} : tls'[v] = tls[v]
      /\ cstate'[c] = "open" /\ \A d \in Conns \ {c} : cstate'[d] = cstate[d]
      /\ c # None /\ tls[up[q]] = None
  BY <1>1, <1>2 DEF DohInv, Types, Constants, Held
<1>4. \A v \in Upstreams : tls[v] # c
  BY <1>1, <1>3 DEF DohInv, Held
<1>5. setup \in [Upstreams -> Queries \cup {None}]
  BY DEF DohInv, Types
<1>6. /\ setup' \in [Upstreams -> Queries \cup {None}]
      /\ \A u \in Upstreams : setup'[u] # q
      /\ \A u \in Upstreams, r \in Queries : setup'[u] = r => setup[u] = r
      /\ \A u \in Upstreams, r \in Queries : r # q /\ setup[u] = r => setup'[u] = r
  BY <1>2, <1>5, Released
<1>7. Types'
  <2>1. pc' \in [Queries -> Stages]
    BY DEF SetupOk, DohInv, Types, Stages
  <2> QED
    BY <1>1, <1>2, <1>6, <2>1 DEF DohInv, Types
<1>8. Locks'
  <2>1. \A r \in Queries : up[r] \in Upstreams
    BY DEF DohInv, Types
  <2>2. \A r \in Queries : pc'[r] = "setup" => setup'[up'[r]] = r
    BY <1>2, <1>6, <2>1 DEF DohInv, Locks
  <2>3. \A u \in Upstreams, r \in Queries : setup'[u] = r => up'[r] = u /\ pc'[r] = "setup"
    BY <1>2, <1>6 DEF DohInv, Locks
  <2>4. req' = req /\ up' = up /\ \A r \in Queries :
          pc'[r] \in {"locked", "reading"} <=> pc[r] \in {"locked", "reading"}
    BY <1>2
  <2> QED
    BY <2>2, <2>3, <2>4 DEF DohInv, Locks
<1>9. Held'
  <2>1. \A v \in Upstreams : tls'[v] # None => cstate'[tls'[v]] = "open"
    <3> SUFFICES ASSUME NEW v \in Upstreams, v # up[q], tls'[v] # None
                 PROVE  cstate'[tls'[v]] = "open"
      BY <1>3
    <3>1. tls'[v] = tls[v] /\ tls[v] \in Conns \ {c} /\ cstate[tls[v]] = "open"
      BY <1>3, <1>4 DEF DohInv, Types, Held
    <3> QED
      BY <1>3, <3>1
  <2>2. \A d \in Conns : cstate'[d] = "open" => \E v \in Upstreams : tls'[v] = d
    <3> SUFFICES ASSUME NEW d \in Conns \ {c}, cstate[d] = "open"
                 PROVE  \E v \in Upstreams : tls'[v] = d
      BY <1>2, <1>3
    <3>1. PICK v \in Upstreams : tls[v] = d
      BY DEF DohInv, Held
    <3>2. v # up[q]
      BY <1>3, <3>1 DEF Constants
    <3> QED
      BY <1>3, <3>1, <3>2
  <2>3. \A v, w \in Upstreams : tls'[v] # None /\ tls'[v] = tls'[w] => v = w
    BY <1>3, <1>4 DEF DohInv, Held
  <2>4. ASSUME NEW r \in Queries, pc'[r] = "setup" PROVE tls'[up'[r]] = None
    <3>1. r # q /\ pc[r] = "setup" /\ up[r] \in Upstreams /\ up'[r] = up[r]
      BY <1>2, <2>4 DEF DohInv, Types
    <3>2. up[r] # up[q]
      BY <1>2, <3>1 DEF DohInv, Locks
    <3> QED
      BY <1>3, <3>1, <3>2 DEF DohInv, Held
  <2> QED
    BY <2>1, <2>2, <2>3, <2>4 DEF Held
<1>10. ASSUME NEW r \in Queries, pc'[r] = "reading"
       PROVE  /\ pc[r] = "reading" /\ on[r] \in Conns /\ on[r] # c
              /\ cstate'[on[r]] = "closed" \/ tls'[up[r]] = on[r]
  <2>1. pc[r] = "reading" /\ up[r] \in Upstreams
    BY <1>2, <1>10 DEF DohInv, Types
  <2>2. on[r] \in Conns /\ (cstate[on[r]] = "closed" \/ tls[up[r]] = on[r])
    BY <2>1 DEF DohInv, Reads
  <2>3. on[r] # c
    BY <1>1, <1>4, <2>1, <2>2
  <2>4. tls[up[r]] = on[r] => up[r] # up[q]
    BY <1>3, <2>2 DEF Constants
  <2> QED
    BY <1>3, <2>1, <2>2, <2>3, <2>4
<1>11. Reads'
  BY <1>2, <1>10 DEF DohInv, Reads
<1>12. Clean'
  <2>1. \A d \in Conns : cstate'[d] = "fresh" => stream'[d] = <<>>
    BY <1>2, <1>3 DEF DohInv, Clean
  <2>2. stream'[c] = <<>>
    BY <1>1, <1>2 DEF DohInv, Clean
  <2> QED
    BY <1>2, <1>3, <2>1, <2>2 DEF DohInv, Clean
<1>13. Left'
  <2>1. \A u \in Upstreams : u < current /\ u \notin busy => u # up[q]
    BY <1>2 DEF DohInv, Left
  <2> QED
    BY <1>2, <1>3, <2>1 DEF DohInv, Left
<1>14. Unread' /\ OwnAnswers'
  BY <1>2 DEF DohInv, Unread, OwnAnswers
<1> QED
  BY <1>7, <1>8, <1>9, <1>11, <1>12, <1>13, <1>14 DEF DohInv

(* The request goes out on an empty connection.                              *)
LEMMA SendStep ==
    ASSUME Constants, DohInv, NEW q \in Queries, Send(q)
    PROVE  DohInv'
<1> DEFINE c == tls[up[q]]
<1>1. /\ pc[q] = "locked" /\ pc'[q] = "reading" /\ on'[q] = c
      /\ \A r \in Queries \ {q} : pc'[r] = pc[r] /\ on'[r] = on[r]
      /\ up' = up /\ got' = got /\ current' = current /\ tls' = tls /\ setup' = setup
      /\ req' = req /\ cstate' = cstate /\ busy' = busy
  BY DEF Send, DohInv, Types
<1>2. up[q] \in Upstreams /\ c \in Conns /\ c # None /\ cstate[c] = "open"
  BY DEF Send, DohInv, Types, Held
<1>3. \A r \in Queries : pc[r] = "reading" => on[r] # c
  BY <1>1, OneReader
<1>4. stream[c] = <<>>
  BY <1>2, <1>3 DEF DohInv, Clean
<1>5. stream'[c] = <<q, q>> /\ \A d \in Conns \ {c} : stream'[d] = stream[d]
  <2>1. stream' = [stream EXCEPT ![c] = @ \o <<q, q>>]
    BY DEF Send
  <2>2. stream'[c] = <<>> \o <<q, q>> /\ \A d \in Conns \ {c} : stream'[d] = stream[d]
    BY <1>2, <1>4, <2>1 DEF DohInv, Types
  <2> QED
    BY <2>2, Pieces
<1> HIDE DEF c
<1>6. Types'
  <2>1. stream' \in [Conns -> Seq(Queries)]
    <3>1. <<q, q>> \in Seq(Queries) /\ <<>> \o <<q, q>> \in Seq(Queries)
      BY Pieces
    <3>2. stream' = [stream EXCEPT ![c] = <<>> \o <<q, q>>]
      BY <1>4 DEF Send, c
    <3> QED
      BY <3>1, <3>2 DEF DohInv, Types
  <2>2. pc' \in [Queries -> Stages] /\ on' \in [Queries -> Conns \cup {None}]
    BY <1>2 DEF Send, DohInv, Types, Stages, c
  <2> QED
    BY <1>1, <2>1, <2>2 DEF DohInv, Types
<1>7. Locks'
  BY <1>1 DEF DohInv, Locks
<1>8. Held'
  BY <1>1 DEF DohInv, Held
<1>9. Reads'
  <2>1. got[q] = <<>> /\ tls[up[q]] = c
    BY <1>1 DEF DohInv, Unread, c
  <2>2. ASSUME NEW r \in Queries \ {q}, pc[r] = "reading"
        PROVE  on[r] # c /\ on[r] \in Conns
    BY <1>3, <2>2 DEF DohInv, Reads
  <2>3. ASSUME NEW r \in Queries, pc'[r] = "reading"
        PROVE  /\ on'[r] \in Conns
               /\ cstate'[on'[r]] = "closed" \/ tls'[up'[r]] = on'[r]
               /\ \/ got'[r] = <<>> /\ stream'[on'[r]] = <<r, r>>
                  \/ got'[r] = <<r>> /\ stream'[on'[r]] \in {<<r>>, <<>>}
    <3>1. CASE r = q
      BY <1>1, <1>2, <1>5, <2>1, <3>1
    <3>2. CASE r # q
      <4>1. pc[r] = "reading" /\ on'[r] = on[r] /\ on[r] # c /\ on[r] \in Conns
            /\ stream'[on[r]] = stream[on[r]]
        BY <1>1, <1>5, <2>2, <2>3, <3>2
      <4> QED
        BY <1>1, <4>1 DEF DohInv, Reads
    <3> QED
      BY <3>1, <3>2
  <2>4. \A r, p \in Queries : pc'[r] = "reading" /\ pc'[p] = "reading" /\ on'[r] = on'[p] => r = p
    BY <1>1, <2>2 DEF DohInv, Reads
  <2> QED
    BY <2>3, <2>4 DEF Reads
<1>10. Clean'
  <2>1. \A d \in Conns : cstate'[d] = "fresh" => stream'[d] = <<>>
    BY <1>1, <1>2, <1>5 DEF DohInv, Clean
  <2>2. ASSUME NEW u \in Upstreams, tls[u] # None
        PROVE  \/ stream'[tls[u]] = <<>>
               \/ \E r \in Queries : pc'[r] = "reading" /\ on'[r] = tls[u]
    <3>1. CASE tls[u] = c
      BY <1>1, <3>1
    <3>2. CASE tls[u] # c
      <4>1. tls[u] \in Conns /\ stream'[tls[u]] = stream[tls[u]]
        BY <1>5, <2>2, <3>2 DEF DohInv, Types
      <4>2. \/ stream[tls[u]] = <<>>
            \/ \E r \in Queries : pc[r] = "reading" /\ on[r] = tls[u]
        BY <2>2 DEF DohInv, Clean
      <4>3. \A r \in Queries : pc[r] = "reading" => pc'[r] = "reading" /\ on'[r] = on[r]
        BY <1>1
      <4> QED
        BY <4>1, <4>2, <4>3
    <3> QED
      BY <3>1, <3>2
  <2> QED
    BY <1>1, <2>1, <2>2 DEF Clean
<1>11. Left'
  BY <1>1 DEF DohInv, Left
<1>12. Unread' /\ OwnAnswers'
  BY <1>1 DEF DohInv, Unread, OwnAnswers
<1> QED
  BY <1>6, <1>7, <1>8, <1>9, <1>10, <1>11, <1>12 DEF DohInv

(* The header is read; if the connection was replaced since, the body is     *)
(* looked for on a new one, where there is nothing.                          *)
LEMMA HeaderStep ==
    ASSUME Constants, DohInv, NEW q \in Queries, ReadHeader(q)
    PROVE  DohInv'
<1> DEFINE c == on[q]
           t == tls[up[q]]
<1>1. /\ pc[q] = "reading" /\ pc' = pc
      /\ up' = up /\ current' = current /\ tls' = tls /\ setup' = setup
      /\ req' = req /\ cstate' = cstate /\ busy' = busy
  BY DEF ReadHeader
<1>2. /\ up[q] \in Upstreams /\ c \in Conns /\ t \in Conns /\ t # None
      /\ cstate[t] = "open" /\ cstate[c] # "fresh"
  <2>1. up[q] \in Upstreams /\ c \in Conns /\ t \in Conns /\ t # None
    BY <1>1 DEF ReadHeader, DohInv, Types, Reads
  <2>2. cstate[t] = "open"
    BY <2>1 DEF DohInv, Held
  <2>3. cstate[c] = "closed" \/ t = c
    BY <1>1 DEF DohInv, Reads
  <2> QED
    BY <2>1, <2>2, <2>3
<1>3. got[q] = <<>> /\ stream[c] = <<q, q>>
  <2>1. got[q] = <<q>> => Len(got[q]) = 1
    BY Pieces
  <2> QED
    BY <1>1, <2>1 DEF ReadHeader, DohInv, Reads
<1>4. /\ got'[q] = <<q>> /\ on'[q] = t
      /\ \A r \in Queries \ {q} : got'[r] = got[r] /\ on'[r] = on[r]
  <2>1. got' = [got EXCEPT ![q] = Append(<<>>, q)]
    BY <1>3, Pieces DEF ReadHeader
  <2> QED
    BY <2>1, Pieces DEF ReadHeader, DohInv, Types
<1>5. stream'[c] = <<q>> /\ \A d \in Conns \ {c} : stream'[d] = stream[d]
  <2>1. stream' = [stream EXCEPT ![c] = Tail(<<q, q>>)]
    BY <1>3 DEF ReadHeader
  <2> QED
    BY <1>2, <2>1, Pieces DEF DohInv, Types
<1>6. \A r \in Queries : pc[r] = "reading" /\ (on[r] = t \/ on[r] = c) => r = q
  <2>1. \A r \in Queries : pc[r] = "reading" /\ on[r] = t => r = q
    BY <1>1, OneReader
  <2>2. \A r \in Queries : pc[r] = "reading" /\ on[r] = c => r = q
    BY <1>1 DEF DohInv, Reads
  <2> QED
    BY <2>1, <2>2
<1>7. stream'[t] \in {<<q>>, <<>>}
  <2>1. ASSUME t # c PROVE stream[t] = <<>>
    <3>1. \A r \in Queries : pc[r] = "reading" => on[r] # t
      BY <1>6, <2>1
    <3> QED
      BY <1>2, <3>1 DEF DohInv, Clean
  <2> QED
    BY <1>2, <1>5, <2>1
<1>8. Types'
  <2>1. stream' \in [Conns -> Seq(Queries)]
    <3>1. stream' = [stream EXCEPT ![c] = Tail(<<q, q>>)]
      BY <1>3 DEF ReadHeader
    <3>2. Tail(<<q, q>>) \in Seq(Queries)
      BY Pieces
    <3> QED
      BY <3>1, <3>2 DEF DohInv, Types
  <2>2. got' \in [Queries -> Seq(Queries)]
    <3>1. got' = [got EXCEPT ![q] = Append(<<>>, q)]
      BY <1>3, Pieces DEF ReadHeader
    <3>2. Append(<<>>, q) \in Seq(Queries)
      BY Pieces
    <3> QED
      BY <3>1, <3>2 DEF DohInv, Types
  <2>3. on' \in [Queries -> Conns \cup {None}]
    BY <1>2 DEF ReadHeader, DohInv, Types
  <2> QED
    BY <1>1, <2>1, <2>2, <2>3 DEF DohInv, Types
<1> HIDE DEF c, t
<1>9. Locks' /\ Held' /\ Left'
  BY <1>1 DEF DohInv, Locks, Held, Left
<1>10. Reads'
  <2>1. ASSUME NEW r \in Queries, pc[r] = "reading"
        PROVE  /\ on'[r] \in Conns
               /\ cstate[on'[r]] = "closed" \/ tls[up[r]] = on'[r]
               /\ \/ got'[r] = <<>> /\ stream'[on'[r]] = <<r, r>>
                  \/ got'[r] = <<r>> /\ stream'[on'[r]] \in {<<r>>, <<>>}
    <3>1. CASE r = q
      BY <1>2, <1>4, <1>7, <3>1 DEF t
    <3>2. CASE r # q
      <4>1. on'[r] = on[r] /\ got'[r] = got[r] /\ on[r] \in Conns \ {c}
        BY <1>4, <1>6, <2>1, <3>2 DEF DohInv, Reads
      <4> QED
        BY <1>5, <2>1, <4>1 DEF DohInv, Reads
    <3> QED
      BY <3>1, <3>2
  <2>2. \A r, p \in Queries : pc[r] = "reading" /\ pc[p] = "reading" /\ on'[r] = on'[p] => r = p
    BY <1>4, <1>6 DEF DohInv, Reads
  <2> QED
    BY <1>1, <2>1, <2>2 DEF Reads
<1>11. Clean'
  <2>1. \A d \in Conns : cstate'[d] = "fresh" => stream'[d] = <<>>
    BY <1>1, <1>2, <1>5 DEF DohInv, Clean
  <2>2. ASSUME NEW u \in Upstreams, tls[u] # None
        PROVE  \/ stream'[tls[u]] = <<>>
               \/ \E r \in Queries : pc[r] = "reading" /\ on'[r] = tls[u]
    <3>1. CASE tls[u] = c
      <4>1. tls[u] = t
        <5>1. cstate[c] = "open"
          BY <2>2, <3>1 DEF DohInv, Held
        <5> QED
          BY <1>1, <3>1, <5>1 DEF DohInv, Reads, c, t
      <4> QED
        BY <1>1, <1>4, <4>1
    <3>2. CASE tls[u] # c
      <4>1. tls[u] \in Conns /\ stream'[tls[u]] = stream[tls[u]]
        BY <1>5, <2>2, <3>2 DEF DohInv, Types
      <4>2. \/ stream[tls[u]] = <<>>
            \/ \E r \in Queries : pc[r] = "reading" /\ on[r] = tls[u]
        BY <2>2 DEF DohInv, Clean
      <4>3. \A r \in Queries : pc[r] = "reading" /\ on[r] = tls[u] => on'[r] = on[r]
        BY <1>4, <3>2 DEF c
      <4> QED
        BY <4>1, <4>2, <4>3
    <3> QED
      BY <3>1, <3>2
  <2> QED
    BY <1>1, <2>1, <2>2 DEF Clean
<1>12. Unread' /\ OwnAnswers'
  BY <1>1, <1>4 DEF DohInv, Unread, OwnAnswers
<1> QED
  BY <1>8, <1>9, <1>10, <1>11, <1>12 DEF DohInv

(* The body is read, and is the query's own; nothing is left behind.         *)
LEMMA BodyStep ==
    ASSUME Constants, DohInv, NEW q \in Queries, ReadBody(q)
    PROVE  DohInv'
<1> DEFINE c == on[q]
<1>1. /\ pc[q] = "reading" /\ pc'[q] = "done" /\ on'[q] = None
      /\ \A r \in Queries \ {q} : pc'[r] = pc[r] /\ on'[r] = on[r]
      /\ up' = up /\ current' = current /\ tls' = tls /\ setup' = setup
      /\ req' = Release(req, q) /\ cstate' = cstate /\ busy' = busy
  BY DEF ReadBody, DohInv, Types
<1>2. up[q] \in Upstreams /\ c \in Conns
  BY <1>1 DEF DohInv, Types, Reads
<1>3. got[q] = <<q>> /\ stream[c] = <<q>>
  <2>1. got[q] # <<>>
    BY Pieces DEF ReadBody
  <2> QED
    BY <1>1, <2>1 DEF ReadBody, DohInv, Reads
<1>4. /\ got' = [got EXCEPT ![q] = Append(<<q>>, q)]
      /\ stream' = [stream EXCEPT ![c] = Tail(<<q>>)]
  BY <1>3, Pieces DEF ReadBody
<1>5. /\ got'[q] = <<q, q>> /\ \A r \in Queries \ {q} : got'[r] = got[r]
      /\ stream'[c] = <<>> /\ \A d \in Conns \ {c} : stream'[d] = stream[d]
  BY <1>2, <1>4, Pieces DEF DohInv, Types
<1>6. req \in [Upstreams -> Queries \cup {None}]
  BY DEF DohInv, Types
<1>7. /\ req' \in [Upstreams -> Queries \cup {None}]
      /\ \A u \in Upstreams : req'[u] # q
      /\ \A u \in Upstreams, r \in Queries : req'[u] = r => req[u] = r
      /\ \A u \in Upstreams, r \in Queries : r # q /\ req[u] = r => req'[u] = r
  BY <1>1, <1>6, Released
<1>8. \A r \in Queries : pc[r] = "reading" /\ on[r] = c => r = q
  BY <1>1 DEF DohInv, Reads
<1>9. Types'
  <2>1. Append(<<q>>, q) \in Seq(Queries) /\ Tail(<<q>>) \in Seq(Queries)
    BY Pieces
  <2>2. got' \in [Queries -> Seq(Queries)] /\ stream' \in [Conns -> Seq(Queries)]
    BY <1>4, <2>1 DEF DohInv, Types
  <2>3. pc' \in [Queries -> Stages] /\ on' \in [Queries -> Conns \cup {None}]
    BY DEF ReadBody, DohInv, Types, Stages
  <2> QED
    BY <1>1, <1>7, <2>2, <2>3 DEF DohInv, Types
<1> HIDE DEF c
<1>10. Locks'
  <2>1. \A r \in Queries : up[r] \in Upstreams
    BY DEF DohInv, Types
  <2>2. \A r \in Queries : pc'[r] \in {"locked", "reading"} => req'[up'[r]] = r
    BY <1>1, <1>7, <2>1 DEF DohInv, Locks
  <2>3. \A u \in Upstreams, r \in Queries :
          req'[u] = r => up'[r] = u /\ pc'[r] \in {"locked", "reading"}
    BY <1>1, <1>7 DEF DohInv, Locks
  <2>4. setup' = setup /\ up' = up /\ \A r \in Queries : pc'[r] = "setup" <=> pc[r] = "setup"
    BY <1>1
  <2> QED
    BY <2>2, <2>3, <2>4 DEF DohInv, Locks
<1>11. Held' /\ Left'
  BY <1>1 DEF DohInv, Held, Left
<1>12. Reads'
  <2>1. ASSUME NEW r \in Queries, pc'[r] = "reading"
        PROVE  /\ on'[r] \in Conns
               /\ cstate[on'[r]] = "closed" \/ tls[up[r]] = on'[r]
               /\ \/ got'[r] = <<>> /\ stream'[on'[r]] = <<r, r>>
                  \/ got'[r] = <<r>> /\ stream'[on'[r]] \in {<<r>>, <<>>}
    <3>1. r # q /\ pc[r] = "reading"
      BY <1>1, <2>1
    <3>2. on'[r] = on[r] /\ got'[r] = got[r] /\ on[r] \in Conns \ {c}
      BY <1>1, <1>5, <1>8, <3>1 DEF DohInv, Reads
    <3> QED
      BY <1>5, <3>1, <3>2 DEF DohInv, Reads
  <2>2. \A r, p \in Queries : pc'[r] = "reading" /\ pc'[p] = "reading" /\ on'[r] = on'[p] => r = p
    BY <1>1 DEF DohInv, Reads
  <2> QED
    BY <1>1, <2>1, <2>2 DEF Reads
<1>13. Clean'
  <2>1. \A d \in Conns : cstate'[d] = "fresh" => stream'[d] = <<>>
    BY <1>1, <1>5 DEF DohInv, Clean
  <2>2. ASSUME NEW u \in Upstreams, tls[u] # None, tls[u] # c
        PROVE  \/ stream'[tls[u]] = <<>>
               \/ \E r \in Queries : pc'[r] = "reading" /\ on'[r] = tls[u]
    <3>1. tls[u] \in Conns /\ stream'[tls[u]] = stream[tls[u]]
      BY <1>5, <2>2 DEF DohInv, Types
    <3>2. \/ stream[tls[u]] = <<>>
          \/ \E r \in Queries : pc[r] = "reading" /\ on[r] = tls[u]
      BY <2>2 DEF DohInv, Clean
    <3>3. \A r \in Queries : pc[r] = "reading" /\ on[r] = tls[u] => r # q
      BY <2>2 DEF c
    <3> QED
      BY <1>1, <3>1, <3>2, <3>3
  <2> QED
    BY <1>1, <1>5, <2>1, <2>2 DEF Clean
<1>14. Unread' /\ OwnAnswers'
  BY <1>1, <1>5 DEF DohInv, Unread, OwnAnswers
<1> QED
  BY <1>9, <1>10, <1>11, <1>12, <1>13, <1>14 DEF DohInv

(* The upstream is closed and forgotten; who is inside keeps it.             *)
LEMMA ReloadStep ==
    ASSUME Constants, DohInv, Reload
    PROVE  DohInv'
<1>1. /\ current \in Upstreams /\ Drop(current) /\ current' = current + 1
      /\ current < MaxReloads
      /\ busy' = busy \cup {u \in {current} : Inside(u) # {}}
      /\ pc' = pc /\ up' = up /\ on' = on /\ got' = got /\ setup' = setup /\ req' = req
      /\ stream' = stream
  BY DEF Reload, DohInv, Types
<1>2. /\ tls' \in [Upstreams -> Conns \cup {None}]
      /\ cstate' \in [Conns -> {"fresh", "open", "closed"}]
      /\ tls'[current] = None /\ \A v \in Upstreams \ {current} : tls'[v] = tls[v]
      /\ \A c \in Conns : cstate[c] = "closed" => cstate'[c] = "closed"
      /\ \A c \in Conns : tls[current] = c => cstate'[c] = "closed"
      /\ \A c \in Conns : cstate'[c] = "fresh" => cstate[c] = "fresh"
      /\ \A v \in Upstreams : tls'[v] # None => cstate'[tls'[v]] = "open"
      /\ \A c \in Conns : cstate'[c] = "open" => \E v \in Upstreams : tls'[v] = c
      /\ \A v, w \in Upstreams : tls'[v] # None /\ tls'[v] = tls'[w] => v = w
  BY <1>1, Dropped DEF DohInv
<1>3. current \in Nat /\ current + 1 \in Upstreams /\ Upstreams \subseteq Nat
  BY <1>1 DEF Upstreams, Constants
<1>4. Types'
  <2>1. busy' \subseteq Upstreams
    BY <1>1 DEF DohInv, Types
  <2> QED
    BY <1>1, <1>2, <1>3, <2>1 DEF DohInv, Types
<1>5. Locks'
  BY <1>1 DEF DohInv, Locks
<1>6. Held'
  <2>1. ASSUME NEW r \in Queries, pc[r] = "setup" PROVE tls'[up[r]] = None
    <3>1. up[r] \in Upstreams /\ tls[up[r]] = None
      BY <2>1 DEF DohInv, Types, Held
    <3> QED
      BY <1>2, <3>1
  <2> QED
    BY <1>1, <1>2, <2>1 DEF Held
<1>7. Reads'
  <2>1. ASSUME NEW r \in Queries, pc[r] = "reading"
        PROVE  cstate'[on[r]] = "closed" \/ tls'[up[r]] = on[r]
    <3>1. /\ up[r] \in Upstreams /\ on[r] \in Conns
          /\ cstate[on[r]] = "closed" \/ tls[up[r]] = on[r]
      BY <2>1 DEF DohInv, Types, Reads
    <3> QED
      BY <1>2, <3>1
  <2> QED
    BY <1>1, <2>1 DEF DohInv, Reads
<1>8. Clean'
  <2>1. ASSUME NEW u \in Upstreams, tls'[u] # None
        PROVE  \/ stream[tls'[u]] = <<>>
               \/ \E r \in Queries : pc[r] = "reading" /\ on[r] = tls'[u]
    <3>1. tls'[u] = tls[u]
      BY <1>2, <2>1
    <3> QED
      BY <2>1, <3>1 DEF DohInv, Clean
  <2>2. \A c \in Conns : cstate'[c] = "fresh" => stream[c] = <<>>
    BY <1>2 DEF DohInv, Clean
  <2> QED
    BY <1>1, <2>1, <2>2 DEF Clean
<1>9. Left'
  <2>1. ASSUME NEW u \in Upstreams, u < current + 1, u \notin busy'
        PROVE  /\ tls'[u] = None
               /\ \A r \in Queries : up[r] = u => pc[r] \in {"idle", "done", "failed"}
    <3>1. CASE u = current
      <4>1. Inside(current) = {}
        BY <1>1, <2>1, <3>1
      <4> QED
        BY <1>2, <3>1, <4>1 DEF Inside
    <3>2. CASE u # current
      <4>1. u < current /\ u \notin busy
        BY <1>1, <1>3, <2>1, <3>2
      <4> QED
        BY <1>2, <3>2, <4>1 DEF DohInv, Left
    <3> QED
      BY <3>1, <3>2
  <2>2. \A r \in Queries : up[r] <= current + 1
    <3> SUFFICES ASSUME NEW r \in Queries
                 PROVE  up[r] <= current + 1
      OBVIOUS
    <3>1. up[r] \in Upstreams
      BY DEF DohInv, Types
    <3>2. up[r] <= current
      BY DEF DohInv, Left
    <3>3. up[r] \in Nat /\ current \in Nat
      BY <1>3, <3>1
    <3> QED
      BY <3>2, <3>3
  <2> QED
    BY <1>1, <2>1, <2>2 DEF Left
<1>10. Unread' /\ OwnAnswers'
  BY <1>1 DEF DohInv, Unread, OwnAnswers
<1> QED
  BY <1>4, <1>5, <1>6, <1>7, <1>8, <1>9, <1>10 DEF DohInv

(* No answer is another query's or a mix of two, and no connection is open    *)
(* that its upstream does not hold, however many queries, connections and     *)
(* reloads there are (upstream.py:350-436, dns_forwarder.py:227-241).        *)
THEOREM DohIsSound ==
    ASSUME Constants
    PROVE  Spec => []DohSound
<1>1. Init => DohInv
  BY DohInit
<1>2. ASSUME DohInv, [Next]_dohVars PROVE DohInv'
  <2>1. ASSUME NEW q \in Queries, QueryStep(q) PROVE DohInv'
    <3>1. CASE SetupFail(q) \/ NoConnection(q) \/ RequestFails(q)
      BY <1>2, <3>1, FailStep DEF SetupFail, NoConnection, RequestFails
    <3>2. CASE Ask(q) \/ Ready(q) \/ TakeSetupLock(q) \/ TakeRequestLock(q)
      BY <1>2, <3>2, AskStep, LockStep
    <3>3. CASE SetupOk(q) \/ Send(q) \/ ReadHeader(q) \/ ReadBody(q)
      BY <1>2, <3>3, SetupStep, SendStep, HeaderStep, BodyStep
    <3> QED
      BY <2>1, <3>1, <3>2, <3>3 DEF QueryStep
  <2>2. CASE Reload
    BY <1>2, <2>2, ReloadStep
  <2>3. CASE UNCHANGED dohVars
    BY <1>2, <2>3 DEF dohVars, DohInv, Types, Locks, Held, Reads, Clean, Left, Unread, OwnAnswers
  <2> QED
    BY <1>2, <2>1, <2>2, <2>3 DEF Next
<1>3. DohInv => DohSound
  BY DEF DohInv, DohSound, Held, Left, TunnelsHeld
<1> QED
  BY <1>1, <1>2, <1>3, PTL DEF Spec
=============================================================================
