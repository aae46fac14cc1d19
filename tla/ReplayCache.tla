---------------------------- MODULE ReplayCache ----------------------------
(***************************************************************************)
(* Admission of ClientHello tokens by the mirage server:                   *)
(* hello_auth.verify_session_token and TokenReplayCache.check_and_mark,    *)
(* called in a row, without an await between them, by                      *)
(* camouflage.server_read_hello_and_decide.                                *)
(*                                                                         *)
(* A token is its random prefix (the nonce) and the time its client wrote  *)
(* into it; every token here was minted by make_session_token, so its      *)
(* Poly1305 tag is right and no two tokens share a nonce.  The corrected   *)
(* clock of the server (TimeSync) is taken to be monotone.                 *)
(***************************************************************************)
EXTENDS Integers, FiniteSets

CONSTANTS Tokens,       \* the tokens clients mint in a behaviour
          Tolerance,    \* TIMESTAMP_TOLERANCE, also the width of a bucket
          MaxSize,      \* max_size of the cache
          MaxTime       \* bound: the clock and the clients' timestamps

ASSUME ReplayAssumption ==
    /\ IsFiniteSet(Tokens)
    /\ Tolerance \in Nat \ {0}
    /\ MaxSize \in Nat
    /\ MaxTime \in Nat

VARIABLES now,          \* _now()
          ts,           \* the timestamp inside each token
          buckets,      \* self._buckets, as pairs <<bucket, nonce>>
          totalCount,   \* self._total_count
          accepted,     \* tokens for which the decision was "proxy" ...
          again,        \* ... and those for which it was so more than once
          skipped       \* tokens accepted while the cache was full

vars == <<now, ts, buckets, totalCount, accepted, again, skipped>>

\* Mutant: the current and the previous bucket only
BucketsKept_Two == 2

BucketsKept == 3        \* _BUCKETS_KEPT

Bucket == now \div Tolerance

\* Mutant: an off-by-one in the range that is kept
KeepFrom_OneLater == Bucket - (BucketsKept - 2)

KeepFrom == Bucket - (BucketsKept - 1)

\* what _evict_stale leaves
Kept == {e \in buckets : e[1] >= KeepFrom}

\* verify_session_token: the clock check; a token out of tolerance is
\* refused before the cache is asked, which changes nothing here
InTolerance(t) == now - ts[t] <= Tolerance /\ ts[t] - now <= Tolerance

\* the nonce is in one of the buckets looked at
Seen(t) == \E b \in KeepFrom .. Bucket : <<b, t>> \in Kept

Init ==
    /\ now \in 0 .. MaxTime
    /\ ts \in [Tokens -> 0 .. MaxTime]
    /\ buckets = {}
    /\ totalCount = 0
    /\ accepted = {} /\ again = {} /\ skipped = {}

\* Mutant: the counter forgets about the eviction
EvictStale_NoCount == totalCount

\* _total_count after _evict_stale
EvictStale == totalCount - Cardinality(buckets \ Kept)

\* check_and_mark returns False
RejectReplay(t) ==
    /\ InTolerance(t)
    /\ Seen(t)
    /\ buckets' = Kept
    /\ totalCount' = EvictStale
    /\ UNCHANGED <<now, ts, accepted, again, skipped>>

\* check_and_mark returns True; a full cache does not remember the nonce
Accept(t) ==
    /\ InTolerance(t)
    /\ ~Seen(t)
    /\ IF EvictStale < MaxSize
       THEN /\ buckets' = Kept \cup {<<Bucket, t>>}
            /\ totalCount' = EvictStale + 1
            /\ UNCHANGED skipped
       ELSE /\ buckets' = Kept
            /\ totalCount' = EvictStale
            /\ skipped' = skipped \cup {t}
    /\ accepted' = accepted \cup {t}
    /\ again' = IF t \in accepted THEN again \cup {t} ELSE again
    /\ UNCHANGED <<now, ts>>

Tick ==
    /\ \E n \in (now + 1) .. MaxTime : now' = n
    /\ UNCHANGED <<ts, buckets, totalCount, accepted, again, skipped>>

Next ==
    \/ \E t \in Tokens : RejectReplay(t) \/ Accept(t)
    \/ Tick

Spec == Init /\ [][Next]_vars

-----------------------------------------------------------------------------
\* The counter never goes below zero and every entry is a token in a bucket.
TypeOK ==
    /\ now \in Nat
    /\ ts \in [Tokens -> Nat]
    /\ buckets \subseteq Nat \X Tokens
    /\ IsFiniteSet(buckets)
    /\ totalCount \in Nat
    /\ accepted \subseteq Tokens
    /\ again \subseteq accepted
    /\ skipped \subseteq accepted

\* A token is accepted at most once, although it stays within tolerance for
\* two bucket widths and whole buckets are dropped; the exception the class
\* documents is a token that came while the cache was full.
AcceptedOnce == again \subseteq skipped

\* The counter that decides whether the cache is full is the number of
\* remembered nonces, and the cache never outgrows max_size.
CountAccounted ==
    /\ totalCount = Cardinality(buckets)
    /\ totalCount <= MaxSize

\* Only what was accepted is remembered, and what was remembered stays so
\* while its token could still pass the clock check: no token is refused as
\* a replay that was not one.
Remembered ==
    /\ \A e \in buckets : e[2] \in accepted
    /\ \A t \in accepted \ skipped :
        now <= ts[t] + Tolerance => \E e \in buckets : e[2] = t
=============================================================================
