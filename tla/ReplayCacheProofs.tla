-------------------------- MODULE ReplayCacheProofs --------------------------
(***************************************************************************)
(* No token is accepted twice, for every tolerance, cache size and clock   *)
(* that never goes back.                                                   *)
(***************************************************************************)
EXTENDS ReplayCache, FiniteSetTheorems, TLAPS

\* Token t was accepted at time a and its nonce is in the bucket of a.
MarkedAt(t, a) ==
    /\ a <= now
    /\ ts[t] - Tolerance <= a
    /\ <<a \div Tolerance, t>> \in buckets

\* The strengthening: what was accepted and not skipped is either out of
\* tolerance for good, or remembered in the bucket of its acceptance.
MarkInv ==
    \A t \in accepted \ skipped :
        \/ now > ts[t] + Tolerance
        \/ \E a \in Nat : MarkedAt(t, a)

RememberedOnly == \A e \in buckets : e[2] \in accepted

IInv == TypeOK /\ CountAccounted /\ AcceptedOnce /\ MarkInv /\ RememberedOnly

-----------------------------------------------------------------------------
\* The bucket of a time, by its bounds.
LEMMA BucketBounds ==
    \A a \in Nat : /\ a \div Tolerance \in Nat
                   /\ Tolerance * (a \div Tolerance) <= a
                   /\ a < Tolerance * (a \div Tolerance) + Tolerance
BY ReplayAssumption

\* A time is not in an earlier bucket than an earlier time.
LEMMA BucketMonotone ==
    ASSUME NEW a \in Nat, NEW b \in Nat, a <= b
    PROVE  a \div Tolerance <= b \div Tolerance
<1> DEFINE p == a \div Tolerance
           r == b \div Tolerance
<1>1. /\ p \in Nat /\ r \in Nat
      /\ Tolerance * p <= a /\ b < Tolerance * r + Tolerance
  BY BucketBounds
<1>2. Tolerance \in Nat /\ Tolerance > 0
  BY ReplayAssumption
<1> HIDE DEF p, r
<1>3. SUFFICES ASSUME p >= r + 1 PROVE FALSE
  BY <1>1 DEF p, r
<1>4. Tolerance * p >= Tolerance * (r + 1)
  BY <1>1, <1>2, <1>3
<1>5. Tolerance * (r + 1) = Tolerance * r + Tolerance
  BY <1>1, <1>2
<1> QED
  BY <1>1, <1>2, <1>4, <1>5

\* Two tolerances apart is at most two buckets apart: why three are kept.
LEMMA BucketSpan ==
    ASSUME NEW a \in Nat, NEW b \in Nat, b <= a + 2 * Tolerance
    PROVE  b \div Tolerance <= a \div Tolerance + 2
<1> DEFINE p == a \div Tolerance
           r == b \div Tolerance
<1>1. /\ p \in Nat /\ r \in Nat
      /\ a < Tolerance * p + Tolerance /\ Tolerance * r <= b
  BY BucketBounds
<1>2. Tolerance \in Nat /\ Tolerance > 0
  BY ReplayAssumption
<1> HIDE DEF p, r
<1>3. SUFFICES ASSUME r >= p + 3 PROVE FALSE
  BY <1>1 DEF p, r
<1>4. Tolerance * r >= Tolerance * (p + 3)
  BY <1>1, <1>2, <1>3
<1>5. Tolerance * (p + 3) = Tolerance * p + 3 * Tolerance
  BY <1>1, <1>2
<1> QED
  BY <1>1, <1>2, <1>4, <1>5

\* Eviction keeps the mark of every token that can still pass the check.
LEMMA MarkSurvives ==
    ASSUME TypeOK, NEW t \in Tokens, NEW a \in Nat, MarkedAt(t, a),
           now <= ts[t] + Tolerance
    PROVE  /\ <<a \div Tolerance, t>> \in Kept
           /\ a \div Tolerance \in KeepFrom .. Bucket
<1>1. now \in Nat /\ ts[t] \in Nat /\ Tolerance \in Nat
  BY ReplayAssumption DEF TypeOK
<1>2. now <= a + 2 * Tolerance /\ a <= now
  BY <1>1 DEF MarkedAt
<1>3. /\ a \div Tolerance \in Nat /\ now \div Tolerance \in Nat
      /\ now \div Tolerance <= a \div Tolerance + 2
      /\ a \div Tolerance <= now \div Tolerance
  BY <1>1, <1>2, BucketBounds, BucketSpan, BucketMonotone
<1> QED
  BY <1>3 DEF MarkedAt, Kept, KeepFrom, Bucket, BucketsKept

\* What eviction does to the set of nonces and to the counter.
LEMMA Eviction ==
    ASSUME TypeOK, CountAccounted
    PROVE  /\ Kept \subseteq buckets
           /\ IsFiniteSet(Kept)
           /\ EvictStale = Cardinality(Kept)
           /\ EvictStale \in Nat
           /\ EvictStale <= MaxSize
<1>1. /\ Kept \subseteq buckets /\ IsFiniteSet(buckets) /\ IsFiniteSet(Kept)
      /\ Cardinality(Kept) <= Cardinality(buckets)
  BY FS_Subset DEF Kept, TypeOK
<1>2. Cardinality(buckets \ Kept) = Cardinality(buckets) - Cardinality(buckets \cap Kept)
  BY <1>1, FS_Difference
<1>3. buckets \cap Kept = Kept
  BY <1>1
<1>4. /\ Cardinality(Kept) \in Nat /\ Cardinality(buckets) \in Nat
      /\ Cardinality(buckets \ Kept) = Cardinality(buckets) - Cardinality(Kept)
  BY <1>1, <1>2, <1>3, FS_CardinalityType
<1> QED
  BY <1>1, <1>4, ReplayAssumption DEF EvictStale, CountAccounted

LEMMA InitIInv == Init => IInv
<1> SUFFICES ASSUME Init PROVE IInv
  OBVIOUS
<1>1. TypeOK
  BY ReplayAssumption, FS_EmptySet DEF Init, TypeOK
<1>2. CountAccounted
  BY ReplayAssumption, FS_EmptySet DEF Init, CountAccounted
<1> QED
  BY <1>1, <1>2 DEF Init, IInv, AcceptedOnce, MarkInv, RememberedOnly

\* One step: a mark that is kept, at a clock that has not gone back, is
\* still the mark of its token.
LEMMA MarkStep ==
    ASSUME TypeOK, MarkInv, NEW t \in accepted \ skipped, ts' = ts, now' = now,
           Kept \subseteq buckets'
    PROVE  now' > ts'[t] + Tolerance \/ \E a \in Nat : MarkedAt(t, a)'
<1>1. t \in Tokens /\ now \in Nat /\ ts[t] \in Nat /\ Tolerance \in Nat
  BY ReplayAssumption DEF TypeOK
<1>2. CASE now > ts[t] + Tolerance
  BY <1>2
<1>3. CASE ~(now > ts[t] + Tolerance)
  <2>1. PICK a \in Nat : MarkedAt(t, a)
    BY <1>3 DEF MarkInv
  <2>2. now <= ts[t] + Tolerance
    BY <1>1, <1>3
  <2>3. <<a \div Tolerance, t>> \in buckets'
    BY <1>1, <2>1, <2>2, MarkSurvives
  <2> QED
    BY <2>1, <2>3 DEF MarkedAt
<1> QED
  BY <1>2, <1>3

LEMMA NextIInv == IInv /\ [Next]_vars => IInv'
<1> SUFFICES ASSUME IInv, [Next]_vars PROVE IInv'
  OBVIOUS
<1> USE DEF IInv
<1>t. now \in Nat /\ Tolerance \in Nat /\ Bucket \in Nat /\ MaxSize \in Nat
  BY ReplayAssumption, BucketBounds DEF TypeOK, Bucket
<1>1. ASSUME NEW t \in Tokens, RejectReplay(t) PROVE IInv'
  <2>1. /\ buckets' = Kept /\ totalCount' = EvictStale
        /\ now' = now /\ ts' = ts
        /\ accepted' = accepted /\ again' = again /\ skipped' = skipped
    BY <1>1 DEF RejectReplay
  <2>2. TypeOK'
    BY <2>1, Eviction DEF TypeOK
  <2>3. CountAccounted'
    BY <2>1, Eviction DEF CountAccounted
  <2>4. MarkInv'
    BY <2>1, MarkStep DEF MarkInv
  <2>5. AcceptedOnce' /\ RememberedOnly'
    BY <2>1, Eviction DEF AcceptedOnce, RememberedOnly
  <2> QED
    BY <2>2, <2>3, <2>4, <2>5
<1>2. ASSUME NEW t \in Tokens, Accept(t) PROVE IInv'
  <2>1. /\ now' = now /\ ts' = ts /\ accepted' = accepted \cup {t}
        /\ again' = (IF t \in accepted THEN again \cup {t} ELSE again)
        /\ InTolerance(t) /\ ~Seen(t)
    BY <1>2 DEF Accept
  <2>2. ts[t] \in Nat
    BY DEF TypeOK
  \* the heart of the argument: an accepted token that is seen again within
  \* tolerance is found, so it is not accepted a second time
  <2>3. t \notin accepted \ skipped
    <3> SUFFICES ASSUME t \in accepted \ skipped PROVE FALSE
      OBVIOUS
    <3>1. now <= ts[t] + Tolerance
      BY <1>t, <2>1, <2>2 DEF InTolerance
    <3>2. PICK a \in Nat : MarkedAt(t, a)
      BY <1>t, <2>2, <3>1 DEF MarkInv
    <3>3. Seen(t)
      BY <3>1, <3>2, MarkSurvives DEF Seen
    <3> QED
      BY <2>1, <3>3
  <2>4. AcceptedOnce'
    BY <1>2, <2>1, <2>3 DEF AcceptedOnce, Accept
  <2>5. CASE EvictStale < MaxSize
    <3>1. /\ buckets' = Kept \cup {<<Bucket, t>>}
          /\ totalCount' = EvictStale + 1 /\ skipped' = skipped
      BY <1>2, <2>5 DEF Accept
    <3>2. <<Bucket, t>> \notin Kept
      <4>1. Bucket \in KeepFrom .. Bucket
        BY <1>t DEF KeepFrom, BucketsKept
      <4> QED
        BY <2>1, <4>1 DEF Seen
    <3>3. /\ IsFiniteSet(buckets')
          /\ Cardinality(buckets') = Cardinality(Kept) + 1
      BY <3>1, <3>2, Eviction, FS_AddElement
    <3>4. TypeOK'
      BY <1>t, <2>1, <3>1, <3>3, Eviction DEF TypeOK
    <3>5. CountAccounted'
      BY <1>t, <2>5, <3>1, <3>3, Eviction DEF CountAccounted
    <3>6. MarkInv'
      <4> SUFFICES ASSUME NEW u \in accepted' \ skipped'
                   PROVE  now' > ts'[u] + Tolerance \/ \E a \in Nat : MarkedAt(u, a)'
        BY DEF MarkInv
      <4>1. CASE u = t
        <5>1. MarkedAt(t, now)'
          BY <1>t, <2>1, <2>2, <3>1 DEF MarkedAt, InTolerance, Bucket
        <5> QED
          BY <1>t, <2>1, <4>1, <5>1
      <4>2. CASE u # t
        <5>1. u \in accepted \ skipped
          BY <2>1, <3>1, <4>2
        <5> QED
          BY <2>1, <3>1, <5>1, MarkStep
      <4> QED
        BY <4>1, <4>2
    <3>7. RememberedOnly'
      BY <2>1, <3>1, Eviction DEF RememberedOnly
    <3> QED
      BY <2>4, <3>4, <3>5, <3>6, <3>7
  <2>6. CASE ~(EvictStale < MaxSize)
    <3>1. /\ buckets' = Kept /\ totalCount' = EvictStale
          /\ skipped' = skipped \cup {t}
      BY <1>2, <2>6 DEF Accept
    <3>2. TypeOK'
      BY <2>1, <3>1, Eviction DEF TypeOK
    <3>3. CountAccounted'
      BY <3>1, Eviction DEF CountAccounted
    <3>4. MarkInv'
      <4>1. accepted' \ skipped' \subseteq accepted \ skipped
        BY <2>1, <3>1
      <4> QED
        BY <2>1, <3>1, <4>1, MarkStep DEF MarkInv
    <3>5. RememberedOnly'
      BY <2>1, <3>1, Eviction DEF RememberedOnly
    <3> QED
      BY <2>4, <3>2, <3>3, <3>4, <3>5
  <2> QED
    BY <2>5, <2>6
<1>3. CASE Tick
  <2>1. /\ now' \in Nat /\ now' > now
        /\ UNCHANGED <<ts, buckets, totalCount, accepted, again, skipped>>
    BY <1>3, <1>t, ReplayAssumption DEF Tick
  <2>2. MarkInv'
    BY <1>t, <2>1 DEF MarkInv, MarkedAt, TypeOK
  <2> QED
    BY <2>1, <2>2 DEF TypeOK, CountAccounted, AcceptedOnce, RememberedOnly
<1>4. CASE UNCHANGED vars
  BY <1>4 DEF vars, TypeOK, CountAccounted, AcceptedOnce, MarkInv, MarkedAt, RememberedOnly
<1> QED
  BY <1>1, <1>2, <1>3, <1>4 DEF Next

LEMMA SpecIInv == Spec => []IInv
BY InitIInv, NextIInv, PTL DEF Spec

-----------------------------------------------------------------------------
\* No token is accepted twice, unless it came while the cache was full.
THEOREM TokensAcceptedOnce == Spec => []AcceptedOnce
BY SpecIInv, PTL DEF IInv

\* _total_count never drifts from the number of remembered nonces.
THEOREM CountIsAccounted == Spec => []CountAccounted
BY SpecIInv, PTL DEF IInv

\* Nothing is forgotten too early and nothing is remembered that was not
\* accepted.
THEOREM NoncesAreRemembered == Spec => []Remembered
<1>1. IInv => Remembered
  <2> SUFFICES ASSUME IInv PROVE Remembered
    OBVIOUS
  <2>1. ASSUME NEW t \in accepted \ skipped, now <= ts[t] + Tolerance
        PROVE  \E e \in buckets : e[2] = t
    <3>1. now \in Nat /\ ts[t] \in Nat /\ Tolerance \in Nat
      BY ReplayAssumption DEF IInv, TypeOK
    <3>2. PICK a \in Nat : MarkedAt(t, a)
      BY <2>1, <3>1 DEF IInv, MarkInv
    <3> QED
      BY <3>2 DEF MarkedAt
  <2> QED
    BY <2>1 DEF IInv, Remembered, RememberedOnly
<1> QED
  BY <1>1, SpecIInv, PTL
=============================================================================
