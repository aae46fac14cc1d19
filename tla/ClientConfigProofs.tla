------------------------- MODULE ClientConfigProofs -------------------------
(***************************************************************************)
(* Proofs about LiveConfig, for any number of lookups, edits and versions  *)
(* of the geo data, about Router, for any configuration, geo files and     *)
(* hosts, and about GeoCache, for any sources and mirrors.                 *)
(*                                                                         *)
(* RoutesFresh is not inductive by itself only for want of types; GeoKept  *)
(* needs that the router always carries the geo data the reloader knows,   *)
(* because a reload rebuilds it from there (GeoKnown).                     *)
(*                                                                         *)
(* RoutesAsWritten speaks of a finished router.  Its inductive invariant,  *)
(* RouterInv, says of the entries read so far what RoutesAsWritten says of *)
(* all of them.  That one more entry keeps it rests on two things: that    *)
(* each kind of criterion decides what it promises, by whatever bisection, *)
(* filter or literal (InnerHolds), and that the rules made of an entry     *)
(* decide together what the entry says (AndSpeaks, OrSpeaks, LineSpeaks).  *)
(*                                                                         *)
(* UnchangedIsCurrent needs that what is known of a file is about the file *)
(* that is there (Described), which every save and every 304 keep and only *)
(* an abort between the file and meta.json breaks.                         *)
(***************************************************************************)
EXTENDS LiveConfig, Router, GeoCache, FiniteSetTheorems, SequenceTheorems, TLAPS

GeoKnown == router.geo = available

IInv == TypeOK /\ RoutesFresh /\ GeoKnown

-----------------------------------------------------------------------------
(* The first router has no geo data, and nothing is cached.                  *)
LEMMA InitInv == Init => IInv
  BY LiveAssumption
  DEF Init, IInv, TypeOK, RoutesFresh, GeoKnown, Routers, StartRules

(* Every step keeps the invariant: the steps that replace the router clear   *)
(* both caches, the others cache its own decisions.                          *)
LEMMA NextInv == IInv /\ [Next]_vars => IInv'
<1> SUFFICES ASSUME IInv, [Next]_vars PROVE IInv'
  OBVIOUS
<1> USE LiveAssumption DEF IInv, TypeOK, RoutesFresh, GeoKnown, Routers
<1>1. CASE Edit
  BY <1>1 DEF Edit
<1>2. CASE Reload
  <2>1. [rules |-> file, geo |-> available] \in Routers
    OBVIOUS
  <2>2. QED BY <1>2, <2>1 DEF Reload, Replace
<1>3. CASE GeoStart
  BY <1>3 DEF GeoStart
<1>4. CASE GeoFail
  BY <1>4 DEF GeoFail
<1>5. CASE Dispatch
  BY <1>5 DEF Dispatch, Decided
<1>6. CASE RouteExpires
  BY <1>6 DEF RouteExpires
<1>7. CASE AnswerExpires
  BY <1>7 DEF AnswerExpires
<1>8. ASSUME NEW v \in 0 .. MaxGeo, GeoDone(v) PROVE IInv'
  <2>1. [rules |-> StartRules, geo |-> v] \in Routers
    BY DEF StartRules
  <2>2. QED BY <1>8, <2>1 DEF GeoDone, Replace
<1>9. ASSUME NEW l \in Lookups, LookupHit(l) PROVE IInv'
  BY <1>9 DEF LookupHit
<1>10. ASSUME NEW l \in Lookups, LookupMiss(l) PROVE IInv'
  <2>1. Decided \in Routers /\ Decided = router
    BY <1>10 DEF Decided
  <2>2. QED BY <1>10, <2>1 DEF LookupMiss
<1>11. ASSUME NEW l \in Lookups, LookupAnswered(l) PROVE IInv'
  BY <1>11 DEF LookupAnswered
<1>12. ASSUME NEW l \in Lookups, LookupFailed(l) PROVE IInv'
  BY <1>12 DEF LookupFailed
<1>13. CASE UNCHANGED vars
  BY <1>13 DEF vars
<1>14. QED
  BY <1>1, <1>2, <1>3, <1>4, <1>5, <1>6, <1>7, <1>8, <1>9, <1>10, <1>11, <1>12, <1>13
  DEF Next

LEMMA SpecInv == Spec => []IInv
  BY InitInv, NextInv, PTL DEF Spec

-----------------------------------------------------------------------------
(* The variables of the live configuration keep their types.                 *)
THEOREM TypeCorrect == Spec => []TypeOK
<1>1. IInv => TypeOK
  BY DEF IInv
<1>2. QED BY SpecInv, <1>1, PTL

(* No cached route outlives the router that decided it, however reloads,     *)
(* geo refreshes, connections and lookups interleave.                        *)
THEOREM RoutesAreFresh == Spec => []RoutesFresh
<1>1. IInv => RoutesFresh
  BY DEF IInv
<1>2. QED BY SpecInv, <1>1, PTL

(* No step gives the router older geo data than it had, or other data than   *)
(* the reloader will use for the next rebuild.                               *)
THEOREM GeoIsKept == Spec => GeoKept
<1>1. IInv /\ IInv' /\ [Next]_vars
      => [router'.geo >= router.geo /\ router'.geo = available']_vars
  <2> SUFFICES ASSUME IInv, IInv', Next
               PROVE router'.geo >= router.geo /\ router'.geo = available'
    OBVIOUS
  <2>1. router'.geo = available' /\ router.geo = available
    BY DEF IInv, GeoKnown
  <2>2. available' >= available
    <3>1. available \in Nat
      BY LiveAssumption DEF IInv, TypeOK
    <3>2. ASSUME NEW v \in 0 .. MaxGeo, GeoDone(v) PROVE available' >= available
      BY <3>1, <3>2, LiveAssumption DEF GeoDone
    <3>3. CASE ~ \E v \in 0 .. MaxGeo : GeoDone(v)
      <4>1. available' = available
        BY <3>3 DEF Next, Edit, Reload, GeoStart, GeoFail, Dispatch, RouteExpires,
                    AnswerExpires, LookupHit, LookupMiss, LookupAnswered, LookupFailed
      <4>2. QED BY <4>1, <3>1
    <3>4. QED BY <3>2, <3>3
  <2>3. QED BY <2>1, <2>2
<1>2. QED BY SpecInv, <1>1, PTL DEF Spec, GeoKept

-----------------------------------------------------------------------------
\* Induction over the numbers, as the absence of a least counterexample.
LEMMA Least ==
    ASSUME NEW S, S \subseteq Nat, S # {}
    PROVE  \E x \in S : \A y \in S : x <= y
<1>1. \E x \in S : \A y \in S : ~ (<<y, x>> \in OpToRel(<, Nat))
  BY NatLessThanWellFounded, WFMin
<1>2. PICK x \in S : \A y \in S : ~ (<<y, x>> \in OpToRel(<, Nat))
  BY <1>1
<1>3. ASSUME NEW y \in S PROVE x <= y
  <2>1. x \in Nat /\ y \in Nat
    OBVIOUS
  <2>2. ~ (y < x)
    BY <1>2, <2>1 DEF OpToRel
  <2> QED
    BY <2>1, <2>2
<1> QED
  BY <1>3

\* Values that a function takes on a finite set are finitely many.
LEMMA FiniteRange ==
    ASSUME NEW f, IsFiniteSet(DOMAIN f)
    PROVE  IsFiniteSet({f[x] : x \in DOMAIN f})
<1> DEFINE T == {f[x] : x \in DOMAIN f}
           g == [x \in DOMAIN f |-> f[x]]
<1>1. g \in Surjection(DOMAIN f, T)
  BY DEF Surjection
<1> HIDE DEF g, T
<1>2. IsFiniteSet(T)
  BY <1>1, FS_Surjection
<1> QED
  BY <1>2 DEF T

LEMMA RowFacts ==
    ASSUME NEW s, IsRow(s)
    PROVE  /\ Len(s) \in Nat /\ DOMAIN s = 1 .. Len(s)
           /\ \A i \in DOMAIN s : s[i] \in ToSet(s)
           /\ IsFiniteSet(ToSet(s))
<1>1. Len(s) \in Nat /\ DOMAIN s = 1 .. Len(s) /\ \A i \in DOMAIN s : s[i] \in ToSet(s)
  BY DEF IsRow, ToSet
<1>2. IsFiniteSet(DOMAIN s)
  BY <1>1, FS_Interval
<1> QED
  BY <1>1, <1>2, FiniteRange DEF ToSet

LEMMA RowOf ==
    ASSUME NEW S, NEW s \in Seq(S)
    PROVE  IsRow(s) /\ ToSet(s) \subseteq S
<1>1. s \in [1 .. Len(s) -> ToSet(s)] /\ Len(s) \in Nat
  BY DEF ToSet
<1> QED
  BY <1>1 DEF IsRow, ToSet

\* A finite set of rules can be put in a row.
LEMMA RowOfSet ==
    ASSUME NEW S, IsFiniteSet(S)
    PROVE  SetToSeq(S) \in Seq(S) /\ \A x \in S : \E i \in DOMAIN SetToSeq(S) : SetToSeq(S)[i] = x
<1> DEFINE n == Cardinality(S)
           s == SetToSeq(S)
<1>1. n \in Nat /\ ExistsBijection(1 .. n, S)
  BY FS_CardinalityType
<1>2. \E f \in [1 .. n -> S] : IsInjective(f)
  BY <1>1 DEF ExistsBijection, Bijection, Injection
<1>3. s \in [1 .. n -> S] /\ IsInjective(s)
  BY <1>2 DEF SetToSeq
<1>4. s \in Injection(1 .. n, S)
  BY <1>3 DEF Injection
<1>5. Cardinality(1 .. n) = n /\ IsFiniteSet(1 .. n)
  BY <1>1, FS_Interval
<1> HIDE DEF s
<1>6. s \in Surjection(1 .. n, S)
  BY <1>4, <1>5, FS_Injection
<1>7. s \in Seq(S) /\ DOMAIN s = 1 .. n
  BY <1>1, <1>3
<1>8. \A x \in S : \E i \in 1 .. n : s[i] = x
  BY <1>6 DEF Surjection
<1> QED
  BY <1>7, <1>8 DEF s

LEMMA FirstIs ==
    ASSUME NEW S, S \subseteq Nat, NEW i \in S, \A j \in S : i <= j
    PROVE  First(S) = i
<1>1. First(S) \in S /\ First(S) <= i
  BY DEF First
<1>2. i <= First(S) /\ i \in Nat /\ First(S) \in Nat
  BY <1>1
<1> QED
  BY <1>1, <1>2

-----------------------------------------------------------------------------
\* The networks of a geoip entry have an order ...
LEMMA LastOne ==
    ASSUME NEW S, S \subseteq Int \X Int, IsFiniteSet(S), S # {}
    PROVE  \E m \in S : \A n \in S : Before(n, m)
<1> DEFINE Worse(k) == \E T : /\ T \subseteq Int \X Int /\ IsFiniteSet(T) /\ T # {}
                              /\ Cardinality(T) = k /\ ~ \E m \in T : \A n \in T : Before(n, m)
           K == {k \in Nat : Worse(k)}
<1>1. K = {}
  <2> SUFFICES ASSUME K # {} PROVE FALSE
    OBVIOUS
  <2>1. PICK k \in K : \A j \in K : k <= j
    <3>1. K \subseteq Nat
      OBVIOUS
    <3> HIDE DEF K
    <3> QED
      BY <3>1, Least
  <2>2. PICK T : /\ T \subseteq Int \X Int /\ IsFiniteSet(T) /\ T # {}
                 /\ Cardinality(T) = k /\ ~ \E m \in T : \A n \in T : Before(n, m)
    BY <2>1
  <2>3. PICK x \in T : TRUE
    BY <2>2
  <2>4. IsFiniteSet(T \ {x}) /\ Cardinality(T \ {x}) = k - 1 /\ k \in Nat
    BY <2>1, <2>2, <2>3, FS_RemoveElement
  <2>5. CASE T \ {x} = {}
    <3>1. \A n \in T : n = x
      BY <2>5
    <3>2. Before(x, x)
      BY <2>2, <2>3 DEF Before
    <3> QED
      BY <2>2, <2>3, <3>1, <3>2
  <2>6. CASE T \ {x} # {}
    <3>1. k - 1 \in Nat
      BY <2>4, FS_CardinalityType
    <3>2. k - 1 \notin K
      BY <2>1, <3>1
    <3>3. PICK m \in T \ {x} : \A n \in T \ {x} : Before(n, m)
      BY <2>2, <2>4, <2>6, <3>1, <3>2, Zenon
    <3>4. \A n \in T : Before(n, m) \/ n = x
      BY <3>3
    <3>5. Before(m, x) \/ Before(x, m)
      BY <2>2, <2>3, <3>3 DEF Before
    <3>6. ASSUME Before(m, x), NEW n \in T PROVE Before(n, x)
      <4>1. n \in Int \X Int /\ m \in Int \X Int /\ x \in Int \X Int
        BY <2>2, <2>3, <3>3
      <4> QED
        BY <3>4, <3>6, <4>1 DEF Before
    <3> QED
      BY <2>2, <2>3, <3>3, <3>4, <3>5, <3>6
  <2> QED
    BY <2>5, <2>6
<1>2. Cardinality(S) \in Nat
  BY FS_CardinalityType
<1> QED
  BY <1>1, <1>2, Zenon

\* ... so that they can be sorted.
InOrder(s, S) ==
    /\ s \in [1 .. Cardinality(S) -> S] /\ ToSet(s) = S
    /\ \A i, j \in DOMAIN s : i <= j => Before(s[i], s[j])

LEMMA SortExists ==
    ASSUME NEW S, S \subseteq Int \X Int, IsFiniteSet(S)
    PROVE  \E s : InOrder(s, S)
<1> DEFINE Worse(k) == \E T : /\ T \subseteq Int \X Int /\ IsFiniteSet(T)
                              /\ Cardinality(T) = k /\ ~ \E s : InOrder(s, T)
           K == {k \in Nat : Worse(k)}
<1>1. K = {}
  <2> SUFFICES ASSUME K # {} PROVE FALSE
    OBVIOUS
  <2>1. PICK k \in K : \A j \in K : k <= j
    <3>1. K \subseteq Nat
      OBVIOUS
    <3> HIDE DEF K
    <3> QED
      BY <3>1, Least
  <2>2. PICK T : /\ T \subseteq Int \X Int /\ IsFiniteSet(T)
                 /\ Cardinality(T) = k /\ ~ \E s : InOrder(s, T)
    BY <2>1
  <2>3. CASE T = {}
    <3>1. Cardinality(T) = 0
      BY <2>3, FS_EmptySet
    <3>2. InOrder(<<>>, T)
      BY <2>3, <3>1 DEF InOrder, ToSet
    <3> QED
      BY <2>2, <3>2
  <2>4. CASE T # {}
    <3>1. PICK m \in T : \A n \in T : Before(n, m)
      BY <2>2, <2>4, LastOne
    <3> DEFINE U == T \ {m}
    <3>2. IsFiniteSet(U) /\ Cardinality(U) = k - 1 /\ k \in Nat /\ U \subseteq Int \X Int
      BY <2>1, <2>2, <3>1, FS_RemoveElement
    <3>3. k - 1 \in Nat
      BY <3>2, FS_CardinalityType
    <3>4. k - 1 \notin K
      BY <2>1, <3>3
    <3> HIDE DEF U
    <3>5. PICK s : InOrder(s, U)
      BY <3>2, <3>3, <3>4, Zenon
    <3> DEFINE t == [i \in 1 .. k |-> IF i = k THEN m ELSE s[i]]
    <3>6. s \in [1 .. k - 1 -> U] /\ ToSet(s) = U /\ Cardinality(T) = k /\ k \in Nat
      BY <2>2, <3>2, <3>5 DEF InOrder
    <3>7. t \in [1 .. k -> T] /\ DOMAIN t = 1 .. k
      BY <3>1, <3>3, <3>6 DEF U
    <3>8. ToSet(t) = T
      <4>1. ASSUME NEW x \in T PROVE \E i \in DOMAIN t : t[i] = x
        <5>1. CASE x = m
          BY <3>3, <3>7, <5>1
        <5>2. CASE x # m
          <6>1. x \in ToSet(s)
            BY <3>6, <5>2 DEF U
          <6>2. PICK i \in 1 .. k - 1 : s[i] = x
            BY <3>6, <6>1 DEF ToSet
          <6> QED
            BY <3>3, <3>7, <6>2
        <5> QED
          BY <5>1, <5>2
      <4> HIDE DEF t
      <4> QED
        BY <3>7, <4>1 DEF ToSet
    <3>9. ASSUME NEW i \in DOMAIN t, NEW j \in DOMAIN t, i <= j PROVE Before(t[i], t[j])
      <4>1. CASE j = k
        <5>1. t[j] = m /\ t[i] \in T
          BY <3>7, <4>1
        <5> HIDE DEF t
        <5> QED
          BY <3>1, <5>1
      <4>2. CASE j # k
        <5>1. i \in 1 .. k - 1 /\ j \in 1 .. k - 1
          BY <3>6, <3>7, <3>9, <4>2
        <5>2. t[i] = s[i] /\ t[j] = s[j]
          BY <5>1, <3>6
        <5> HIDE DEF t
        <5>3. i \in DOMAIN s /\ j \in DOMAIN s
          BY <3>6, <5>1
        <5> QED
          BY <3>5, <3>9, <5>2, <5>3 DEF InOrder
      <4> QED
        BY <4>1, <4>2
    <3> HIDE DEF t
    <3>10. InOrder(t, T)
      BY <3>6, <3>7, <3>8, <3>9 DEF InOrder
    <3> QED
      BY <2>2, <3>10
  <2> QED
    BY <2>3, <2>4
<1>2. Cardinality(S) \in Nat
  BY FS_CardinalityType
<1> QED
  BY <1>1, <1>2, Zenon

LEMMA SortedRow ==
    ASSUME NEW nets, IsRow(nets), ToSet(nets) \subseteq Int \X Int
    PROVE  /\ IsRow(Sorted(nets)) /\ ToSet(Sorted(nets)) = ToSet(nets)
           /\ \A i, j \in DOMAIN Sorted(nets) : i <= j => Before(Sorted(nets)[i], Sorted(nets)[j])
<1>1. IsFiniteSet(ToSet(nets))
  BY RowFacts
<1>2. \E s : InOrder(s, ToSet(nets))
  BY <1>1, SortExists
<1>3. InOrder(Sorted(nets), ToSet(nets))
  BY <1>2 DEF InOrder, Sorted
<1> DEFINE s == Sorted(nets)
<1>4. Cardinality(ToSet(nets)) \in Nat
  BY <1>1, FS_CardinalityType
<1> HIDE DEF s
<1>5. s \in Seq(ToSet(nets))
  BY <1>3, <1>4 DEF InOrder, s
<1> QED
  BY <1>3, <1>5, RowOf DEF InOrder, s

\* A run of the loop of _v4_contains, m rounds of it.
SearchUpTo(f, v4, a, m) ==
    f = [n \in 0 .. m |-> IF n = 0 THEN [lo |-> 1, hi |-> Len(v4), best |-> 0]
                          ELSE Probe(v4, a, f[n - 1])]

LEMMA SearchExists == ASSUME NEW v4, NEW a PROVE \A m \in Nat : \E f : SearchUpTo(f, v4, a, m)
<1> DEFINE S == {m \in Nat : ~ \E f : SearchUpTo(f, v4, a, m)}
<1> SUFFICES ASSUME S # {} PROVE FALSE
  OBVIOUS
<1>1. PICK m \in S : \A y \in S : m <= y
  <2>1. S \subseteq Nat
    OBVIOUS
  <2> HIDE DEF S
  <2> QED
    BY <2>1, Least
<1>2. m \in Nat /\ ~ \E f : SearchUpTo(f, v4, a, m)
  BY <1>1
<1>3. CASE m = 0
  <2> DEFINE f == [n \in 0 .. 0 |-> [lo |-> 1, hi |-> Len(v4), best |-> 0]]
  <2>1. f = [n \in 0 .. 0 |-> IF n = 0 THEN [lo |-> 1, hi |-> Len(v4), best |-> 0]
                              ELSE Probe(v4, a, f[n - 1])]
    OBVIOUS
  <2> HIDE DEF f
  <2>2. SearchUpTo(f, v4, a, m)
    BY <1>3, <2>1 DEF SearchUpTo
  <2> QED
    BY <1>2, <2>2
<1>4. CASE m # 0
  <2>1. m - 1 \in Nat /\ m - 1 \notin S
    BY <1>1, <1>2, <1>4
  <2>2. PICK f : SearchUpTo(f, v4, a, m - 1)
    BY <2>1
  <2> DEFINE g == [n \in 0 .. m |-> IF n = m THEN Probe(v4, a, f[m - 1]) ELSE f[n]]
             Step(n, x) == IF n = 0 THEN [lo |-> 1, hi |-> Len(v4), best |-> 0]
                           ELSE Probe(v4, a, x)
  <2>3. ASSUME NEW n \in 0 .. m - 1 PROVE f[n] = Step(n, f[n - 1])
    BY <2>2 DEF SearchUpTo
  <2>4. ASSUME NEW n \in 0 .. m PROVE g[n] = Step(n, g[n - 1])
    <3>1. CASE n = m
      <4>1. g[n] = Probe(v4, a, f[m - 1]) /\ g[n - 1] = f[m - 1]
        BY <1>2, <1>4, <3>1
      <4> HIDE DEF g
      <4> QED
        BY <1>4, <3>1, <4>1
    <3>2. CASE n # m
      <4>1. n \in 0 .. m - 1 /\ g[n] = f[n]
        BY <1>2, <3>2
      <4>2. n # 0 => g[n - 1] = f[n - 1]
        BY <1>2, <4>1
      <4> HIDE DEF g
      <4> QED
        BY <2>3, <4>1, <4>2
    <3> QED
      BY <3>1, <3>2
  <2>5. g = [n \in 0 .. m |-> g[n]]
    OBVIOUS
  <2> HIDE DEF g
  <2>6. SearchUpTo(g, v4, a, m)
    BY <2>4, <2>5 DEF SearchUpTo
  <2> QED
    BY <1>2, <2>6
<1> QED
  BY <1>3, <1>4

\* What a round leaves to search: everything before it starts at or before the
\* address, everything behind it after the address.
Narrowed(v4, a, s, n) ==
    /\ s.lo \in 1 .. Len(v4) + 1 /\ s.hi \in 0 .. Len(v4) /\ s.best = s.lo - 1
    /\ s.lo <= s.hi + 1 /\ (s.lo = s.hi + 1 \/ s.hi - s.lo + 1 + n <= Len(v4))
    /\ \A i \in 1 .. s.best : v4[i][1] <= a
    /\ \A i \in s.hi + 1 .. Len(v4) : a < v4[i][1]

LEMMA Middle ==
    ASSUME NEW lo \in Int, NEW hi \in Int, lo <= hi
    PROVE  /\ (lo + hi) \div 2 \in Int
           /\ lo <= (lo + hi) \div 2 /\ (lo + hi) \div 2 <= hi
  OBVIOUS

LEMMA NarrowedFacts ==
    ASSUME NEW v4, Len(v4) \in Nat, NEW a, NEW s, NEW n \in Nat, Narrowed(v4, a, s, n)
    PROVE  /\ s.lo \in Int /\ s.hi \in Int /\ s.best = s.lo - 1
           /\ 1 <= s.lo /\ s.lo <= s.hi + 1 /\ s.hi <= Len(v4)
           /\ s.lo <= s.hi => s.hi - s.lo + 1 + n <= Len(v4)
  BY DEF Narrowed

LEMMA NarrowedIf ==
    ASSUME NEW v4, NEW a, NEW s, NEW n \in Nat, s.lo \in 1 .. Len(v4) + 1, s.hi \in 0 .. Len(v4),
           s.best = s.lo - 1, s.lo <= s.hi + 1, s.hi - s.lo + 1 + n <= Len(v4),
           \A i \in 1 .. s.best : v4[i][1] <= a,
           \A i \in s.hi + 1 .. Len(v4) : a < v4[i][1]
    PROVE  Narrowed(v4, a, s, n)
  BY DEF Narrowed

LEMMA Narrows ==
    ASSUME NEW v4, v4 \in Seq(Int \X Int), NEW a \in Int,
           \A i, j \in DOMAIN v4 : i <= j => Before(v4[i], v4[j]),
           NEW s, NEW n \in Nat, Narrowed(v4, a, s, n)
    PROVE  Narrowed(v4, a, Probe(v4, a, s), n + 1)
<1> DEFINE mid == (s.lo + s.hi) \div 2
<1>1. Len(v4) \in Nat /\ DOMAIN v4 = 1 .. Len(v4)
  OBVIOUS
<1>0. /\ s.lo \in Int /\ s.hi \in Int /\ s.best = s.lo - 1
      /\ 1 <= s.lo /\ s.lo <= s.hi + 1 /\ s.hi <= Len(v4)
      /\ s.lo <= s.hi => s.hi - s.lo + 1 + n <= Len(v4)
  BY <1>1, NarrowedFacts
<1>2. CASE s.lo > s.hi
  BY ONLY <1>0, <1>1, <1>2, Narrowed(v4, a, s, n), n \in Nat DEF Narrowed, Probe
<1>3. CASE s.lo <= s.hi
  <2>1. mid \in s.lo .. s.hi /\ mid \in DOMAIN v4
    <3>1. s.lo <= mid /\ mid <= s.hi /\ mid \in Int
      BY <1>0, <1>3, Middle
    <3> HIDE DEF mid
    <3> QED
      BY <1>0, <1>1, <3>1
  <2> HIDE DEF mid
  <2>2. \A i \in DOMAIN v4 : v4[i] \in Int \X Int /\ v4[i][1] \in Int
    OBVIOUS
  <2>3. CASE v4[mid][1] <= a
    <3> DEFINE t == [lo |-> mid + 1, hi |-> s.hi, best |-> mid]
    <3>1. Probe(v4, a, s) = t
      BY <1>0, <1>3, <2>3 DEF Probe, mid
    <3>2. ASSUME NEW i \in 1 .. mid PROVE v4[i][1] <= a
      <4>0. i \in DOMAIN v4 /\ i <= mid
        BY <1>1, <2>1
      <4>1. Before(v4[i], v4[mid])
        BY <2>1, <4>0
      <4> QED
        BY <2>1, <2>2, <2>3, <4>0, <4>1 DEF Before
    <3>3. t.lo = mid + 1 /\ t.hi = s.hi /\ t.best = mid
      OBVIOUS
    <3> HIDE DEF t
    <3>4. mid \in 1 .. Len(v4) /\ mid <= s.hi /\ s.lo <= mid
      BY <1>0, <1>1, <2>1
    <3>5. s.hi - (mid + 1) + 1 + (n + 1) <= Len(v4)
      BY ONLY <1>0, <1>1, <1>3, <3>4, n \in Nat
    <3>6. \A i \in t.hi + 1 .. Len(v4) : a < v4[i][1]
      BY <3>3 DEF Narrowed
    <3>7. Narrowed(v4, a, t, n + 1)
      <4>1. /\ t.lo \in 1 .. Len(v4) + 1 /\ t.hi \in 0 .. Len(v4) /\ t.best = t.lo - 1
            /\ t.lo <= t.hi + 1
        BY ONLY <1>0, <1>1, <3>3, <3>4
      <4>2. t.hi - t.lo + 1 + (n + 1) <= Len(v4)
        BY ONLY <3>3, <3>5
      <4>3. \A i \in 1 .. t.best : v4[i][1] <= a
        BY ONLY <3>2, <3>3
      <4> QED
        BY ONLY <3>6, <4>1, <4>2, <4>3, n + 1 \in Nat, NarrowedIf
    <3> QED
      BY <3>1, <3>7
  <2>4. CASE ~ (v4[mid][1] <= a)
    <3> DEFINE t == [lo |-> s.lo, hi |-> mid - 1, best |-> s.best]
    <3>0. ~ (s.lo > s.hi)
      BY <1>0, <1>3
    <3>1. Probe(v4, a, s) = t
      BY ONLY <3>0, <2>4, Zenon DEF Probe, mid
    <3>2. ASSUME NEW i \in mid .. Len(v4) PROVE a < v4[i][1]
      <4>0. i \in DOMAIN v4 /\ mid <= i
        BY <1>1, <2>1
      <4>1. Before(v4[mid], v4[i])
        BY <2>1, <4>0
      <4> QED
        BY <2>1, <2>2, <2>4, <4>0, <4>1 DEF Before
    <3>3. t.lo = s.lo /\ t.hi = mid - 1 /\ t.best = s.best
      OBVIOUS
    <3> HIDE DEF t
    <3>4. mid \in 1 .. Len(v4) /\ mid <= s.hi /\ s.lo <= mid
      BY <1>0, <1>1, <2>1
    <3>5. (mid - 1) - s.lo + 1 + (n + 1) <= Len(v4)
      BY ONLY <1>0, <1>1, <1>3, <3>4, n \in Nat
    <3>6. \A i \in 1 .. t.best : v4[i][1] <= a
      BY <3>3 DEF Narrowed
    <3>7. \A i \in t.hi + 1 .. Len(v4) : a < v4[i][1]
      BY <1>1, <3>2, <3>3, <3>4
    <3>8. Narrowed(v4, a, t, n + 1)
      <4>1. /\ t.lo \in 1 .. Len(v4) + 1 /\ t.hi \in 0 .. Len(v4) /\ t.best = t.lo - 1
            /\ t.lo <= t.hi + 1
        BY ONLY <1>0, <1>1, <3>3, <3>4
      <4>2. t.hi - t.lo + 1 + (n + 1) <= Len(v4)
        BY ONLY <3>3, <3>5
      <4> QED
        BY ONLY <3>6, <3>7, <4>1, <4>2, n + 1 \in Nat, NarrowedIf
    <3> QED
      BY <3>1, <3>8
  <2> QED
    BY <2>3, <2>4
<1> QED
  BY <1>0, <1>2, <1>3

\* The bisection finds the last network that starts at or before the address.
LEMMA Bisected ==
    ASSUME NEW v4, v4 \in Seq(Int \X Int), NEW a \in Int,
           \A i, j \in DOMAIN v4 : i <= j => Before(v4[i], v4[j])
    PROVE  /\ Bisect(v4, a) \in 0 .. Len(v4)
           /\ \A i \in 1 .. Len(v4) : i <= Bisect(v4, a) <=> v4[i][1] <= a
<1> DEFINE search[n \in 0 .. Len(v4)] == IF n = 0 THEN [lo |-> 1, hi |-> Len(v4), best |-> 0]
                                         ELSE Probe(v4, a, search[n - 1])
<1>1. Bisect(v4, a) = search[Len(v4)].best
  BY DEF Bisect
<1>2. Len(v4) \in Nat /\ DOMAIN v4 = 1 .. Len(v4)
  OBVIOUS
<1>3. \E f : f = [n \in 0 .. Len(v4) |-> IF n = 0 THEN [lo |-> 1, hi |-> Len(v4), best |-> 0]
                                         ELSE Probe(v4, a, f[n - 1])]
  <2>1. \E f : SearchUpTo(f, v4, a, Len(v4))
    BY <1>2, SearchExists
  <2> QED
    BY <2>1 DEF SearchUpTo
<1>4. search = [n \in 0 .. Len(v4) |-> IF n = 0 THEN [lo |-> 1, hi |-> Len(v4), best |-> 0]
                                       ELSE Probe(v4, a, search[n - 1])]
  BY <1>3
<1> HIDE DEF search
<1> DEFINE S == {n \in 0 .. Len(v4) : ~ Narrowed(v4, a, search[n], n)}
<1>5. S = {}
  <2> SUFFICES ASSUME S # {} PROVE FALSE
    OBVIOUS
  <2>1. PICK n \in S : \A y \in S : n <= y
    <3>1. S \subseteq Nat
      OBVIOUS
    <3> HIDE DEF S
    <3> QED
      BY <3>1, Least
  <2>2. n \in 0 .. Len(v4) /\ ~ Narrowed(v4, a, search[n], n)
    BY <2>1
  <2>3. CASE n = 0
    <3>1. search[0] = [lo |-> 1, hi |-> Len(v4), best |-> 0]
      BY <1>2, <1>4
    <3> QED
      BY <1>2, <2>2, <2>3, <3>1 DEF Narrowed
  <2>4. CASE n # 0
    <3>1. n - 1 \in Nat /\ n - 1 \in 0 .. Len(v4) /\ n - 1 \notin S
      BY <1>2, <2>1, <2>2, <2>4
    <3>2. Narrowed(v4, a, search[n - 1], n - 1)
      BY <3>1
    <3>3. search[n] = Probe(v4, a, search[n - 1])
      BY <1>4, <2>2, <2>4
    <3>4. Narrowed(v4, a, search[n], n - 1 + 1)
      BY <3>1, <3>2, <3>3, Narrows
    <3> QED
      BY <1>2, <2>2, <3>4
  <2> QED
    BY <2>3, <2>4
<1>6. Narrowed(v4, a, search[Len(v4)], Len(v4))
  BY <1>2, <1>5
<1> DEFINE s == search[Len(v4)]
<1>7. s.best \in 0 .. Len(v4) /\ s.hi = s.best
  <2> HIDE DEF s
  <2>1. /\ s.lo \in Int /\ s.hi \in Int /\ s.best = s.lo - 1
        /\ 1 <= s.lo /\ s.lo <= s.hi + 1 /\ s.hi <= Len(v4)
        /\ s.lo <= s.hi => s.hi - s.lo + 1 + Len(v4) <= Len(v4)
    BY <1>2, <1>6, NarrowedFacts DEF s
  <2> QED
    BY <1>2, <2>1
<1>8. \A i \in 1 .. Len(v4) : v4[i][1] \in Int
  BY <1>2
<1>9. ASSUME NEW i \in 1 .. Len(v4) PROVE i <= s.best <=> v4[i][1] <= a
  <2>1. i <= s.best => v4[i][1] <= a
    BY <1>6, <1>7 DEF Narrowed
  <2>2. i > s.best => a < v4[i][1]
    <3>1. i > s.best => i \in s.hi + 1 .. Len(v4)
      BY <1>2, <1>7
    <3> QED
      BY <1>6, <3>1 DEF Narrowed
  <2> QED
    BY <1>2, <1>7, <1>8, <2>1, <2>2
<1> QED
  BY <1>1, <1>7, <1>9

\* _v4_contains: some network of the entry holds the address.
LEMMA Contained ==
    ASSUME NEW nets, IsRow(nets), ToSet(nets) \subseteq Int \X Int, NEW a \in Int
    PROVE  V4Contains(Sorted(nets), a) <=> \E n \in ToSet(nets) : n[1] <= a /\ a <= n[2]
<1> DEFINE v4 == Sorted(nets)
<1>1. /\ IsRow(v4) /\ ToSet(v4) = ToSet(nets)
      /\ \A i, j \in DOMAIN v4 : i <= j => Before(v4[i], v4[j])
  BY SortedRow
<1> HIDE DEF v4
<1>2. v4 \in Seq(Int \X Int)
  <2>1. \A i \in DOMAIN v4 : v4[i] \in Int \X Int
    BY <1>1, RowFacts
  <2>2. Len(v4) \in Nat /\ v4 \in [1 .. Len(v4) -> Int \X Int]
    BY <1>1, <2>1 DEF IsRow
  <2> QED
    BY <2>2
<1>3. /\ Bisect(v4, a) \in 0 .. Len(v4)
      /\ \A i \in 1 .. Len(v4) : i <= Bisect(v4, a) <=> v4[i][1] <= a
  BY <1>1, <1>2, Bisected
<1>4. Len(v4) \in Nat /\ DOMAIN v4 = 1 .. Len(v4) /\ \A i \in DOMAIN v4 : v4[i] \in Int \X Int
  BY <1>2
<1>5. V4Contains(v4, a) <=> \E i \in DOMAIN v4 : v4[i][1] <= a /\ a <= v4[i][2]
  <2>1. ASSUME NEW i \in 1 .. Bisect(v4, a), v4[i][1] <= a, v4[i][2] >= a
        PROVE  i \in DOMAIN v4 /\ a <= v4[i][2]
    <3>1. i \in DOMAIN v4
      BY <1>3, <1>4
    <3>2. v4[i][2] \in Int
      BY <1>4, <3>1
    <3> QED
      BY <2>1, <3>1, <3>2
  <2>2. ASSUME NEW i \in DOMAIN v4, v4[i][1] <= a, a <= v4[i][2]
        PROVE  i \in 1 .. Bisect(v4, a) /\ v4[i][2] >= a
    <3>1. i \in 1 .. Len(v4) /\ v4[i][2] \in Int
      BY <1>4
    <3> QED
      BY <1>3, <2>2, <3>1
  <2> QED
    BY <2>1, <2>2 DEF V4Contains
<1>6. (\E i \in DOMAIN v4 : v4[i][1] <= a /\ a <= v4[i][2])
      <=> \E n \in ToSet(v4) : n[1] <= a /\ a <= n[2]
  BY DEF ToSet
<1> QED
  BY <1>1, <1>5, <1>6 DEF v4

\* The literal of a pattern is one of its runs.
LEMMA LiteralIsRun ==
    ASSUME NEW p, IsRow(p), Runs(p) # {}
    PROVE  ExtractLiteral(p) \in Runs(p)
<1>1. Len(p) \in Nat /\ DOMAIN p = 1 .. Len(p)
  BY RowFacts
<1>2. ASSUME NEW t \in Runs(p) PROVE Len(t) \in 0 .. Len(p)
  <2>1. PICK i \in DOMAIN p, j \in DOMAIN p : i < j /\ t = Text(p, i, j)
    BY DEF Runs
  <2>2. DOMAIN t = 1 .. j - i + 1 /\ t = [k \in DOMAIN t |-> t[k]]
    BY <2>1 DEF Text
  <2>3. j - i + 1 \in 0 .. Len(p)
    BY <1>1, <2>1
  <2>4. Len(t) = j - i + 1
    BY <2>2, <2>3
  <2> QED
    BY <2>3, <2>4
<1> DEFINE K == {Len(p) - Len(t) : t \in Runs(p)}
<1>3. K \subseteq Nat /\ K # {}
  BY <1>1, <1>2
<1>4. PICK k \in K : \A x \in K : k <= x
  <2> HIDE DEF K
  <2> QED
    BY <1>3, Least
<1>5. PICK t \in Runs(p) : k = Len(p) - Len(t)
  BY <1>4
<1>6. \A u \in Runs(p) : Len(u) <= Len(t)
  <2> SUFFICES ASSUME NEW u \in Runs(p) PROVE Len(u) <= Len(t)
    OBVIOUS
  <2>1. Len(p) - Len(t) <= Len(p) - Len(u)
    BY <1>4, <1>5
  <2>2. Len(t) \in Int /\ Len(u) \in Int
    BY <1>1, <1>2
  <2> QED
    BY <1>1, <2>1, <2>2
<1> QED
  BY <1>5, <1>6 DEF ExtractLiteral

\* A host in which a pattern is found holds the literal of the pattern.
LEMMA LiteralFound ==
    ASSUME NEW p, IsRow(p), NEW name, IsRow(name), Search(p, name)
    PROVE  Within(ExtractLiteral(p), name)
<1>1. Len(p) \in Nat /\ DOMAIN p = 1 .. Len(p) /\ Len(name) \in Nat
  BY RowFacts
<1>2. CASE Runs(p) = {}
  <2>1. ExtractLiteral(p) = <<>>
    BY <1>2 DEF ExtractLiteral
  <2>2. DOMAIN <<>> = {} /\ 0 \in 0 .. Len(name) - Len(<<>>)
    BY <1>1
  <2> QED
    BY <2>1, <2>2 DEF Within
<1>3. CASE Runs(p) # {}
  <2> DEFINE t == ExtractLiteral(p)
  <2>1. t \in Runs(p)
    BY <1>3, LiteralIsRun
  <2> HIDE DEF t
  <2>2. PICK a \in DOMAIN p, b \in DOMAIN p : a < b /\ Plain(p, a, b) /\ t = Text(p, a, b)
    BY <2>1 DEF Runs
  <2>3. PICK i \in 0 .. Len(name) - Len(p) : \A k \in DOMAIN p : name[i + k] \in p[k]
    BY DEF Search
  <2>4. DOMAIN t = 1 .. b - a + 1 /\ t = [k \in DOMAIN t |-> t[k]]
    BY <2>2 DEF Text
  <2>5. b - a + 1 \in Nat /\ a \in 1 .. Len(p) /\ b \in 1 .. Len(p) /\ i \in Nat
    BY <1>1, <2>2
  <2>6. Len(t) = b - a + 1
    BY <2>4, <2>5
  <2>7. i + a - 1 \in 0 .. Len(name) - Len(t)
    BY <1>1, <2>5, <2>6
  <2>8. ASSUME NEW k \in DOMAIN t PROVE name[i + a - 1 + k] = t[k]
    <3> DEFINE q == a + k - 1
    <3>1. q \in a .. b /\ q \in DOMAIN p /\ i + a - 1 + k = i + q
      BY <1>1, <2>4, <2>5
    <3> HIDE DEF q
    <3>2. PICK x \in p[q] : p[q] = {x}
      BY <2>2, <3>1 DEF Plain
    <3>3. t[k] = CHOOSE y \in p[q] : TRUE
      BY <2>2, <2>4 DEF Text, q
    <3>4. t[k] = x
      BY <3>2, <3>3
    <3>5. name[i + q] \in p[q]
      BY <2>3, <3>1
    <3> QED
      BY <3>1, <3>2, <3>4, <3>5
  <2>9. Within(t, name)
    BY <2>7, <2>8 DEF Within
  <2> QED
    BY <2>9 DEF t
<1> QED
  BY <1>2, <1>3

\* What is read of a file is one of its entries.
LEMMA ReadFacts ==
    ASSUME NEW files, NEW s, s \in DOMAIN files => IsRow(files[s]), NEW e \in Read(files, s)
    PROVE  s \in DOMAIN files /\ e \in ToSet(files[s]) \ {Bad}
<1>1. s \in DOMAIN files
  <2> SUFFICES ASSUME s \notin DOMAIN files PROVE FALSE
    OBVIOUS
  <2> QED
    BY DEF Read
<1>2. PICK i \in DOMAIN files[s] :
          e = files[s][i] /\ \A b \in {j \in DOMAIN files[s] : files[s][j] = Bad} : i < b
  BY <1>1 DEF Read
<1>3. i \in Int
  BY <1>1, RowFacts
<1>4. e # Bad
  BY <1>2, <1>3
<1> QED
  BY <1>1, <1>2, <1>4 DEF ToSet

\* A geosite rule finds the exact names, the proper suffixes and the keywords.
LEMMA SiteFound ==
    ASSUME NEW e, \A i \in ToSet(e.items) : i.type = "suffix" => IsRow(i.value) /\ i.value # <<>>,
           NEW name, IsRow(name), name \notin Items(e, "suffix")
    PROVE  SiteMatches(e, name)
           <=> \E i \in ToSet(e.items) :
                  \/ i.type = "exact" /\ name = i.value
                  \/ i.type = "suffix" /\ IsTail(i.value, name)
                  \/ i.type = "keyword" /\ Within(i.value, name)
<1> DEFINE Promise == \E i \in ToSet(e.items) :
                  \/ i.type = "exact" /\ name = i.value
                  \/ i.type = "suffix" /\ IsTail(i.value, name)
                  \/ i.type = "keyword" /\ Within(i.value, name)
<1>1. Len(name) \in Nat /\ name \in Seq(ToSet(name))
  BY RowFacts DEF IsRow
<1>2. ASSUME SiteMatches(e, name) PROVE Promise
  <2>1. CASE name \in Items(e, "exact")
    BY <2>1 DEF Items
  <2>2. CASE \E k \in Items(e, "keyword") : Within(k, name)
    BY <2>2 DEF Items
  <2>3. ASSUME NEW i \in 2 .. Len(name), SubSeq(name, i, Len(name)) \in Items(e, "suffix")
        PROVE  Promise
    <3>1. PICK j \in ToSet(e.items) : j.type = "suffix" /\ j.value = SubSeq(name, i, Len(name))
      BY <2>3 DEF Items
    <3>2. Len(j.value) = Len(name) - i + 1 /\ i \in Int
      BY <1>1, <2>3, <3>1
    <3>3. Len(name) - Len(j.value) + 1 = i /\ Len(j.value) <= Len(name)
      BY <1>1, <2>3, <3>2
    <3>4. IsTail(j.value, name)
      BY <3>1, <3>3 DEF IsTail
    <3> QED
      BY <3>1, <3>4
  <2> QED
    BY <1>2, <2>1, <2>2, <2>3 DEF SiteMatches
<1>3. ASSUME Promise PROVE SiteMatches(e, name)
  <2>1. PICK i \in ToSet(e.items) :
                  \/ i.type = "exact" /\ name = i.value
                  \/ i.type = "suffix" /\ IsTail(i.value, name)
                  \/ i.type = "keyword" /\ Within(i.value, name)
    BY <1>3
  <2>2. CASE i.type = "exact" /\ name = i.value
    BY <2>2 DEF SiteMatches, Items
  <2>3. CASE i.type = "keyword" /\ Within(i.value, name)
    BY <2>3 DEF SiteMatches, Items
  <2>4. CASE i.type = "suffix" /\ IsTail(i.value, name)
    <3> DEFINE d == i.value
               n == Len(name) - Len(d) + 1
    <3>1. IsRow(d) /\ d # <<>> /\ d \in Items(e, "suffix")
      BY <2>4 DEF Items
    <3> HIDE DEF d
    <3>2. Len(d) \in Nat /\ Len(d) # 0
      BY <3>1 DEF IsRow
    <3>3. Len(d) <= Len(name) /\ SubSeq(name, n, Len(name)) = d
      BY <2>4 DEF IsTail, d
    <3>4. n # 1
      <4> SUFFICES ASSUME n = 1 PROVE FALSE
        OBVIOUS
      <4>1. SubSeq(name, 1, Len(name)) = name
        BY <1>1
      <4> QED
        BY <3>1, <3>3, <4>1
    <3>5. n \in 2 .. Len(name)
      BY ONLY <1>1, <3>2, <3>3, <3>4
    <3>6. Bloom(Items(e, "suffix"), d)
      BY <3>1 DEF Bloom
    <3> HIDE DEF n
    <3> QED
      BY <3>1, <3>3, <3>5, <3>6 DEF SiteMatches
  <2> QED
    BY <2>1, <2>2, <2>3, <2>4
<1> QED
  BY <1>2, <1>3

\* A geoip rule finds the addresses inside the networks, or outside.
LEMMA IpFound ==
    ASSUME NEW e, IsRow(e.nets), ToSet(e.nets) \subseteq Int \X Int,
           NEW a \in Int \cup {NoAddr}
    PROVE  IpMatches(e, a)
           <=> a # NoAddr /\ e.inverse # \E n \in ToSet(e.nets) : n[1] <= a /\ a <= n[2]
<1>1. CASE a = NoAddr
  BY <1>1 DEF IpMatches
<1>2. CASE a # NoAddr
  <2>1. a \in Int
    BY <1>2
  <2> DEFINE P == V4Contains(Sorted(e.nets), a)
             Q == \E n \in ToSet(e.nets) : n[1] <= a /\ a <= n[2]
  <2>2. P <=> Q
    BY <2>1, Contained
  <2>3. P \in BOOLEAN /\ Q \in BOOLEAN
    BY DEF V4Contains
  <2>4. IpMatches(e, a) <=> P # e.inverse
    BY <1>2 DEF IpMatches
  <2> HIDE DEF P, Q
  <2>5. P = Q
    BY <2>2, <2>3
  <2>6. IpMatches(e, a) <=> e.inverse # Q
    BY <2>4, <2>5, Zenon
  <2> QED
    BY <1>2, <2>6, Zenon DEF Q
<1> QED
  BY <1>1, <1>2

\* What a rule of one criterion decides is what the documentation says of it.
LEMMA InnerHolds ==
    ASSUME NEW field \in Fields, NEW v, field = "domain_regex" => IsRow(v),
           NEW h \in Hosts, ~ OwnSuffix(h)
    PROVE  Inner(field, v, h) <=> Holds(field, v, h)
<1>1. IsRow(h.name) /\ h.addr \in Int \cup {NoAddr}
  BY RouterAssumption
<1>2. CASE field \in {"domain", "domain_suffix", "domain_keyword", "ip_cidr"}
  BY <1>2 DEF Holds
<1>3. CASE field = "domain_regex"
  <2>1. Inner(field, v, h) <=> Within(ExtractLiteral(v), h.name) /\ Search(v, h.name)
    BY <1>3 DEF Inner
  <2>2. Holds(field, v, h) <=> Search(v, h.name)
    BY <1>3 DEF Holds
  <2>3. Search(v, h.name) => Within(ExtractLiteral(v), h.name)
    BY <1>1, <1>3, LiteralFound
  <2> QED
    BY <2>1, <2>2, <2>3
<1>4. CASE field = "rule_set"
  <2> DEFINE Found(e) == \E i \in ToSet(e.items) :
                  \/ i.type = "exact" /\ h.name = i.value
                  \/ i.type = "suffix" /\ IsTail(i.value, h.name)
                  \/ i.type = "keyword" /\ Within(i.value, h.name)
  <2>1. Inner(field, v, h) <=> \E e \in SiteEntry(v) : SiteMatches(e, h.name)
    BY <1>4 DEF Inner
  <2>2. Holds(field, v, h) <=> \E e \in SiteEntry(v) : Found(e)
    BY <1>4 DEF Holds
  <2>3. ASSUME NEW e \in SiteEntry(v) PROVE SiteMatches(e, h.name) <=> Found(e)
    <3> DEFINE s == BySource(v, DefaultSite)[1]
    <3>1. e \in Read(SiteFiles, s)
      BY DEF SiteEntry
    <3> HIDE DEF s
    <3>2. s \in DOMAIN SiteFiles => IsRow(SiteFiles[s])
      BY RouterAssumption
    <3>3. s \in DOMAIN SiteFiles /\ e \in ToSet(SiteFiles[s]) \ {Bad}
      BY <3>1, <3>2, ReadFacts
    <3>4. \A i \in ToSet(e.items) : i.type = "suffix" => IsRow(i.value) /\ i.value # <<>>
      BY <3>3, RouterAssumption
    <3>5. h.name \notin Items(e, "suffix")
      BY <3>1, <3>3 DEF OwnSuffix
    <3> QED
      BY <1>1, <3>4, <3>5, SiteFound
  <2> HIDE DEF Found
  <2> QED
    BY <2>1, <2>2, <2>3
<1>5. CASE field = "geoip"
  <2> DEFINE Found(e) == h.addr # NoAddr /\
                  e.inverse # \E n \in ToSet(e.nets) : n[1] <= h.addr /\ h.addr <= n[2]
  <2>1. Inner(field, v, h) <=> \E e \in IpEntry(v) : IpMatches(e, h.addr)
    BY <1>5 DEF Inner
  <2>2. Holds(field, v, h) <=> \E e \in IpEntry(v) : Found(e)
    BY <1>5 DEF Holds
  <2>3. ASSUME NEW e \in IpEntry(v) PROVE IpMatches(e, h.addr) <=> Found(e)
    <3> DEFINE s == BySource(v, DefaultIp)[1]
    <3>1. e \in Read(IpFiles, s)
      BY DEF IpEntry
    <3> HIDE DEF s
    <3>2. s \in DOMAIN IpFiles => IsRow(IpFiles[s])
      BY RouterAssumption
    <3>3. s \in DOMAIN IpFiles /\ e \in ToSet(IpFiles[s]) \ {Bad}
      BY <3>1, <3>2, ReadFacts
    <3>4. IsRow(e.nets) /\ ToSet(e.nets) \subseteq Int \X Int
      BY <3>3, RouterAssumption
    <3> QED
      BY <1>1, <3>4, IpFound, Zenon
  <2> HIDE DEF Found
  <2> QED
    BY <2>1, <2>2, <2>3
<1> QED
  BY <1>2, <1>3, <1>4, <1>5 DEF Fields

-----------------------------------------------------------------------------
\* An entry as the parsers make it.
Parsed(e) ==
    /\ e.invert \in BOOLEAN /\ IsFiniteSet(e.crits)
    /\ \A k \in e.crits : /\ IsRow(k.values)
                          /\ k.field = "domain_regex" =>
                                \A v \in ToSet(k.values) \ {Bad} : IsRow(v)

\* The rules R do for h what was said of h, and send to a.
Speak(R, h, said, a) ==
    /\ \A i \in DOMAIN R : R[i].action = a
    /\ (\E i \in DOMAIN R : Matches(R[i], h)) <=> said

\* The values of a field that hold for a host are those whose rules match it.
LEMMA FieldHolds ==
    ASSUME NEW e, Parsed(e), NEW c \in Criteria(e), NEW h \in Hosts, ~ OwnSuffix(h)
    PROVE  /\ (\E r \in ExpandField(c) : Inner(r[1], r[2], h))
              <=> \E v \in ToSet(c.values) : Makes(c.field, v) /\ Holds(c.field, v, h)
           /\ ExpandField(c) = {} <=> ~ \E v \in ToSet(c.values) : Makes(c.field, v)
<1>1. c.field \in Fields
  BY DEF Criteria
<1>2. ASSUME NEW v \in ToSet(c.values), Makes(c.field, v)
      PROVE  Inner(c.field, v, h) <=> Holds(c.field, v, h)
  <2>1. c.field = "domain_regex" => IsRow(v)
    BY <1>2 DEF Parsed, Criteria, Makes
  <2> QED
    BY <1>1, <2>1, InnerHolds
<1>3. \A r : r \in ExpandField(c)
             <=> \E v \in ToSet(c.values) : Makes(c.field, v) /\ r = <<c.field, v>>
  BY DEF ExpandField
<1>4. (\E r \in ExpandField(c) : Inner(r[1], r[2], h))
      <=> \E v \in ToSet(c.values) : Makes(c.field, v) /\ Inner(c.field, v, h)
  <2>1. ASSUME NEW r \in ExpandField(c), Inner(r[1], r[2], h)
        PROVE  \E v \in ToSet(c.values) : Makes(c.field, v) /\ Inner(c.field, v, h)
    <3>1. PICK v \in ToSet(c.values) : Makes(c.field, v) /\ r = <<c.field, v>>
      BY <1>3
    <3>2. r[1] = c.field /\ r[2] = v
      BY <3>1
    <3> QED
      BY <2>1, <3>1, <3>2
  <2>2. ASSUME NEW v \in ToSet(c.values), Makes(c.field, v), Inner(c.field, v, h)
        PROVE  \E r \in ExpandField(c) : Inner(r[1], r[2], h)
    <3>1. <<c.field, v>> \in ExpandField(c)
      BY <1>3, <2>2
    <3>2. <<c.field, v>>[1] = c.field /\ <<c.field, v>>[2] = v
      OBVIOUS
    <3>3. Inner(<<c.field, v>>[1], <<c.field, v>>[2], h)
      BY <2>2, <3>2, Zenon
    <3> QED
      BY <3>1, <3>3, Zenon
  <2> QED
    BY <2>1, <2>2
<1>5. ExpandField(c) = {} <=> ~ \E v \in ToSet(c.values) : Makes(c.field, v)
  BY <1>3
<1> QED
  BY <1>2, <1>4, <1>5

\* mode "and": one rule, or none if a field expands to nothing.
LEMMA AndRow == ASSUME NEW e PROVE IsRow(AndRules(e))
<1>1. IsRow(<<>>)
  BY DEF IsRow
<1>2. ASSUME NEW r PROVE IsRow(<<r>>)
  <2>1. <<r>> \in Seq({r})
    OBVIOUS
  <2> QED
    BY <2>1, RowOf
<1> QED
  BY <1>1, <1>2 DEF AndRules

LEMMA AndSpeaks ==
    ASSUME NEW e, Parsed(e), Usable(e), UsesAnd(e), NEW h \in Hosts, ~ OwnSuffix(h)
    PROVE  Speak(AndRules(e), h, Says(e, h), e.action)
<1> DEFINE groups == {ExpandField(c) : c \in Criteria(e)}
           F(c) == \E v \in ToSet(c.values) : Makes(c.field, v) /\ Holds(c.field, v, h)
           Made(c) == \E v \in ToSet(c.values) : Makes(c.field, v)
           G(g) == \E r \in g : Inner(r[1], r[2], h)
<1>1. AndRules(e) = IF {} \in groups THEN <<>> ELSE <<Rule(groups, e.action, e.invert)>>
  BY DEF AndRules
<1>2. Says(e, h) <=> (\A c \in Criteria(e) : Made(c)) /\ e.invert # \A c \in Criteria(e) : F(c)
  BY Zenon DEF Says
<1>3. \A c \in Criteria(e) : (G(ExpandField(c)) <=> F(c)) /\ (ExpandField(c) = {} <=> ~ Made(c))
  BY FieldHolds
<1>4. \A g : g \in groups <=> \E c \in Criteria(e) : g = ExpandField(c)
  OBVIOUS
<1>5. {} \in groups <=> ~ \A c \in Criteria(e) : Made(c)
  <2> HIDE DEF groups, Made
  <2> QED
    BY <1>3, <1>4
<1>6. (\A g \in groups : G(g)) <=> \A c \in Criteria(e) : F(c)
  <2> HIDE DEF groups, F, G
  <2> QED
    BY <1>3, <1>4
<1>7. CASE {} \in groups
  <2>1. AndRules(e) = <<>> /\ ~ Says(e, h)
    BY <1>1, <1>2, <1>5, <1>7, Zenon
  <2>2. DOMAIN <<>> = {}
    OBVIOUS
  <2> QED
    BY <2>1, <2>2 DEF Speak
<1>8. CASE {} \notin groups
  <2> DEFINE r == Rule(groups, e.action, e.invert)
  <2>1. AndRules(e) = <<r>>
    BY <1>1, <1>8, Zenon
  <2>2. r.action = e.action /\ r.invert = e.invert /\ r.groups = groups
    BY DEF Rule
  <2>3. Matches(r, h) <=> e.invert # \A g \in groups : G(g)
    BY <2>2, Zenon DEF Matches
  <2>4. (\A g \in groups : G(g)) = \A c \in Criteria(e) : F(c)
    <3> HIDE DEF groups, F, G
    <3> QED
      BY <1>6
  <2>5. Matches(r, h) <=> Says(e, h)
    BY <1>2, <1>5, <1>8, <2>3, <2>4, Zenon
  <2> HIDE DEF r
  <2>6. DOMAIN <<r>> = {1} /\ <<r>>[1] = r
    OBVIOUS
  <2>7. Speak(<<r>>, h, Says(e, h), e.action)
    BY <2>2, <2>5, <2>6 DEF Speak
  <2> QED
    BY <2>1, <2>7
<1> QED
  BY <1>7, <1>8

\* Otherwise a rule for every value of every field ...
OrSet(e) == {Rule({{c}}, e.action, e.invert) : c \in UNION {ExpandField(k) : k \in Criteria(e)}}

LEMMA OrRow ==
    ASSUME NEW e, Parsed(e)
    PROVE  /\ IsRow(OrRules(e)) /\ \A i \in DOMAIN OrRules(e) : OrRules(e)[i] \in OrSet(e)
           /\ \A x \in OrSet(e) : \E i \in DOMAIN OrRules(e) : OrRules(e)[i] = x
<1> DEFINE C == UNION {ExpandField(k) : k \in Criteria(e)}
           S == OrSet(e)
           R == OrRules(e)
<1>1. IsFiniteSet(C)
  <2>1. IsFiniteSet(Criteria(e))
    <3>1. Criteria(e) \subseteq e.crits
      BY DEF Criteria
    <3> QED
      BY <3>1, FS_Subset DEF Parsed
  <2>2. ASSUME NEW k \in Criteria(e) PROVE IsFiniteSet(ExpandField(k))
    <3> DEFINE V == {w \in ToSet(k.values) : Makes(k.field, w)}
               f == [v \in V |-> <<k.field, v>>]
    <3>1. IsFiniteSet(ToSet(k.values))
      BY RowFacts DEF Parsed, Criteria
    <3>2. IsFiniteSet(V)
      BY <3>1, FS_Subset
    <3>3. DOMAIN f = V /\ {f[v] : v \in DOMAIN f} = ExpandField(k)
      BY DEF ExpandField
    <3> HIDE DEF f, V
    <3> QED
      BY <3>2, <3>3, FiniteRange
  <2> DEFINE g == [k \in Criteria(e) |-> ExpandField(k)]
  <2>3. DOMAIN g = Criteria(e) /\ {g[k] : k \in DOMAIN g} = {ExpandField(k) : k \in Criteria(e)}
    OBVIOUS
  <2> HIDE DEF g
  <2>4. IsFiniteSet({ExpandField(k) : k \in Criteria(e)})
    BY <2>1, <2>3, FiniteRange
  <2> QED
    BY <2>2, <2>4, FS_UNION
<1>2. IsFiniteSet(S)
  <2> DEFINE f == [c \in C |-> Rule({{c}}, e.action, e.invert)]
  <2>1. DOMAIN f = C /\ {f[c] : c \in DOMAIN f} = S
    BY DEF OrSet
  <2> HIDE DEF f, S, C
  <2> QED
    BY <1>1, <2>1, FiniteRange
<1>3. R = SetToSeq(S)
  BY DEF OrRules, OrSet
<1>4. R \in Seq(S) /\ \A x \in S : \E i \in DOMAIN R : R[i] = x
  <2> HIDE DEF S, R
  <2> QED
    BY <1>2, <1>3, RowOfSet
<1>5. IsRow(R)
  <2> HIDE DEF S, R
  <2> QED
    BY <1>4, RowOf
<1>6. ASSUME NEW i \in DOMAIN R PROVE R[i] \in S
  <2> HIDE DEF S, R
  <2> QED
    BY <1>4
<1> QED
  BY <1>4, <1>5, <1>6

\* ... and of an inverted entry one value only.
LEMMA OrSpeaks ==
    ASSUME NEW e, Parsed(e), Usable(e), ~ UsesAnd(e), ~ SplitInvert(e),
           NEW h \in Hosts, ~ OwnSuffix(h)
    PROVE  Speak(OrRules(e), h, Says(e, h), e.action)
<1> DEFINE C == UNION {ExpandField(k) : k \in Criteria(e)}
           S == OrSet(e)
           R == OrRules(e)
           F(c) == \E v \in ToSet(c.values) : Makes(c.field, v) /\ Holds(c.field, v, h)
           Made(c) == \E v \in ToSet(c.values) : Makes(c.field, v)
           Hit(c) == Inner(c[1], c[2], h)
<1>5. /\ IsRow(R) /\ \A i \in DOMAIN R : R[i] \in S
      /\ \A x \in S : \E i \in DOMAIN R : R[i] = x
  BY OrRow
<1>7. ASSUME NEW c \in C
      PROVE  LET r == Rule({{c}}, e.action, e.invert)
             IN  r.action = e.action /\ (Matches(r, h) <=> IF e.invert THEN ~ Hit(c) ELSE Hit(c))
  <2> DEFINE r == Rule({{c}}, e.action, e.invert)
  <2>1. r.action = e.action /\ r.invert = e.invert /\ r.groups = {{c}}
    BY DEF Rule
  <2> HIDE DEF r
  <2>2. (\A g \in {{c}} : \E x \in g : Hit(x)) <=> Hit(c)
    <3> HIDE DEF Hit
    <3> QED
      OBVIOUS
  <2>3. Matches(r, h) <=> e.invert # \A g \in {{c}} : \E x \in g : Hit(x)
    BY <2>1, Zenon DEF Matches
  <2>4. e.invert \in BOOLEAN
    BY DEF Parsed
  <2> HIDE DEF Hit
  <2>5. Matches(r, h) <=> IF e.invert THEN ~ Hit(c) ELSE Hit(c)
    BY <2>2, <2>3, <2>4
  <2> QED
    BY <2>1, <2>5 DEF r
<1>8. ASSUME NEW i \in DOMAIN R PROVE \E c \in C : R[i] = Rule({{c}}, e.action, e.invert)
  BY <1>5 DEF OrSet
<1>9. ASSUME NEW c \in C PROVE \E i \in DOMAIN R : R[i] = Rule({{c}}, e.action, e.invert)
  BY <1>5 DEF OrSet
<1> HIDE DEF R, S
<1>10. \A i \in DOMAIN R : R[i].action = e.action
  <2> HIDE DEF C, Hit
  <2> QED
    BY <1>7, <1>8
<1>11. (\E i \in DOMAIN R : Matches(R[i], h))
       <=> \E c \in C : IF e.invert THEN ~ Hit(c) ELSE Hit(c)
  <2> HIDE DEF C, Hit
  <2> QED
    BY <1>7, <1>8, <1>9
<1>12. (\E c \in C : Hit(c)) <=> \E k \in Criteria(e) : F(k)
  <2>1. \A k \in Criteria(e) : (\E c \in ExpandField(k) : Hit(c)) <=> F(k)
    BY FieldHolds
  <2>2. \A c : c \in C <=> \E k \in Criteria(e) : c \in ExpandField(k)
    OBVIOUS
  <2> HIDE DEF C, Hit, F
  <2> QED
    BY <2>1, <2>2
<1>13. C = {} <=> ~ \E k \in Criteria(e) : Made(k)
  <2>1. \A k \in Criteria(e) : ExpandField(k) = {} <=> ~ Made(k)
    BY FieldHolds
  <2>2. \A c : c \in C <=> \E k \in Criteria(e) : c \in ExpandField(k)
    OBVIOUS
  <2> HIDE DEF C, Made
  <2> QED
    BY <2>1, <2>2
<1>14. Says(e, h) <=> C # {} /\ IF e.invert THEN ~ \E c \in C : Hit(c) ELSE \E c \in C : Hit(c)
  <2>1. Says(e, h) <=> (\E c \in Criteria(e) : Made(c)) /\ e.invert # \E c \in Criteria(e) : F(c)
    BY Zenon DEF Says
  <2>2. e.invert \in BOOLEAN
    BY DEF Parsed
  <2> HIDE DEF C, Hit, F, Made
  <2> QED
    BY <1>12, <1>13, <2>1, <2>2
<1>15. Speak(R, h, Says(e, h), e.action)
  <2>1. CASE ~ e.invert
    <3> HIDE DEF C, Hit
    <3> QED
      BY <1>10, <1>11, <1>14, <2>1 DEF Speak
  <2>2. CASE e.invert
    <3>1. ~ (Len(R) > 1)
      BY <2>2 DEF SplitInvert, R
    <3>2. Len(R) \in Nat /\ DOMAIN R = 1 .. Len(R)
      BY <1>5, RowFacts
    <3>3. \A i, j \in DOMAIN R : i = j
      BY <3>1, <3>2
    <3>4. ASSUME NEW c \in C, NEW d \in C PROVE c = d
      <4>1. Rule({{c}}, e.action, e.invert) = Rule({{d}}, e.action, e.invert)
        BY <1>9, <3>3
      <4>2. {{c}} = {{d}}
        BY <4>1 DEF Rule
      <4> QED
        BY <4>2
    <3> HIDE DEF C, Hit
    <3>5. (\E c \in C : ~ Hit(c)) <=> C # {} /\ ~ \E c \in C : Hit(c)
      BY <3>4
    <3> QED
      BY <1>10, <1>11, <1>14, <2>2, <3>5 DEF Speak
  <2> QED
    BY <2>1, <2>2
<1> QED
  BY <1>15 DEF R

-----------------------------------------------------------------------------
\* What the rules R and the default d made of the first n entries of c do: the
\* default is that of the last FINAL line so far, and a host goes where the first
\* entry that speaks of it says.
Ends(c, n) == {i \in Finals(c) : i <= n}
DefaultAt(c, d, n) ==
    \/ /\ Ends(c, n) = {}
       /\ d = IF c.style = "struct" /\ c.final # NoRule THEN c.final ELSE InitialDefault
    \/ \E i \in Ends(c, n) : (\A j \in Ends(c, n) : j <= i) /\ d = Outbound(c, i)

Hits(R, h) == {i \in DOMAIN R : Matches(R[i], h)}
Said(c, n, h) == {i \in 1 .. n : Speaks(c, i, h)}
Agree(c, R, n, h) ==
    \/ Hits(R, h) = {} /\ Said(c, n, h) = {}
    \/ \E i \in Hits(R, h) : \E k \in Said(c, n, h) :
          /\ \A j \in Hits(R, h) : i <= j
          /\ \A j \in Said(c, n, h) : k <= j
          /\ R[i].action = Outbound(c, k)

Entries(c, n) == SubSeq(c.rules, n + 1, Len(c.rules))
Others == {g \in Hosts : ~ OwnSuffix(g)}
Follows(c, d, R, n) ==
    DefaultAt(c, d, n) /\ (Plainly(c) => \A h \in Others : Agree(c, R, n, h))

RouterInv ==
    /\ config \in Configs /\ IsRow(rules)
    /\ \E n \in 0 .. Len(config.rules) :
          rest = Entries(config, n) /\ Follows(config, default, rules, n)

LEMMA RouterInitInv == RouterInit => RouterInv
<1> SUFFICES ASSUME RouterInit PROVE RouterInv
  OBVIOUS
<1>1. config \in Configs /\ IsRow(config.rules) /\ rest = config.rules /\ rules = <<>>
  BY RouterAssumption DEF RouterInit
<1>2. IsRow(rules)
  BY <1>1 DEF IsRow
<1>3. Len(config.rules) \in Nat /\ DOMAIN config.rules = 1 .. Len(config.rules)
  BY <1>1, RowFacts
<1>4. rest = Entries(config, 0)
  BY <1>1 DEF IsRow, Entries
<1>5. Ends(config, 0) = {}
  BY <1>3 DEF Ends, Finals
<1>6. DefaultAt(config, default, 0)
  BY <1>5 DEF DefaultAt, RouterInit
<1>7. ASSUME NEW h PROVE Agree(config, rules, 0, h)
  <2>1. Hits(rules, h) = {} /\ Said(config, 0, h) = {}
    BY <1>1 DEF Hits, Said
  <2> QED
    BY <2>1 DEF Agree
<1>8. Follows(config, default, rules, 0)
  BY <1>6, <1>7 DEF Follows
<1> QED
  BY <1>1, <1>2, <1>3, <1>4, <1>8 DEF RouterInv

\* One more entry, and the rules Q made of it.
LEMMA AgreeStep ==
    ASSUME NEW R, IsRow(R), NEW Q, IsRow(Q), NEW c, NEW n \in Nat, NEW h, Agree(c, R, n, h),
           Speak(Q, h, Speaks(c, n + 1, h), Outbound(c, n + 1))
    PROVE  Agree(c, R \o Q, n + 1, h)
<1> DEFINE L == Len(R)
           P == R \o Q
<1>1. /\ L \in Nat /\ DOMAIN R = 1 .. L /\ Len(Q) \in Nat /\ DOMAIN Q = 1 .. Len(Q)
      /\ DOMAIN P = 1 .. L + Len(Q)
      /\ \A i \in 1 .. L : P[i] = R[i]
      /\ \A i \in 1 .. Len(Q) : P[L + i] = Q[i]
  <2>1. R \in Seq(ToSet(R) \cup ToSet(Q)) /\ Q \in Seq(ToSet(R) \cup ToSet(Q))
    BY DEF IsRow
  <2> QED
    BY <2>1
<1> HIDE DEF P, L
<1>2. \A i : i \in Said(c, n + 1, h) <=> i \in Said(c, n, h) \/ (i = n + 1 /\ Speaks(c, i, h))
  BY DEF Said
<1>3. \A i \in Said(c, n, h) : i \in 1 .. n
  BY DEF Said
<1>4. \A i \in Hits(R, h) : i \in 1 .. L /\ i \in Hits(P, h)
  BY <1>1 DEF Hits
<1>5. \A i \in Hits(P, h) : i \in 1 .. L + Len(Q) /\ (i <= L => i \in Hits(R, h))
  BY <1>1 DEF Hits
<1>6. CASE Hits(R, h) = {} /\ Said(c, n, h) = {}
  <2>1. CASE Speaks(c, n + 1, h)
    <3> DEFINE K == {i \in DOMAIN Q : Matches(Q[i], h)}
    <3>1. K \subseteq Nat /\ K # {}
      BY <1>1, <2>1 DEF Speak
    <3>2. PICK k \in K : \A x \in K : k <= x
      <4> HIDE DEF K
      <4> QED
        BY <3>1, Least
    <3>3. k \in 1 .. Len(Q) /\ P[L + k] = Q[k] /\ L + k \in DOMAIN P
      BY <1>1, <3>2
    <3>4. L + k \in Hits(P, h) /\ P[L + k].action = Outbound(c, n + 1)
      BY <1>1, <3>2, <3>3 DEF Hits, Speak
    <3>5. ASSUME NEW j \in Hits(P, h) PROVE L + k <= j
      <4>1. j \in 1 .. L + Len(Q) /\ ~ (j <= L)
        BY <1>5, <1>6
      <4>2. j - L \in 1 .. Len(Q) /\ P[L + (j - L)] = Q[j - L] /\ L + (j - L) = j
        BY <1>1, <4>1
      <4>3. j - L \in K
        BY <1>1, <4>2 DEF Hits
      <4>4. k <= j - L
        BY <3>2, <4>3
      <4> QED
        BY <1>1, <3>3, <4>1, <4>4
    <3>6. n + 1 \in Said(c, n + 1, h) /\ \A j \in Said(c, n + 1, h) : n + 1 <= j
      BY <1>2, <1>6, <2>1
    <3> QED
      BY <3>4, <3>5, <3>6 DEF Agree, P
  <2>2. CASE ~ Speaks(c, n + 1, h)
    <3>1. Said(c, n + 1, h) = {}
      BY <1>2, <1>6, <2>2
    <3>2. ASSUME NEW i \in Hits(P, h) PROVE FALSE
      <4>1. i \in 1 .. L + Len(Q) /\ ~ (i <= L) /\ Matches(P[i], h)
        BY <1>5, <1>6 DEF Hits
      <4>2. i - L \in 1 .. Len(Q) /\ P[L + (i - L)] = Q[i - L] /\ L + (i - L) = i
        BY <1>1, <4>1
      <4>3. i - L \in DOMAIN Q /\ Matches(Q[i - L], h)
        BY <1>1, <4>1, <4>2
      <4> QED
        BY <2>2, <4>3 DEF Speak
    <3> QED
      BY <3>1, <3>2 DEF Agree, P
  <2> QED
    BY <2>1, <2>2
<1>7. CASE \E i \in Hits(R, h) : \E k \in Said(c, n, h) :
              /\ \A j \in Hits(R, h) : i <= j
              /\ \A j \in Said(c, n, h) : k <= j
              /\ R[i].action = Outbound(c, k)
  <2>1. PICK i \in Hits(R, h), k \in Said(c, n, h) :
              /\ \A j \in Hits(R, h) : i <= j
              /\ \A j \in Said(c, n, h) : k <= j
              /\ R[i].action = Outbound(c, k)
    BY <1>7
  <2>2. i \in Hits(P, h) /\ k \in Said(c, n + 1, h) /\ P[i].action = Outbound(c, k)
    BY <1>1, <1>2, <1>4, <2>1
  <2>3. ASSUME NEW j \in Hits(P, h) PROVE i <= j
    <3>1. i \in 1 .. L /\ j \in 1 .. L + Len(Q) /\ (j <= L => i <= j)
      BY <1>4, <1>5, <2>1
    <3> QED
      BY <1>1, <3>1
  <2>4. ASSUME NEW j \in Said(c, n + 1, h) PROVE k <= j
    <3>1. k \in 1 .. n
      BY <1>3
    <3> QED
      BY <1>2, <2>1, <3>1
  <2> QED
    BY <2>2, <2>3, <2>4 DEF Agree, P
<1> QED
  BY <1>6, <1>7 DEF Agree

\* The entry read next.
LEMMA NextEntry ==
    ASSUME NEW c, IsRow(c.rules), NEW n \in 0 .. Len(c.rules), Entries(c, n) # <<>>
    PROVE  /\ n + 1 \in DOMAIN c.rules /\ n + 1 \in 0 .. Len(c.rules)
           /\ Head(Entries(c, n)) = c.rules[n + 1]
           /\ Tail(Entries(c, n)) = Entries(c, n + 1)
<1> DEFINE s == c.rules
<1>1. s \in Seq(ToSet(s)) /\ Len(s) \in Nat /\ DOMAIN s = 1 .. Len(s)
  BY RowFacts DEF IsRow
<1> HIDE DEF s
<1>2. n + 1 <= Len(s)
  <2> SUFFICES ASSUME n = Len(s) PROVE FALSE
    BY <1>1 DEF s
  <2>1. SubSeq(s, n + 1, Len(s)) = <<>>
    BY <1>1
  <2> QED
    BY <2>1 DEF Entries, s
<1>3. /\ Head(SubSeq(s, n + 1, Len(s))) = s[n + 1]
      /\ Tail(SubSeq(s, n + 1, Len(s))) = SubSeq(s, n + 1 + 1, Len(s))
  BY <1>1, <1>2, HeadTailOfSubSeq DEF s
<1> QED
  BY <1>1, <1>2, <1>3 DEF s, Entries

LEMMA RowConcat ==
    ASSUME NEW R, IsRow(R), NEW Q, IsRow(Q)
    PROVE  IsRow(R \o Q)
<1>1. R \o Q \in Seq(ToSet(R) \cup ToSet(Q))
  BY DEF IsRow
<1> QED
  BY <1>1, RowOf

LEMMA EmptySpeaks ==
    ASSUME NEW R, IsRow(R)
    PROVE  /\ IsRow(<<>>) /\ R \o <<>> = R /\ \A x : R \o <<x>> = Append(R, x)
           /\ \A h, said, a : ~ said => Speak(<<>>, h, said, a)
<1>1. IsRow(<<>>) /\ R \o <<>> = R /\ DOMAIN <<>> = {}
  BY DEF IsRow
<1>2. ASSUME NEW x PROVE R \o <<x>> = Append(R, x)
  <2>1. R \in Seq(ToSet(R) \cup {x})
    BY DEF IsRow
  <2> QED
    BY <2>1
<1> QED
  BY <1>1, <1>2 DEF Speak

LEMMA EndsStep ==
    ASSUME NEW c, NEW n \in Nat, IsRow(c.rules)
    PROVE  \A i : i \in Ends(c, n + 1) <=> i \in Ends(c, n) \/ (i = n + 1 /\ i \in Finals(c))
<1>1. \A i \in Finals(c) : i \in Int
  BY RowFacts DEF Finals
<1> QED
  BY <1>1 DEF Ends

\* One more entry, in all.
LEMMA FollowStep ==
    ASSUME NEW c, NEW d, NEW d2, NEW R, IsRow(R), NEW Q, IsRow(Q), NEW n \in Nat,
           Follows(c, d, R, n), DefaultAt(c, d2, n + 1),
           Plainly(c) => \A h \in Others :
                            Speak(Q, h, Speaks(c, n + 1, h), Outbound(c, n + 1))
    PROVE  Follows(c, d2, R \o Q, n + 1)
<1>1. ASSUME NEW h \in Others, Plainly(c) PROVE Agree(c, R \o Q, n + 1, h)
  <2>1. Agree(c, R, n, h) /\ Speak(Q, h, Speaks(c, n + 1, h), Outbound(c, n + 1))
    BY <1>1 DEF Follows
  <2> QED
    BY <2>1, AgreeStep
<1> QED
  BY <1>1 DEF Follows

LEMMA StructStep == RouterInv /\ ApplyStructured => RouterInv'
<1> SUFFICES ASSUME RouterInv, ApplyStructured PROVE RouterInv'
  OBVIOUS
<1> DEFINE e == Head(rest)
           Q == IF ~ Usable(e) THEN <<>> ELSE IF UsesAnd(e) THEN AndRules(e) ELSE OrRules(e)
<1>1. PICK n \in 0 .. Len(config.rules) :
          rest = Entries(config, n) /\ Follows(config, default, rules, n)
  BY DEF RouterInv
<1>2. config \in Configs /\ IsRow(rules) /\ IsRow(config.rules) /\ config.style = "struct"
  BY RouterAssumption DEF RouterInv, ApplyStructured
<1>3. /\ n + 1 \in DOMAIN config.rules /\ n + 1 \in 0 .. Len(config.rules) /\ n \in Nat
      /\ e = config.rules[n + 1] /\ Tail(rest) = Entries(config, n + 1)
  <2>1. rest # <<>>
    BY DEF ApplyStructured
  <2>2. n + 1 \in DOMAIN config.rules /\ Head(rest) = config.rules[n + 1]
        /\ Tail(rest) = Entries(config, n + 1) /\ n + 1 <= Len(config.rules)
    BY ONLY <1>1, <1>2, <2>1, NextEntry
  <2>3. Len(config.rules) \in Nat
    BY <1>2, RowFacts
  <2> QED
    BY ONLY <2>2, <2>3
<1>4. Parsed(e)
  <2>1. config.rules[n + 1] \in ToSet(config.rules)
    BY <1>3 DEF ToSet
  <2> QED
    BY <1>2, <1>3, <2>1, RouterAssumption DEF Parsed
<1>5. /\ rules' = rules \o Q /\ rest' = Entries(config, n + 1)
      /\ config' = config /\ default' = default
  <2>1. rules \o <<>> = rules
    BY <1>2, EmptySpeaks
  <2> QED
    BY <1>3, <2>1 DEF ApplyStructured
<1> HIDE DEF e
<1>6. IsRow(Q)
  BY <1>2, <1>4, EmptySpeaks, AndRow, OrRow
<1>7. ASSUME NEW h \in Others, Plainly(config)
      PROVE  Speak(Q, h, Speaks(config, n + 1, h), Outbound(config, n + 1))
  <2>1. Speaks(config, n + 1, h) = Says(e, h) /\ Outbound(config, n + 1) = e.action
    BY <1>2, <1>3 DEF Speaks, Outbound
  <2>2. ~ SplitInvert(e)
    BY <1>2, <1>3, <1>7 DEF Plainly
  <2>3. h \in Hosts /\ ~ OwnSuffix(h)
    BY DEF Others
  <2>4. CASE ~ Usable(e)
    <3>1. Q = <<>> /\ ~ Says(e, h)
      BY <2>4 DEF Says
    <3> QED
      BY <1>2, <2>1, <3>1, EmptySpeaks
  <2>5. CASE Usable(e) /\ UsesAnd(e)
    <3>1. Q = AndRules(e)
      BY <2>5
    <3> QED
      BY <1>4, <2>1, <2>3, <2>5, <3>1, AndSpeaks
  <2>6. CASE Usable(e) /\ ~ UsesAnd(e)
    <3>1. Q = OrRules(e)
      BY <2>6
    <3> QED
      BY <1>4, <2>1, <2>2, <2>3, <2>6, <3>1, OrSpeaks
  <2> QED
    BY <2>4, <2>5, <2>6
<1> HIDE DEF Q
<1>8. DefaultAt(config, default, n + 1)
  <2>1. Ends(config, n) = {} /\ Ends(config, n + 1) = {}
    BY <1>2 DEF Ends, Finals
  <2> QED
    BY <1>1, <2>1 DEF DefaultAt, Follows
<1>9. Follows(config, default, rules \o Q, n + 1)
  BY <1>1, <1>2, <1>3, <1>6, <1>7, <1>8, FollowStep
<1>10. IsRow(rules \o Q)
  BY <1>2, <1>6, RowConcat
<1> QED
  BY <1>2, <1>3, <1>5, <1>9, <1>10 DEF RouterInv

\* A line of the old format makes a rule of one criterion.
LEMMA LineSpeaks ==
    ASSUME NEW l, l.field \in Fields, Mapped(l.action) \in Actions, Makes(l.field, l.value),
           l.field = "domain_regex" /\ l.value # Bad => IsRow(l.value),
           NEW h \in Hosts, ~ OwnSuffix(h)
    PROVE  Speak(<<Rule({{<<l.field, l.value>>}}, Mapped(l.action), FALSE)>>, h, LineSays(l, h),
                 Mapped(l.action))
<1> DEFINE c == <<l.field, l.value>>
           r == Rule({{c}}, Mapped(l.action), FALSE)
<1>1. r.groups = {{c}} /\ r.action = Mapped(l.action) /\ r.invert = FALSE
  BY DEF Rule
<1>2. c[1] = l.field /\ c[2] = l.value
  OBVIOUS
<1> HIDE DEF r, c
<1>3. Matches(r, h) <=> Inner(c[1], c[2], h)
  <2> DEFINE Hit(x) == Inner(x[1], x[2], h)
  <2>1. (\A g \in {{c}} : \E x \in g : Hit(x)) <=> Hit(c)
    <3> HIDE DEF Hit
    <3> QED
      OBVIOUS
  <2>2. Matches(r, h) <=> FALSE # \A g \in {{c}} : \E x \in g : Hit(x)
    BY <1>1, Zenon DEF Matches
  <2> HIDE DEF Hit
  <2>3. Matches(r, h) <=> Hit(c)
    BY <2>1, <2>2
  <2> QED
    BY <2>3 DEF Hit
<1>4. Inner(l.field, l.value, h) <=> Holds(l.field, l.value, h)
  BY InnerHolds DEF Makes
<1>5. Matches(r, h) <=> LineSays(l, h)
  BY <1>2, <1>3, <1>4, Zenon DEF LineSays
<1>6. DOMAIN <<r>> = {1} /\ <<r>>[1] = r
  OBVIOUS
<1>7. Speak(<<r>>, h, LineSays(l, h), Mapped(l.action))
  BY <1>1, <1>5, <1>6 DEF Speak
<1> QED
  BY <1>7 DEF r, c

LEMMA CsvStep == RouterInv /\ ApplyCsv => RouterInv'
<1> SUFFICES ASSUME RouterInv, ApplyCsv PROVE RouterInv'
  OBVIOUS
<1> DEFINE l == Head(rest)
           Kept == l.field \in Fields /\ Mapped(l.action) \in Actions /\ Makes(l.field, l.value)
           r == Rule({{<<l.field, l.value>>}}, Mapped(l.action), FALSE)
           Q == IF Kept THEN <<r>> ELSE <<>>
<1>1. PICK n \in 0 .. Len(config.rules) :
          rest = Entries(config, n) /\ Follows(config, default, rules, n)
  BY DEF RouterInv
<1>2. config \in Configs /\ IsRow(rules) /\ IsRow(config.rules) /\ config.style = "csv"
  BY RouterAssumption DEF RouterInv, ApplyCsv
<1>3. /\ n + 1 \in DOMAIN config.rules /\ n + 1 \in 0 .. Len(config.rules) /\ n \in Nat
      /\ l = config.rules[n + 1] /\ Tail(rest) = Entries(config, n + 1)
  <2>1. rest # <<>>
    BY DEF ApplyCsv
  <2>2. n + 1 \in DOMAIN config.rules /\ Head(rest) = config.rules[n + 1]
        /\ Tail(rest) = Entries(config, n + 1) /\ n + 1 <= Len(config.rules)
    BY ONLY <1>1, <1>2, <2>1, NextEntry
  <2>3. Len(config.rules) \in Nat
    BY <1>2, RowFacts
  <2> QED
    BY ONLY <2>2, <2>3
<1>4. l.field = "domain_regex" /\ l.value # Bad => IsRow(l.value)
  <2>1. config.rules[n + 1] \in ToSet(config.rules)
    BY <1>3 DEF ToSet
  <2>2. config.rules[n + 1].field = "domain_regex" /\ config.rules[n + 1].value # Bad
        => IsRow(config.rules[n + 1].value)
    BY <1>2, <2>1, RouterAssumption
  <2> QED
    BY <1>3, <2>2
<1>5. /\ rules' = rules \o Q /\ rest' = Entries(config, n + 1) /\ config' = config
      /\ default' = IF l.field = "FINAL" THEN Mapped(l.action) ELSE default
  <2>1. rules \o <<>> = rules
    BY <1>2, EmptySpeaks
  <2>2. rules \o <<r>> = Append(rules, r)
    BY <1>2, EmptySpeaks
  <2>3. l.field = "FINAL" => ~ Kept
    BY DEF Fields
  <2> HIDE DEF r
  <2>4. rules' = rules \o Q
    BY <2>1, <2>2, <2>3 DEF ApplyCsv, r
  <2> QED
    BY <1>3, <2>4 DEF ApplyCsv
<1> HIDE DEF l
<1>6. IsRow(Q)
  <2>1. <<r>> \in Seq({r})
    OBVIOUS
  <2> QED
    BY <1>2, <2>1, RowOf, EmptySpeaks
<1>7. ASSUME NEW h \in Others
      PROVE  Speak(Q, h, Speaks(config, n + 1, h), Outbound(config, n + 1))
  <2>1. Speaks(config, n + 1, h) = LineSays(l, h) /\ Outbound(config, n + 1) = Mapped(l.action)
    BY <1>2, <1>3 DEF Speaks, Outbound
  <2>2. h \in Hosts /\ ~ OwnSuffix(h)
    BY DEF Others
  <2>3. CASE Kept
    BY <1>4, <2>1, <2>2, <2>3, LineSpeaks
  <2>4. CASE ~ Kept
    <3>1. Q = <<>> /\ ~ LineSays(l, h)
      BY <2>4 DEF LineSays
    <3> QED
      BY <1>2, <2>1, <3>1, EmptySpeaks
  <2> QED
    BY <2>3, <2>4
<1> HIDE DEF Q
<1>8. DefaultAt(config, default', n + 1)
  <2>1. \A i : i \in Ends(config, n + 1)
               <=> i \in Ends(config, n) \/ (i = n + 1 /\ i \in Finals(config))
    BY <1>2, <1>3, EndsStep
  <2>2. \A i \in Ends(config, n) : i <= n /\ i \in Int
    BY <1>2, RowFacts DEF Ends, Finals
  <2>3. n + 1 \in Finals(config) <=> l.field = "FINAL"
    BY <1>2, <1>3 DEF Finals
  <2>4. CASE l.field = "FINAL"
    <3>1. n + 1 \in Ends(config, n + 1) /\ \A j \in Ends(config, n + 1) : j <= n + 1
      BY <1>3, <2>1, <2>2, <2>3, <2>4
    <3>2. default' = Outbound(config, n + 1)
      BY <1>2, <1>3, <1>5, <2>4 DEF Outbound
    <3> QED
      BY <3>1, <3>2 DEF DefaultAt
  <2>5. CASE l.field # "FINAL"
    <3>1. Ends(config, n + 1) = Ends(config, n)
      BY <2>1, <2>3, <2>5
    <3> QED
      BY <1>1, <1>5, <2>5, <3>1 DEF DefaultAt, Follows
  <2> QED
    BY <2>4, <2>5
<1>9. Follows(config, default', rules \o Q, n + 1)
  BY <1>1, <1>2, <1>3, <1>6, <1>7, <1>8, FollowStep
<1>10. IsRow(rules \o Q)
  BY <1>2, <1>6, RowConcat
<1> QED
  BY <1>2, <1>3, <1>5, <1>9, <1>10 DEF RouterInv

LEMMA RouterNextInv == RouterInv /\ [RouterNext]_routerVars => RouterInv'
<1>1. RouterInv /\ UNCHANGED routerVars => RouterInv'
  BY DEF RouterInv, routerVars
<1> QED
  BY <1>1, StructStep, CsvStep DEF RouterNext

LEMMA RouterInvRoutes == RouterInv => RoutesAsWritten
<1> SUFFICES ASSUME RouterInv, rest = <<>>, Plainly(config), NEW h \in Others
             PROVE  LET said == {i \in DOMAIN config.rules : Speaks(config, i, h)}
                    IN  Match(h) = IF said = {} THEN Fallback(config)
                                   ELSE Outbound(config, First(said))
  BY DEF RoutesAsWritten, Others
<1> DEFINE m == Len(config.rules)
           said == {i \in DOMAIN config.rules : Speaks(config, i, h)}
<1>1. PICK n \in 0 .. m : rest = Entries(config, n) /\ Follows(config, default, rules, n)
  BY DEF RouterInv
<1>2. IsRow(config.rules) /\ IsRow(rules) /\ m \in Nat /\ DOMAIN config.rules = 1 .. m
  BY RouterAssumption, RowFacts DEF RouterInv
<1>3. n = m
  <2> SUFFICES ASSUME n # m PROVE FALSE
    OBVIOUS
  <2>1. n + 1 <= m /\ n + 1 \in Int /\ \A i \in n + 1 .. m : config.rules[i] \in ToSet(config.rules)
    BY <1>2 DEF ToSet
  <2>2. Len(SubSeq(config.rules, n + 1, m)) = m - (n + 1) + 1
    BY <1>2, <2>1, SubSeqProperties
  <2>3. Len(<<>>) = 0
    OBVIOUS
  <2>4. Entries(config, n) = <<>>
    BY <1>1
  <2>5. SubSeq(config.rules, n + 1, m) = <<>>
    BY <2>4 DEF Entries
  <2> HIDE DEF m
  <2> QED
    BY ONLY <1>2, <2>1, <2>2, <2>3, <2>5
<1>4. said = Said(config, n, h)
  BY <1>2, <1>3 DEF Said
<1>5. Agree(config, rules, n, h)
  BY <1>1 DEF Follows
<1>6. Match(h) = IF Hits(rules, h) = {} THEN default ELSE rules[First(Hits(rules, h))].action
  BY DEF Match, Hits
<1>7. default = Fallback(config)
  <2>1. Ends(config, n) = Finals(config)
    BY <1>2, <1>3 DEF Ends, Finals
  <2>2. CASE Finals(config) = {}
    BY <1>1, <2>1, <2>2 DEF DefaultAt, Follows, Fallback
  <2>3. CASE Finals(config) # {}
    <3>1. PICK i \in Finals(config) :
              (\A j \in Finals(config) : j <= i) /\ default = Outbound(config, i)
      BY <1>1, <2>1, <2>3 DEF DefaultAt, Follows
    <3> DEFINE k == CHOOSE x \in Finals(config) : \A j \in Finals(config) : j <= x
    <3>2. k \in Finals(config) /\ \A j \in Finals(config) : j <= k
      BY <3>1
    <3> HIDE DEF k
    <3>3. \A j \in Finals(config) : j \in Nat
      BY <1>2 DEF Finals
    <3>4. k = i
      BY <3>1, <3>2, <3>3
    <3>5. Fallback(config) = Outbound(config, k)
      BY <2>3, Zenon DEF Fallback, k
    <3> QED
      BY <3>1, <3>4, <3>5
  <2> QED
    BY <2>2, <2>3
<1> HIDE DEF said
<1>8. CASE Hits(rules, h) = {} /\ Said(config, n, h) = {}
  BY <1>4, <1>6, <1>7, <1>8 DEF said
<1>9. CASE ~ (Hits(rules, h) = {} /\ Said(config, n, h) = {})
  <2>1. PICK i \in Hits(rules, h), k \in Said(config, n, h) :
              /\ \A j \in Hits(rules, h) : i <= j
              /\ \A j \in Said(config, n, h) : k <= j
              /\ rules[i].action = Outbound(config, k)
    BY <1>5, <1>9 DEF Agree
  <2>2. Hits(rules, h) \subseteq Nat /\ Said(config, n, h) \subseteq Nat
    BY <1>2, RowFacts DEF Hits, Said
  <2>3. First(Hits(rules, h)) = i /\ First(Said(config, n, h)) = k
    BY <2>1, <2>2, FirstIs
  <2> QED
    BY <1>4, <1>6, <2>1, <2>3 DEF said
<1> QED
  BY <1>8, <1>9

(* Of a finished router, a host goes where the first entry of the            *)
(* configuration that speaks of it says, or to the default: for every         *)
(* configuration, every geo file and every host that is not itself a suffix   *)
(* in one (router.py:572-590, 743-800, 829-898).                             *)
THEOREM RoutesWritten == RouterSpec => []RoutesAsWritten
  BY RouterInitInv, RouterNextInv, RouterInvRoutes, PTL DEF RouterSpec

-----------------------------------------------------------------------------
\* What an idle cache knows is what meta.json says; as long as nothing was aborted,
\* what is known of a file that is there is its version, and its ETag names it.
IsMap(f) == f = [k \in Keys |-> f[k]]
Described(k) ==
    dat[k] # Missing =>
        /\ dat[k].version \in Nat /\ mem[k].date = dat[k].version
        /\ mem[k].tag # Missing => mem[k].tag[2] = mem[k].date

GeoTypes ==
    /\ remote \in [Urls -> Nat] /\ at \in [Keys -> DOMAIN Mirrors] /\ aborts \in Nat
    /\ IsMap(dat) /\ IsMap(mem) /\ IsMap(meta) /\ IsMap(stage)
GeoInv ==
    /\ GeoTypes
    /\ ~Running => mem = meta
    /\ aborts = 0 => \A k \in Keys : Described(k)

LEMMA MirrorFacts ==
    /\ 1 \in DOMAIN Mirrors /\ DOMAIN Mirrors = 1 .. Len(Mirrors) /\ Len(Mirrors) \in Nat
    /\ \A i \in DOMAIN Mirrors : Mirrors[i] \in Urls
<1>1. Mirrors \in Seq(Urls) /\ Mirrors # <<>>
  BY GeoAssumption
<1> HIDE DEF Urls
<1>2. Len(Mirrors) \in Nat /\ DOMAIN Mirrors = 1 .. Len(Mirrors) /\ Len(Mirrors) # 0
  BY <1>1, EmptySeq
<1> QED
  BY <1>1, <1>2 DEF Urls

LEMMA GeoInitInv == GeoInit => GeoInv
  BY MirrorFacts DEF GeoInit, GeoInv, GeoTypes, IsMap, Running, Described

LEMMA BeginInv == ASSUME GeoInv, Begin PROVE GeoInv'
<1>1. mem' = mem /\ dat' = dat /\ meta' = meta /\ aborts' = aborts
  BY DEF GeoInv, Begin
<1>2. GeoTypes'
  BY <1>1, MirrorFacts DEF GeoInv, Begin, GeoTypes, IsMap
<1> QED
  BY <1>1, <1>2 DEF GeoInv, Begin, Described

\* A 304 is recorded with the date and the ETag the file already has.
LEMMA RevalidateInv == ASSUME GeoInv, NEW k \in Keys, Revalidate(k) PROVE GeoInv'
<1>1. /\ mem' = [mem EXCEPT ![k] = [tag |-> mem[k].tag, date |-> mem[k].date]]
      /\ stage' = [stage EXCEPT ![k] = "ok"] /\ UNCHANGED <<remote, dat, meta, at, aborts>>
  BY DEF Revalidate, Record
<1>2. GeoTypes'
  BY <1>1 DEF GeoInv, GeoTypes, IsMap
<1>3. Running'
  BY <1>1 DEF GeoInv, GeoTypes, IsMap, Running
<1>4. ASSUME aborts' = 0, NEW j \in Keys PROVE Described(j)'
  BY <1>1, <1>4 DEF GeoInv, GeoTypes, IsMap, Described
<1> QED
  BY <1>2, <1>3, <1>4 DEF GeoInv

\* What is saved is recorded with its own date and the ETag of its own mirror.
LEMMA SaveInv == ASSUME GeoInv, NEW k \in Keys, Save(k) PROVE GeoInv'
<1> DEFINE u == Mirrors[at[k]]
<1>1. u \in Urls /\ remote[u] \in Nat
  BY MirrorFacts DEF GeoInv, GeoTypes
<1>2. PICK whole \in BOOLEAN, framing \in Framings :
         /\ dat' = [dat EXCEPT ![k] = [version |-> remote[u], whole |-> whole,
                                       framing |-> framing]]
         /\ Record(k, IF u \in Tagged THEN <<u, remote[u]>> ELSE Missing, remote[u])
  BY DEF Save
<1>3. UNCHANGED <<remote, meta, at, aborts>>
  BY DEF Save
<1> HIDE DEF u
<1>4. /\ mem' = [mem EXCEPT ![k] = [tag |-> IF u \in Tagged THEN <<u, remote[u]>> ELSE Missing,
                                    date |-> remote[u]]]
      /\ stage' = [stage EXCEPT ![k] = "ok"]
  BY <1>2 DEF Record
<1>5. GeoTypes'
  BY <1>2, <1>3, <1>4 DEF GeoInv, GeoTypes, IsMap
<1>6. Running'
  BY <1>4 DEF GeoInv, GeoTypes, IsMap, Running
<1>7. ASSUME aborts' = 0, NEW j \in Keys PROVE Described(j)'
  <2>1. CASE j = k
    BY <1>1, <1>2, <1>4, <2>1 DEF GeoInv, GeoTypes, IsMap, Described
  <2>2. CASE j # k
    BY <1>2, <1>3, <1>4, <1>7, <2>2 DEF GeoInv, GeoTypes, IsMap, Described
  <2> QED
    BY <2>1, <2>2
<1> QED
  BY <1>5, <1>6, <1>7 DEF GeoInv

LEMMA TryFailsInv == ASSUME GeoInv, NEW k \in Keys, TryFails(k) PROVE GeoInv'
<1>1. UNCHANGED <<remote, dat, meta, mem, aborts>>
  BY DEF TryFails
<1>2. at' \in [Keys -> DOMAIN Mirrors] /\ IsMap(stage')
  BY MirrorFacts DEF TryFails, GeoInv, GeoTypes, IsMap
<1>3. Running'
  <2>1. stage[k] = "try" /\ stage'[k] \in {"try", "ok", "failed"}
    BY DEF TryFails, GeoInv, GeoTypes, IsMap
  <2> QED
    BY <2>1 DEF Running
<1> QED
  BY <1>1, <1>2, <1>3 DEF GeoInv, GeoTypes, Described, IsMap

LEMMA DeleteInv == ASSUME GeoInv, NEW k \in Keys, Delete(k) PROVE GeoInv'
<1>1. /\ dat' = [dat EXCEPT ![k] = Missing]
      /\ UNCHANGED <<remote, meta, mem, stage, at, aborts>>
  BY DEF Delete
<1>2. ASSUME aborts' = 0, NEW j \in Keys PROVE Described(j)'
  BY <1>1, <1>2 DEF GeoInv, GeoTypes, IsMap, Described
<1> QED
  BY <1>1, <1>2 DEF GeoInv, GeoTypes, IsMap, Running

LEMMA GeoNextInv == GeoInv /\ [GeoNext]_geoVars => GeoInv'
<1> SUFFICES ASSUME GeoInv, [GeoNext]_geoVars PROVE GeoInv'
  OBVIOUS
<1>1. CASE Begin
  BY <1>1, BeginInv
<1>2. CASE End
  BY <1>2 DEF End, GeoInv, GeoTypes, IsMap, Described
<1>3. CASE Abort
  <2>1. aborts' # 0 /\ aborts' \in Nat
    BY <1>3 DEF Abort, GeoInv, GeoTypes
  <2> QED
    BY <1>3, <2>1 DEF Abort, GeoInv, GeoTypes, IsMap
<1>4. ASSUME NEW k \in Keys, Source(k) PROVE GeoInv'
  BY <1>4, RevalidateInv, SaveInv, TryFailsInv DEF Source
<1>5. ASSUME NEW k \in Keys, Delete(k) PROVE GeoInv'
  BY <1>5, DeleteInv
<1>6. ASSUME NEW k \in Keys, Age(k) PROVE GeoInv'
  BY <1>6 DEF Age, GeoInv, GeoTypes, IsMap, Running, Described
<1>7. ASSUME NEW u \in Urls, Publish(u) PROVE GeoInv'
  <2>1. remote' \in [Urls -> Nat]
    BY <1>7 DEF Publish, GeoInv, GeoTypes
  <2> QED
    BY <1>7, <2>1 DEF Publish, GeoInv, GeoTypes, IsMap, Running, Described
<1>8. CASE UNCHANGED geoVars
  BY <1>8 DEF geoVars, GeoInv, GeoTypes, IsMap, Running, Described
<1> QED
  BY <1>1, <1>2, <1>3, <1>4, <1>5, <1>6, <1>7, <1>8 DEF GeoNext

LEMMA GeoSpecInv == GeoSpec => []GeoInv
  BY GeoInitInv, GeoNextInv, PTL DEF GeoSpec

\* No 304 keeps a file that is there and older than what the mirror that sent it serves,
\* for any number of sources, mirrors, versions and deletions, while nothing was aborted;
\* a file that was deleted since the download began is not kept but missing
\* (geosite_cache.py:431-479).
THEOREM UnchangedFilesAreCurrent == GeoSpec => UnchangedIsCurrent
<1>1. ASSUME GeoInv, [GeoNext]_geoVars
      PROVE  [\A k \in Keys : Revalidate(k) /\ aborts = 0 =>
                dat'[k] = Missing \/ dat'[k].version >= remote[Mirrors[at[k]]]]_geoVars
  <2> SUFFICES ASSUME NEW k \in Keys, Revalidate(k), aborts = 0, dat'[k] # Missing
               PROVE  dat'[k].version >= remote[Mirrors[at[k]]]
    OBVIOUS
  <2> DEFINE u == Mirrors[at[k]]
  <2>1. u \in Urls /\ remote[u] \in Nat
    BY <1>1, MirrorFacts DEF GeoInv, GeoTypes
  <2>2. NotModified(k, u) /\ dat' = dat
    BY DEF Revalidate
  <2>3. dat[k] # Missing /\ Described(k)
    BY <1>1, <2>2 DEF GeoInv
  <2>4. remote[u] <= mem[k].date
    <3>1. CASE mem[k].tag # Missing
      <4>1. mem[k].tag[2] = remote[u]
        BY <2>2, <3>1 DEF NotModified
      <4> QED
        BY <2>1, <2>3, <3>1, <4>1 DEF Described
    <3>2. CASE mem[k].tag = Missing
      BY <2>2, <3>2 DEF NotModified
    <3> QED
      BY <3>1, <3>2
  <2> QED
    BY <2>1, <2>2, <2>3, <2>4 DEF Described
<1> QED
  BY <1>1, GeoSpecInv, PTL DEF GeoSpec, UnchangedIsCurrent
=============================================================================
