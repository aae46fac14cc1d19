-------------------------- MODULE AdmissionProofs --------------------------
(***************************************************************************)
(* Proofs about the corrected clock and about the replay cache on it, for  *)
(* any number of servers, any answers, any way the system clock is set,    *)
(* and any set of tokens.                                                  *)
(***************************************************************************)
EXTENDS Admission, SequenceTheorems, FiniteSetTheorems, TLAPS

-----------------------------------------------------------------------------
(* The clock.                                                              *)

Samples == [time : Int, lie : BOOLEAN]

TimeTypes ==
    /\ clock \in Int /\ skew \in Int /\ offset \in Int /\ began \in Int
    /\ samples \in Seq(Samples)

\* Sample i told the real time of a moment of this query, less an honest error.
Truthful(i) ==
    \E h \in Honest : /\ began + skew + h <= samples[i].time
                      /\ samples[i].time <= clock + skew + h

\* What a query has gathered so far: at most three answers, in order, each of
\* them a lie or truthful.  The system clock is not set meanwhile.
Gathered ==
    /\ Querying => began <= clock
    /\ ~Querying => samples = <<>>
    /\ Len(samples) <= 3
    /\ \A i, j \in DOMAIN samples : i <= j => samples[i].time <= samples[j].time
    /\ \A i \in DOMAIN samples : samples[i].lie \/ Truthful(i)

TimeInv == TimeTypes /\ Gathered /\ OffsetHonest

\* Errors and skews are numbers; how large is left open.
Numbers == Honest \subseteq Int /\ Lies \subseteq Int /\ Skews \subseteq Int

\* Row t is row s with x put in at n.
Pushed(t, s, n, x) ==
    /\ Len(t) = Len(s) + 1
    /\ \A i \in 1 .. n - 1 : t[i] = s[i]
    /\ t[n] = x
    /\ \A i \in n + 1 .. Len(s) + 1 : t[i] = s[i - 1]

\* InsertAt, position by position.
LEMMA Inserted ==
    ASSUME NEW S, NEW s \in Seq(S), NEW x \in S, NEW n \in 1 .. Len(s) + 1,
           NEW t, t = InsertAt(s, n, x)
    PROVE  t \in Seq(S) /\ Pushed(t, s, n, x)
<1> DEFINE a == SubSeq(s, 1, n - 1)
           b == SubSeq(s, n, Len(s))
           c == a \o <<x>>
<1>1. Len(s) \in Nat /\ n \in Nat /\ 1 <= n /\ n <= Len(s) + 1
  OBVIOUS
<1>2. /\ a \in Seq(S) /\ Len(a) = n - 1
      /\ \A i \in 1 .. n - 1 : a[i] = s[i]
  <2>1. /\ a \in Seq(S) /\ Len(a) = IF 1 <= n - 1 THEN (n - 1) - 1 + 1 ELSE 0
        /\ \A i \in 1 .. (n - 1) - 1 + 1 : a[i] = s[1 + i - 1]
    <3>1. n - 1 \in Int /\ 1 \in Int /\ \A i \in 1 .. n - 1 : s[i] \in S
      BY <1>1
    <3> HIDE DEF a
    <3> QED
      BY <3>1, SubSeqProperties DEF a
  <2> HIDE DEF a
  <2> QED
    BY <1>1, <2>1
<1>3. /\ b \in Seq(S) /\ Len(b) = Len(s) - n + 1
      /\ \A i \in 1 .. Len(s) - n + 1 : b[i] = s[n + i - 1]
  <2>1. /\ b \in Seq(S) /\ Len(b) = IF n <= Len(s) THEN Len(s) - n + 1 ELSE 0
        /\ \A i \in 1 .. Len(s) - n + 1 : b[i] = s[n + i - 1]
    <3>1. n \in Int /\ Len(s) \in Int /\ \A i \in n .. Len(s) : s[i] \in S
      BY <1>1
    <3> QED
      BY <3>1, SubSeqProperties
  <2> HIDE DEF b
  <2> QED
    BY <1>1, <2>1
<1>4. t = c \o b
  BY DEF InsertAt
<1> HIDE DEF a, b
<1>5. /\ c \in Seq(S) /\ Len(c) = n
      /\ \A i \in 1 .. n - 1 : c[i] = s[i]
      /\ c[n] = x
  <2>1. <<x>> \in Seq(S) /\ Len(<<x>>) = 1 /\ <<x>>[1] = x
    OBVIOUS
  <2>2. /\ c \in Seq(S) /\ Len(c) = Len(a) + Len(<<x>>)
        /\ \A i \in 1 .. Len(a) + Len(<<x>>) :
              c[i] = IF i <= Len(a) THEN a[i] ELSE <<x>>[i - Len(a)]
    BY <1>2, <2>1, ConcatProperties
  <2>3. Len(a) + Len(<<x>>) = n /\ n - Len(a) = 1 /\ ~(n <= Len(a)) /\ n \in 1 .. n
    BY <1>1, <1>2, <2>1
  <2> HIDE DEF c
  <2>4. c[n] = x
    BY <2>1, <2>2, <2>3
  <2>5. ASSUME NEW i \in 1 .. n - 1 PROVE c[i] = s[i]
    <3>1. i \in 1 .. n /\ i <= Len(a)
      BY <1>1, <1>2
    <3> QED
      BY <1>2, <2>2, <2>3, <3>1
  <2> QED
    BY <2>2, <2>3, <2>4, <2>5
<1> HIDE DEF c
<1>6. /\ t \in Seq(S) /\ Len(t) = Len(c) + Len(b)
      /\ \A i \in 1 .. Len(c) + Len(b) :
            t[i] = IF i <= Len(c) THEN c[i] ELSE b[i - Len(c)]
  <2>1. /\ c \o b \in Seq(S) /\ Len(c \o b) = Len(c) + Len(b)
        /\ \A i \in 1 .. Len(c) + Len(b) :
              (c \o b)[i] = IF i <= Len(c) THEN c[i] ELSE b[i - Len(c)]
    BY <1>3, <1>5, ConcatProperties
  <2> QED
    BY <1>4, <2>1
<1>7. Len(c) + Len(b) = Len(s) + 1 /\ Len(c) = n
  BY <1>1, <1>3, <1>5
<1>8. ASSUME NEW i \in 1 .. n - 1 PROVE t[i] = s[i]
  <2>1. i \in 1 .. Len(c) + Len(b) /\ i <= Len(c)
    BY <1>1, <1>7
  <2> QED
    BY <1>5, <1>6, <2>1
<1>9. t[n] = x
  <2>1. n \in 1 .. Len(c) + Len(b) /\ n <= Len(c)
    BY <1>1, <1>7
  <2> QED
    BY <1>5, <1>6, <2>1
<1>10. ASSUME NEW i \in n + 1 .. Len(s) + 1 PROVE t[i] = s[i - 1]
  <2>1. /\ i \in 1 .. Len(c) + Len(b) /\ ~(i <= Len(c))
        /\ i - Len(c) \in 1 .. Len(s) - n + 1 /\ n + (i - Len(c)) - 1 = i - 1
    BY <1>1, <1>7
  <2> QED
    BY <1>3, <1>6, <2>1
<1> QED
  BY <1>6, <1>7, <1>8, <1>9, <1>10 DEF Pushed

LEMMA TimeInitInv == Numbers /\ Init => TimeInv
BY DEF Numbers, Init, TimeInv, TimeTypes, Gathered, OffsetHonest, Querying

\* An answer is put in its place.
LEMMA AnswerInv ==
    ASSUME Numbers, TimeInv, NEW e \in Honest \cup Lies, Answer(e)
    PROVE  TimeTypes' /\ Gathered'
<1> DEFINE s == [time |-> clock + skew + e, lie |-> e \in Lies]
<1>1. /\ clock \in Int /\ skew \in Int /\ began \in Int /\ e \in Int
      /\ samples \in Seq(Samples) /\ Len(samples) \in Nat
      /\ DOMAIN samples = 1 .. Len(samples)
  BY DEF Numbers, TimeInv, TimeTypes
<1>2. /\ UNCHANGED <<clock, skew, offset, phase, began, last>>
      /\ Querying /\ Querying' /\ Len(samples) < 3 /\ began <= clock
  BY DEF Answer, Asking, Querying, TimeInv, Gathered
<1>3. s \in Samples /\ s.time = clock + skew + e /\ (s.lie <=> e \in Lies)
  <2>1. clock + skew + e \in Int /\ (e \in Lies) \in BOOLEAN
    BY <1>1
  <2>2. s \in Samples
    BY <2>1, Zenon DEF Samples
  <2>3. s.time = clock + skew + e /\ (s.lie <=> e \in Lies)
    BY Zenon
  <2> QED
    BY <2>2, <2>3
<1>4. PICK n \in 1 .. Len(samples) + 1 :
            /\ \A i \in DOMAIN samples : samples[i].time <= s.time <=> i < n
            /\ samples' = InsertAt(samples, n, s)
  BY DEF Answer
<1> HIDE DEF s
<1>5. /\ samples' \in Seq(Samples) /\ Len(samples') = Len(samples) + 1
      /\ \A i \in 1 .. n - 1 : samples'[i] = samples[i]
      /\ samples'[n] = s
      /\ \A i \in n + 1 .. Len(samples) + 1 : samples'[i] = samples[i - 1]
  <2>1. samples \in Seq(Samples) /\ s \in Samples /\ n \in 1 .. Len(samples) + 1
    BY <1>1, <1>3, <1>4
  <2>2. samples' = InsertAt(samples, n, s)
    BY <1>4
  <2>3. samples' \in Seq(Samples) /\ Pushed(samples', samples, n, s)
    BY <2>1, <2>2, Inserted
  <2> QED
    BY <2>3 DEF Pushed
<1>6. DOMAIN samples' = 1 .. Len(samples) + 1 /\ n \in Nat /\ n >= 1 /\ n <= Len(samples) + 1
  BY <1>1, <1>5
<1>7. \A i \in 1 .. Len(samples) : samples[i].time \in Int
  <2>1. \A i \in 1 .. Len(samples) : samples[i] \in Samples
    BY <1>1
  <2> QED
    BY <2>1 DEF Samples
<1>8. TimeTypes'
  BY <1>1, <1>2, <1>5 DEF TimeInv, TimeTypes
<1>9. ASSUME NEW i \in DOMAIN samples', NEW j \in DOMAIN samples', i <= j
      PROVE  samples'[i].time <= samples'[j].time
  <2>1. \A m, l \in 1 .. Len(samples) : m <= l => samples[m].time <= samples[l].time
    BY <1>1 DEF TimeInv, Gathered
  <2>2. /\ \A m \in 1 .. Len(samples) : m < n => samples[m].time <= s.time
        /\ \A m \in 1 .. Len(samples) : m >= n => s.time <= samples[m].time
    <3>1. s.time \in Int
      BY <1>3 DEF Samples
    <3>2. \A m \in 1 .. Len(samples) : samples[m].time <= s.time <=> m < n
      BY <1>1, <1>4
    <3> QED
      BY <1>6, <1>7, <3>1, <3>2
  <2>3. CASE j < n
    BY <1>5, <1>6, <1>9, <2>1, <2>3
  <2>4. CASE j = n
    <3>1. CASE i < n
      BY <1>5, <1>6, <1>9, <2>2, <2>4, <3>1
    <3>2. CASE i = n
      BY <1>1, <1>3, <1>5, <1>6, <1>9, <2>4, <3>2
    <3> QED
      BY <1>6, <1>9, <2>4, <3>1, <3>2
  <2>5. CASE j > n
    <3>1. samples'[j] = samples[j - 1] /\ j - 1 \in 1 .. Len(samples) /\ j - 1 >= n
      BY <1>5, <1>6, <1>9, <2>5
    <3>2. CASE i < n
      <4>1. samples'[i] = samples[i] /\ i \in 1 .. Len(samples) /\ i <= j - 1
        BY <1>5, <1>6, <1>9, <2>5, <3>2
      <4> QED
        BY <2>1, <3>1, <4>1
    <3>3. CASE i = n
      BY <1>5, <1>6, <2>2, <3>1, <3>3
    <3>4. CASE i > n
      <4>1. /\ samples'[i] = samples[i - 1] /\ i - 1 \in 1 .. Len(samples)
            /\ i - 1 <= j - 1
        BY <1>5, <1>6, <1>9, <3>4
      <4> QED
        BY <2>1, <3>1, <4>1
    <3> QED
      BY <1>6, <3>2, <3>3, <3>4
  <2> QED
    BY <1>6, <2>3, <2>4, <2>5
<1>10. ASSUME NEW i \in DOMAIN samples'
       PROVE  samples'[i].lie \/ Truthful(i)'
  <2>1. \A m \in 1 .. Len(samples) : samples[m].lie \/ Truthful(m)
    BY <1>1 DEF TimeInv, Gathered
  <2>2. CASE i = n
    <3>1. samples'[i] = s
      BY <1>5, <1>6, <2>2
    <3>2. CASE e \in Lies
      BY <1>3, <3>1, <3>2
    <3>3. CASE e \in Honest
      <4>1. began + skew + e <= s.time /\ s.time <= clock + skew + e
        BY <1>1, <1>2, <1>3
      <4> QED
        BY <1>2, <3>1, <3>3, <4>1 DEF Truthful
    <3> QED
      BY <3>2, <3>3
  <2>3. CASE i # n
    <3>1. PICK m \in 1 .. Len(samples) : samples'[i] = samples[m]
      <4>1. CASE i < n
        <5>1. samples'[i] = samples[i] /\ i \in 1 .. Len(samples)
          BY <1>5, <1>6, <4>1
        <5> QED
          BY <5>1
      <4>2. CASE i > n
        <5>1. samples'[i] = samples[i - 1] /\ i - 1 \in 1 .. Len(samples)
          BY <1>5, <1>6, <4>2
        <5> QED
          BY <5>1
      <4> QED
        BY <1>6, <2>3, <4>1, <4>2
    <3> QED
      BY <1>2, <2>1, <3>1 DEF Truthful
  <2> QED
    BY <2>2, <2>3
<1>11. Gathered'
  BY <1>1, <1>2, <1>5, <1>9, <1>10 DEF Gathered
<1> QED
  BY <1>8, <1>11

\* The median is not later than some truthful answer, and not earlier than
\* some truthful answer, when nobody lied, or one of three did.
LEMMA MedianBetween ==
    ASSUME TimeInv, samples # <<>>,
           LET L == {i \in DOMAIN samples : samples[i].lie}
           IN  Cardinality(L) = 0 \/ (Cardinality(L) = 1 /\ Len(samples) = 3)
    PROVE  /\ Median \in Int
           /\ \E i \in DOMAIN samples : Truthful(i) /\ Median <= samples[i].time
           /\ \E i \in DOMAIN samples : Truthful(i) /\ samples[i].time <= Median
<1> DEFINE L == {i \in DOMAIN samples : samples[i].lie}
           m == Len(samples) \div 2 + 1
<1>1. /\ samples \in Seq(Samples) /\ DOMAIN samples = 1 .. Len(samples)
      /\ Len(samples) \in 1 .. 3
  <2>1. samples \in Seq(Samples) /\ Len(samples) <= 3
    BY DEF TimeInv, TimeTypes, Gathered
  <2>2. Len(samples) \in Nat /\ Len(samples) # 0 /\ DOMAIN samples = 1 .. Len(samples)
    BY <2>1, EmptySeq
  <2> HIDE DEF L, m
  <2> QED
    BY <2>1, <2>2
<1>2. m \in 1 .. Len(samples) /\ (Len(samples) = 3 => m = 2)
  <2>1. CASE Len(samples) = 1
    BY <2>1
  <2>2. CASE Len(samples) = 2
    BY <2>2
  <2>3. CASE Len(samples) = 3
    BY <2>3
  <2> QED
    BY <1>1, <2>1, <2>2, <2>3
<1> HIDE DEF m
<1>3. /\ \A i \in 1 .. Len(samples) : samples[i].time \in Int
      /\ \A i, j \in 1 .. Len(samples) : i <= j => samples[i].time <= samples[j].time
      /\ \A i \in 1 .. Len(samples) : i \notin L => Truthful(i)
  <2>1. \A i \in 1 .. Len(samples) : samples[i] \in Samples
    BY <1>1
  <2> QED
    BY <1>1, <2>1 DEF Samples, TimeInv, Gathered
<1>4. Median = samples[m].time
  BY DEF Median, m
<1>5. IsFiniteSet(L)
  <2>1. 1 \in Int /\ Len(samples) \in Int
    BY <1>1
  <2>2. IsFiniteSet(1 .. Len(samples))
    BY <2>1, FS_Interval
  <2> QED
    BY <1>1, <2>2, FS_Subset
<1>6. CASE Cardinality(L) = 0
  <2>1. L = {}
    BY <1>5, <1>6, FS_EmptySet
  <2>2. Truthful(m)
    BY <1>2, <1>3, <2>1
  <2> QED
    BY <1>1, <1>2, <1>3, <1>4, <2>2
<1>7. CASE Cardinality(L) = 1 /\ Len(samples) = 3
  <2>1. PICK x : L = {x}
    BY <1>5, <1>7, FS_Singleton
  <2>2. (1 \notin L \/ 2 \notin L) /\ (2 \notin L \/ 3 \notin L)
    BY <2>1
  <2>3. m = 2 /\ 1 \in DOMAIN samples /\ 2 \in DOMAIN samples /\ 3 \in DOMAIN samples
    BY <1>1, <1>2, <1>7
  <2>4. /\ samples[1].time <= samples[2].time /\ samples[2].time <= samples[3].time
        /\ samples[2].time \in Int
    BY <1>1, <1>3, <2>3
  <2>5. \E i \in {1, 2} : Truthful(i)
    BY <1>1, <1>3, <2>2, <2>3
  <2>6. \E i \in {2, 3} : Truthful(i)
    BY <1>1, <1>3, <2>2, <2>3
  <2> QED
    BY <1>4, <2>3, <2>4, <2>5, <2>6
<1> QED
  BY <1>6, <1>7

\* What Succeed sets is honest.
LEMMA SucceedInv ==
    ASSUME Numbers, TimeInv, Succeed
    PROVE  TimeInv'
<1>1. /\ samples # <<>> /\ Querying /\ offset' = Median - clock
      /\ last' = [skew |-> skew, wait |-> clock - began, n |-> Len(samples),
                  lies |-> Cardinality({i \in DOMAIN samples : samples[i].lie})]
      /\ phase' = "idle" /\ samples' = <<>> /\ began' = 0
      /\ clock' = clock /\ skew' = skew
  BY DEF Succeed, Over, Return, NewOffset
<1>2. /\ clock \in Int /\ skew \in Int /\ began \in Int /\ began <= clock
      /\ Honest \subseteq Int
  BY <1>1 DEF TimeInv, TimeTypes, Gathered, Numbers
<1>3. Median \in Int
  <2>1. samples \in Seq(Samples) /\ Len(samples) <= 3
    BY DEF TimeInv, TimeTypes, Gathered
  <2>2. Len(samples) = 1 \/ Len(samples) = 2 \/ Len(samples) = 3
    BY <1>1, <2>1, EmptySeq
  <2>3. Len(samples) \div 2 + 1 \in 1 .. Len(samples)
    BY <2>2
  <2>4. samples[Len(samples) \div 2 + 1] \in Samples
    BY <2>1, <2>3
  <2> QED
    BY <2>4 DEF Median, Samples
<1>4. TimeTypes' /\ Gathered'
  <2>1. TimeTypes'
    BY <1>1, <1>2, <1>3 DEF TimeTypes
  <2>2. Gathered'
    BY <1>1 DEF Gathered, Querying
  <2> QED
    BY <2>1, <2>2
<1>5. ASSUME last'.n > 0, last'.lies = 0 \/ (last'.lies = 1 /\ last'.n = 3)
      PROVE  LET err == offset' - last'.skew
             IN  /\ \E h \in Honest : err <= h
                 /\ \E h \in Honest : err >= h - last'.wait
  <2>1. /\ last'.skew = skew /\ last'.wait = clock - began /\ last'.n = Len(samples)
        /\ last'.lies = Cardinality({i \in DOMAIN samples : samples[i].lie})
    BY <1>1
  <2>2. /\ \E i \in DOMAIN samples : Truthful(i) /\ Median <= samples[i].time
        /\ \E i \in DOMAIN samples : Truthful(i) /\ samples[i].time <= Median
    BY <1>1, <1>5, <2>1, MedianBetween
  <2>3. \A i \in DOMAIN samples : samples[i].time \in Int
    <3>1. \A i \in DOMAIN samples : samples[i] \in Samples
      BY DEF TimeInv, TimeTypes
    <3> QED
      BY <3>1 DEF Samples
  <2>4. \E h \in Honest : (Median - clock) - skew <= h
    <3>1. PICK i \in DOMAIN samples : Truthful(i) /\ Median <= samples[i].time
      BY <2>2
    <3>2. PICK h \in Honest : samples[i].time <= clock + skew + h
      BY <3>1 DEF Truthful
    <3> QED
      BY <1>2, <1>3, <2>3, <3>1, <3>2
  <2>5. \E h \in Honest : (Median - clock) - skew >= h - (clock - began)
    <3>1. PICK i \in DOMAIN samples : Truthful(i) /\ samples[i].time <= Median
      BY <2>2
    <3>2. PICK h \in Honest : began + skew + h <= samples[i].time
      BY <3>1 DEF Truthful
    <3> QED
      BY <1>2, <1>3, <2>3, <3>1, <3>2
  <2> QED
    BY <1>1, <2>1, <2>4, <2>5
<1>6. OffsetHonest'
  BY <1>5 DEF OffsetHonest
<1> QED
  BY <1>4, <1>6 DEF TimeInv

LEMMA TimeNextInv == Numbers /\ TimeInv /\ [Next]_timeVars => TimeInv'
<1> SUFFICES ASSUME Numbers, TimeInv, [Next]_timeVars PROVE TimeInv'
  OBVIOUS
<1>o. offset' = offset /\ last' = last => OffsetHonest'
  BY DEF TimeInv, OffsetHonest
<1>1. CASE Begin
  BY <1>1, <1>o DEF Begin, TimeInv, TimeTypes, Gathered, Querying
<1>2. ASSUME NEW e \in Honest \cup Lies, Answer(e) PROVE TimeInv'
  BY <1>2, <1>o, AnswerInv DEF Answer, TimeInv
<1>3. CASE NoAnswer \/ FallBack \/ UNCHANGED timeVars
  <2>1. /\ UNCHANGED <<clock, skew, offset, samples, began, last>>
        /\ Querying' <=> Querying
    BY <1>3 DEF NoAnswer, FallBack, timeVars, Querying
  <2> QED
    BY <2>1, <1>o DEF TimeInv, TimeTypes, Gathered, Truthful
<1>4. CASE Succeed
  BY <1>4, SucceedInv
<1>5. CASE Fail \/ GiveUp
  <2>1. /\ UNCHANGED <<clock, skew, offset, last>>
        /\ phase' = "idle" /\ samples' = <<>> /\ began' = 0
    BY <1>5 DEF Fail, GiveUp, Return
  <2>2. TimeTypes'
    BY <2>1 DEF TimeInv, TimeTypes
  <2>3. Gathered'
    BY <2>1 DEF Gathered, Querying
  <2> QED
    BY <2>1, <2>2, <2>3, <1>o DEF TimeInv
<1>6. CASE Pass
  <2>1. /\ clock' = clock + 1 /\ UNCHANGED <<skew, offset, phase, samples, began, last>>
    BY <1>6 DEF Pass
  <2>2. TimeTypes'
    BY <2>1 DEF TimeInv, TimeTypes
  <2>3. ASSUME NEW i \in DOMAIN samples, Truthful(i) PROVE Truthful(i)'
    <3>1. samples[i] \in Samples /\ clock \in Int /\ skew \in Int
      BY DEF TimeInv, TimeTypes
    <3>2. samples[i].time \in Int
      BY <3>1 DEF Samples
    <3> QED
      BY <2>1, <2>3, <3>1, <3>2 DEF Truthful, Numbers
  <2>4. Gathered'
    BY <2>1, <2>3 DEF TimeInv, TimeTypes, Gathered, Querying
  <2> QED
    BY <2>1, <2>2, <2>4, <1>o DEF TimeInv
<1>7. CASE SetClock
  <2>1. /\ ~Querying /\ samples = <<>>
        /\ UNCHANGED <<offset, phase, samples, began, last>>
    BY <1>7 DEF SetClock, TimeInv, Gathered
  <2>2. clock' \in Int /\ skew' \in Int
    BY <1>7 DEF SetClock, Numbers, TimeInv, TimeTypes
  <2> QED
    BY <2>1, <2>2, <1>o DEF TimeInv, TimeTypes, Gathered, Querying
<1> QED
  BY <1>1, <1>2, <1>3, <1>4, <1>5, <1>6, <1>7 DEF Next, Query

\* However many servers are asked and whatever they answer: an offset made of
\* honest answers, or of three with one lie, is off by no more than an honest
\* error and the time the query took.
THEOREM OffsetIsHonest ==
    ASSUME Numbers
    PROVE  TimeSpec => []OffsetHonest
<1>1. Init => TimeInv
  BY TimeInitInv
<1>2. TimeInv /\ [Next]_timeVars => TimeInv'
  BY TimeNextInv
<1>3. TimeInv => OffsetHonest
  BY DEF TimeInv
<1> QED
  BY <1>1, <1>2, <1>3, PTL DEF TimeSpec

-----------------------------------------------------------------------------
(* The replay cache on that clock.                                         *)

CacheConstants == Numbers /\ Tolerance \in Nat \ {0} /\ MaxTime \in Nat

\* Token t was accepted at time a and its nonce is in the bucket of a.
Marked(t, a) ==
    /\ a <= Corrected
    /\ ts[t] - Tolerance <= a
    /\ <<a \div Tolerance, t>> \in buckets

\* Out of tolerance, or remembered in the bucket of its acceptance.
Guarded(t) == Corrected > ts[t] + Tolerance \/ \E a \in Int : Marked(t, a)

\* Every token that was accepted, not skipped, and since which the corrected
\* clock has not gone back is guarded: ReplayCache has this of every token,
\* here the clock takes it away from those in unsettled.
AdmissionInv ==
    /\ ts \in [Tokens -> Int]
    /\ accepted \subseteq Tokens
    /\ unsettled \subseteq accepted
    /\ AcceptedOnceUnlessSetBack
    /\ \A t \in accepted \ (skipped \cup unsettled) : Guarded(t)

\* The bucket of a time, by its bounds; the corrected time may be negative.
LEMMA BucketBounds ==
    ASSUME CacheConstants, NEW a \in Int
    PROVE  /\ a \div Tolerance \in Int
           /\ Tolerance * (a \div Tolerance) <= a
           /\ a < Tolerance * (a \div Tolerance) + Tolerance
BY DEF CacheConstants

\* A later time is not in an earlier bucket, and two tolerances are at most
\* two buckets: why three are kept.
LEMMA BucketSpan ==
    ASSUME CacheConstants, NEW a \in Int, NEW b \in Int, a <= b, b <= a + 2 * Tolerance
    PROVE  /\ a \div Tolerance <= b \div Tolerance
           /\ b \div Tolerance <= a \div Tolerance + 2
<1> DEFINE p == a \div Tolerance
           r == b \div Tolerance
<1>1. /\ p \in Int /\ r \in Int
      /\ Tolerance * p <= a /\ a < Tolerance * p + Tolerance
      /\ Tolerance * r <= b /\ b < Tolerance * r + Tolerance
  BY BucketBounds
<1>2. Tolerance \in Int /\ Tolerance > 0
  BY DEF CacheConstants
<1> HIDE DEF p, r
<1>3. ASSUME p >= r + 1 PROVE FALSE
  <2>1. Tolerance * p >= Tolerance * (r + 1)
    BY <1>1, <1>2, <1>3
  <2>2. Tolerance * (r + 1) = Tolerance * r + Tolerance
    BY <1>1, <1>2
  <2>3. Tolerance * p \in Int /\ Tolerance * r \in Int
    BY <1>1, <1>2
  <2> QED
    BY <1>1, <1>2, <2>1, <2>2, <2>3
<1>4. ASSUME r >= p + 3 PROVE FALSE
  <2>1. Tolerance * r >= Tolerance * (p + 3)
    BY <1>1, <1>2, <1>4
  <2>2. Tolerance * (p + 3) = Tolerance * p + 3 * Tolerance
    BY <1>1, <1>2
  <2>3. Tolerance * p \in Int /\ Tolerance * r \in Int
    BY <1>1, <1>2
  <2> QED
    BY <1>1, <1>2, <2>1, <2>2, <2>3
<1>5. p <= r /\ r <= p + 2
  BY <1>1, <1>3, <1>4
<1> QED
  BY <1>5 DEF p, r

\* Eviction keeps the mark of every token that can still pass the check.
LEMMA MarkSurvives ==
    ASSUME CacheConstants, Corrected \in Int, NEW t, ts[t] \in Int, NEW a \in Int,
           Marked(t, a), Corrected <= ts[t] + Tolerance
    PROVE  /\ <<a \div Tolerance, t>> \in Cache!Kept
           /\ a \div Tolerance \in Cache!KeepFrom .. Cache!Bucket
<1>1. Tolerance \in Int
  BY DEF CacheConstants
<1>2. Corrected <= a + 2 * Tolerance /\ a <= Corrected
  BY <1>1 DEF Marked
<1>3. /\ a \div Tolerance \in Int /\ Corrected \div Tolerance \in Int
      /\ a \div Tolerance <= Corrected \div Tolerance
      /\ Corrected \div Tolerance <= a \div Tolerance + 2
  BY <1>2, BucketBounds, BucketSpan
<1> QED
  BY <1>3 DEF Marked, Cache!Kept, Cache!KeepFrom, Cache!Bucket, Cache!BucketsKept

\* A guarded token is not admitted.
LEMMA GuardHolds ==
    ASSUME CacheConstants, Corrected \in Int, NEW t, ts[t] \in Int, Guarded(t),
           Cache!InTolerance(t)
    PROVE  Cache!Seen(t)
<1>1. Corrected <= ts[t] + Tolerance
  BY DEF CacheConstants, Cache!InTolerance
<1>2. PICK a \in Int : Marked(t, a)
  BY <1>1 DEF Guarded, CacheConstants
<1>3. /\ <<a \div Tolerance, t>> \in Cache!Kept
      /\ a \div Tolerance \in Cache!KeepFrom .. Cache!Bucket
  BY <1>1, <1>2, MarkSurvives
<1> QED
  BY <1>3 DEF Cache!Seen

\* What is kept guards on while the clock stands.
LEMMA GuardKept ==
    ASSUME CacheConstants, Corrected \in Int, Corrected' = Corrected, ts' = ts,
           Cache!Kept \subseteq buckets', NEW t, ts[t] \in Int, Guarded(t)
    PROVE  Guarded(t)'
<1>1. CASE Corrected > ts[t] + Tolerance
  BY <1>1 DEF Guarded
<1>2. CASE ~(Corrected > ts[t] + Tolerance)
  <2>1. PICK a \in Int : Marked(t, a)
    BY <1>2 DEF Guarded
  <2>2. Corrected <= ts[t] + Tolerance
    BY <1>2 DEF CacheConstants
  <2>3. <<a \div Tolerance, t>> \in buckets'
    BY <2>1, <2>2, MarkSurvives
  <2>4. Marked(t, a)'
    BY <2>1, <2>3 DEF Marked
  <2> QED
    BY <2>4 DEF Guarded
<1> QED
  BY <1>1, <1>2

LEMMA AdmissionInitInv == CacheConstants /\ AdmissionInit => AdmissionInv
<1> SUFFICES ASSUME CacheConstants, AdmissionInit PROVE AdmissionInv
  OBVIOUS
<1>1. ts \in [Tokens -> 0 .. MaxTime] /\ accepted = {} /\ again = {} /\ unsettled = {}
  BY DEF AdmissionInit, Cache!Init
<1>2. ts \in [Tokens -> Int]
  BY <1>1 DEF CacheConstants
<1> QED
  BY <1>1, <1>2 DEF AdmissionInv, AcceptedOnceUnlessSetBack

\* One step of the clock: as long as it does not go back, what guards does so
\* still; when it does, every token accepted so far is unsettled.
LEMMA ClockStepInv ==
    ASSUME CacheConstants, AdmissionInv, Corrected \in Int, Corrected' \in Int, ClockStep
    PROVE  AdmissionInv'
<1>1. /\ UNCHANGED <<ts, buckets, totalCount, accepted, again, skipped>>
      /\ unsettled' = IF Corrected' < Corrected THEN accepted ELSE unsettled
  BY DEF ClockStep, cacheVars
<1>2. CASE Corrected' < Corrected
  BY <1>1, <1>2 DEF AdmissionInv, AcceptedOnceUnlessSetBack
<1>3. CASE ~(Corrected' < Corrected)
  <2>1. unsettled' = unsettled /\ Corrected <= Corrected'
    BY <1>1, <1>3
  <2>2. ASSUME NEW t \in accepted \ (skipped \cup unsettled) PROVE Guarded(t)'
    <3>1. Guarded(t) /\ ts[t] \in Int /\ ts'[t] = ts[t]
      BY <1>1 DEF AdmissionInv
    <3>2. CASE Corrected > ts[t] + Tolerance
      BY <1>1, <2>1, <3>1, <3>2 DEF Guarded, CacheConstants
    <3>3. ASSUME NEW a \in Int, Marked(t, a) PROVE Guarded(t)'
      <4>1. Marked(t, a)'
        BY <1>1, <2>1, <3>3 DEF Marked
      <4> QED
        BY <4>1 DEF Guarded
    <3> QED
      BY <3>1, <3>2, <3>3 DEF Guarded
  <2> QED
    BY <1>1, <2>1, <2>2 DEF AdmissionInv, AcceptedOnceUnlessSetBack
<1> QED
  BY <1>2, <1>3

\* One call of check_and_mark.
LEMMA CacheStepInv ==
    ASSUME CacheConstants, AdmissionInv, Corrected \in Int, CacheStep
    PROVE  AdmissionInv'
<1>1. /\ Corrected' = Corrected /\ unsettled' = unsettled
      /\ \E t \in Tokens : Cache!RejectReplay(t) \/ Cache!Accept(t)
  BY DEF CacheStep, timeVars, Corrected
<1>2. \A t \in accepted : ts[t] \in Int
  BY DEF AdmissionInv
<1>3. ASSUME NEW t \in Tokens, Cache!RejectReplay(t) PROVE AdmissionInv'
  <2>1. /\ buckets' = Cache!Kept
        /\ UNCHANGED <<ts, accepted, again, skipped>>
    BY <1>3 DEF Cache!RejectReplay
  <2>2. ASSUME NEW u \in accepted \ (skipped \cup unsettled) PROVE Guarded(u)'
    BY <1>1, <1>2, <2>1, GuardKept DEF AdmissionInv
  <2> QED
    BY <1>1, <2>1, <2>2 DEF AdmissionInv, AcceptedOnceUnlessSetBack
<1>4. ASSUME NEW t \in Tokens, Cache!Accept(t) PROVE AdmissionInv'
  <2>1. /\ accepted' = accepted \cup {t}
        /\ again' = (IF t \in accepted THEN again \cup {t} ELSE again)
        /\ ts' = ts
        /\ Cache!InTolerance(t) /\ ~Cache!Seen(t)
    BY <1>4 DEF Cache!Accept
  <2>2. \/ buckets' = Cache!Kept \cup {<<Cache!Bucket, t>>} /\ skipped' = skipped
        \/ buckets' = Cache!Kept /\ skipped' = skipped \cup {t}
    BY <1>4 DEF Cache!Accept
  <2>3. ts[t] \in Int
    BY DEF AdmissionInv
  \* a token that is accepted again had lost its guard
  <2>4. t \notin accepted \ (skipped \cup unsettled)
    BY <2>1, <2>3, GuardHolds DEF AdmissionInv
  <2>5. AcceptedOnceUnlessSetBack'
    BY <1>1, <2>1, <2>2, <2>4 DEF AdmissionInv, AcceptedOnceUnlessSetBack
  <2>6. ASSUME NEW u \in accepted' \ (skipped' \cup unsettled') PROVE Guarded(u)'
    <3>1. CASE u = t
      <4>1. <<Cache!Bucket, t>> \in buckets'
        BY <2>2, <2>6, <3>1
      <4>2. Marked(t, Corrected)'
        BY <1>1, <2>1, <2>3, <4>1 DEF Marked, Cache!InTolerance, Cache!Bucket, CacheConstants
      <4> QED
        BY <1>1, <3>1, <4>2 DEF Guarded
    <3>2. CASE u # t
      <4>1. u \in accepted \ (skipped \cup unsettled)
        BY <1>1, <2>1, <2>2, <2>6, <3>2
      <4> QED
        BY <1>1, <1>2, <2>1, <2>2, <4>1, GuardKept DEF AdmissionInv
    <3> QED
      BY <3>1, <3>2
  <2> QED
    BY <1>1, <2>1, <2>5, <2>6 DEF AdmissionInv
<1> QED
  BY <1>1, <1>3, <1>4

\* However the system clock is set and the corrected clock moves: a token is
\* accepted twice only if the cache was full when it came, or if the corrected
\* clock went back after it was accepted.
THEOREM OnlySettingBackReadmits ==
    ASSUME CacheConstants
    PROVE  AdmissionSpec => []AcceptedOnceUnlessSetBack
<1> DEFINE Inv == TimeInv /\ AdmissionInv
<1>1. AdmissionInit => Inv
  BY TimeInitInv, AdmissionInitInv DEF AdmissionInit, CacheConstants
<1>2. Inv /\ [AdmissionNext]_admissionVars => Inv'
  <2> SUFFICES ASSUME Inv, [AdmissionNext]_admissionVars PROVE Inv'
    OBVIOUS
  <2>1. [Next]_timeVars
    BY DEF AdmissionNext, ClockStep, CacheStep, admissionVars
  <2>2. TimeInv'
    BY <2>1, TimeNextInv DEF CacheConstants
  <2>3. Corrected \in Int /\ Corrected' \in Int
    BY <2>2 DEF TimeInv, TimeTypes, Corrected
  <2>4. CASE ClockStep
    BY <2>2, <2>3, <2>4, ClockStepInv
  <2>5. CASE CacheStep
    BY <2>2, <2>3, <2>5, CacheStepInv
  <2>6. CASE UNCHANGED admissionVars
    <3>1. Corrected' = Corrected /\ UNCHANGED <<ts, buckets, accepted, again, skipped, unsettled>>
      BY <2>6 DEF admissionVars, timeVars, cacheVars, Corrected
    <3> QED
      BY <2>2, <3>1 DEF AdmissionInv, AcceptedOnceUnlessSetBack, Guarded, Marked
  <2> QED
    BY <2>4, <2>5, <2>6 DEF AdmissionNext
<1>3. Inv => AcceptedOnceUnlessSetBack
  BY DEF AdmissionInv
<1> QED
  BY <1>1, <1>2, <1>3, PTL DEF AdmissionSpec
=============================================================================
