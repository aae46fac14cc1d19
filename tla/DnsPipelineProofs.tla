-------------------------- MODULE DnsPipelineProofs --------------------------
(***************************************************************************)
(* Proofs about DnsPipeline, for any number of queries, tunnels and        *)
(* transaction ids: the upstream never loses an open tunnel, never has two *)
(* readers in their loop, and never runs two setups.                       *)
(***************************************************************************)
EXTENDS DnsPipeline, FiniteSetTheorems, TLAPS

(* The three facts need one another: a setup overwrites _ready without       *)
(* closing what was there, so it must find nothing; it finds nothing because *)
(* only its holder of the lock sets _ready, and because a tunnel whose       *)
(* reader is not done always passes the test at the head of _ensure_ready.   *)
TunnelInv == NoTunnelLeak /\ OneReader /\ SetupExclusive

PipelineInv == TypeOK /\ TunnelInv

-----------------------------------------------------------------------------
(* Dropping leaves nothing open and no reader in its loop, whoever drops.    *)
LEMMA DropLeavesNothing ==
  ASSUME PipelineInv, NEW self \in Tunnels \cup {None}, DropTunnel(self)
  PROVE  /\ ready' = None /\ reader' = None
         /\ \A t \in Tunnels : ~Held(t)'
         /\ \A t \in Tunnels : rstate'[t] \notin {"created", "running"}
         /\ tstate' \in [Tunnels -> {"fresh", "open", "cut", "closed"}]
         /\ rstate' \in [Tunnels -> {"none", "created", "running", "cancelling", "ended"}]
         /\ wire' \subseteq Tunnels \X TxIds \X Queries
<1> USE PipelineAssumption
<1>1. ready' = None /\ reader' = None
  BY DEF DropTunnel
<1>2. ASSUME NEW t \in Tunnels PROVE ~Held(t)'
  BY DEF DropTunnel, PipelineInv, TunnelInv, NoTunnelLeak, Held, TypeOK
<1>3. ASSUME NEW t \in Tunnels
      PROVE  /\ rstate'[t] \notin {"created", "running"}
             /\ rstate'[t] \in {"none", "created", "running", "cancelling", "ended"}
  BY DEF DropTunnel, PipelineInv, TunnelInv, OneReader, Cancelled, TypeOK
<1>4. tstate' \in [Tunnels -> {"fresh", "open", "cut", "closed"}]
  BY DEF DropTunnel, PipelineInv, TypeOK
<1>5. rstate' \in [Tunnels -> {"none", "created", "running", "cancelling", "ended"}]
  BY <1>3 DEF DropTunnel
<1>6. wire' \subseteq Tunnels \X TxIds \X Queries
  BY DEF DropTunnel, PipelineInv, TypeOK
<1> QED
  BY <1>1, <1>2, <1>3, <1>4, <1>5, <1>6

(* After a drop the tunnel invariant is a matter of the lock alone.          *)
LEMMA DropKeepsInv ==
  ASSUME PipelineInv, NEW self \in Tunnels \cup {None}, DropTunnel(self),
         \A q \in Queries : pc'[q] = "setup" <=> lock' = q
  PROVE  TunnelInv'
<1> USE PipelineAssumption
<1>1. /\ ready' = None
      /\ \A t \in Tunnels : ~Held(t)'
      /\ \A t \in Tunnels : rstate'[t] \notin {"created", "running"}
  BY DropLeavesNothing
<1>2. NoTunnelLeak'
  BY <1>1 DEF NoTunnelLeak
<1>3. OneReader'
  BY <1>1 DEF OneReader
<1>4. SetupExclusive'
  BY <1>1 DEF SetupExclusive
<1> QED
  BY <1>2, <1>3, <1>4 DEF TunnelInv

(* Writing a packet keeps the types and moves no tunnel.                     *)
LEMMA SendTypes ==
  ASSUME TypeOK, NEW q \in Queries, NEW t \in Tunnels, SendOn(q, t)
  PROVE  /\ pc' \in [Queries -> Stages]
         /\ tx' \in [Queries -> TxIds]
         /\ via' \in [Queries -> Tunnels \cup {None}]
         /\ fut' \in [Queries -> {"none", "pending", "error"} \cup Queries]
         /\ pending' \in [TxIds -> Queries \cup {None}]
         /\ nextTx' \in TxIds
         /\ wire' \subseteq Tunnels \X TxIds \X Queries
         /\ \E s \in Waiting : pc' = [pc EXCEPT ![q] = s]
<1>1. PICK x \in TxIds :
        /\ nextTx' = NextId(x)
        /\ tx' = [tx EXCEPT ![q] = x]
        /\ via' = [via EXCEPT ![q] = t]
        /\ fut' = [fut EXCEPT ![q] = "pending"]
        /\ pending' = [pending EXCEPT ![x] = q]
        /\ wire' = wire \cup {w \in {<<t, x, q>>} : tstate[t] # "cut"}
        /\ pc' \in {[pc EXCEPT ![q] = s] : s \in Waiting}
  BY DEF SendOn
<1>2. nextTx' \in TxIds
  BY <1>1, PipelineAssumption DEF NextId, TxIds
<1>3. wire' \subseteq Tunnels \X TxIds \X Queries
  BY <1>1 DEF TypeOK
<1>4. \E s \in Waiting : pc' = [pc EXCEPT ![q] = s]
  BY <1>1
<1>5. pc' \in [Queries -> Stages]
  BY <1>4 DEF TypeOK, Waiting, Stages
<1> QED
  BY <1>1, <1>2, <1>3, <1>4, <1>5 DEF TypeOK

(* A failed attempt leaves the tunnel invariant to the lock.                 *)
LEMMA FailTypes ==
  ASSUME PipelineInv, NEW q \in Queries, FailAttempt(q),
         UNCHANGED <<tx, via, nextTx, closed>>, lock' \in Queries \cup {None}
  PROVE  TypeOK'
<1>1. DropTunnel(None)
  BY DEF FailAttempt
<1>2. /\ ready' = None /\ reader' = None
      /\ tstate' \in [Tunnels -> {"fresh", "open", "cut", "closed"}]
      /\ rstate' \in [Tunnels -> {"none", "created", "running", "cancelling", "ended"}]
      /\ wire' \subseteq Tunnels \X TxIds \X Queries
  BY <1>1, DropLeavesNothing
<1>3. pending' \in [TxIds -> Queries \cup {None}]
  BY DEF FailAttempt, PopPending, PipelineInv, TypeOK
<1>4. pc' \in [Queries -> Stages] /\ attempt' \in [Queries -> 0 .. 1]
  BY DEF FailAttempt, PipelineInv, TypeOK, Stages
<1>5. fut' \in [Queries -> {"none", "pending", "error"} \cup Queries]
  BY DEF FailAttempt, PipelineInv, TypeOK
<1> QED
  BY <1>2, <1>3, <1>4, <1>5 DEF PipelineInv, TypeOK

-----------------------------------------------------------------------------
LEMMA PipelineInvInit == Init => PipelineInv
<1> SUFFICES ASSUME Init PROVE PipelineInv
  OBVIOUS
<1> USE PipelineAssumption
<1>0. 1 \in TxIds
  BY DEF TxIds
<1>a. /\ tx \in [Queries -> TxIds]
      /\ nextTx \in TxIds
      /\ pending \in [TxIds -> Queries \cup {None}]
  BY <1>0 DEF Init
<1>b. /\ closed \in BOOLEAN
      /\ wire \subseteq Tunnels \X TxIds \X Queries
  BY DEF Init
<1>1. TypeOK
  BY <1>a, <1>b DEF Init, TypeOK, Stages
<1>2. NoTunnelLeak /\ OneReader /\ SetupExclusive
  BY DEF Init, NoTunnelLeak, OneReader, SetupExclusive, Held
<1> QED
  BY <1>1, <1>2 DEF PipelineInv, TunnelInv

(* The steps of queries.                                                     *)
LEMMA QueryStepInv ==
  ASSUME PipelineInv, NEW q \in Queries, QueryStep(q)
  PROVE  PipelineInv'
<1> USE PipelineAssumption
<1>1. CASE Call(q) \/ Enter(q) \/ Drained(q)
  <2>1. TypeOK'
    BY <1>1 DEF PipelineInv, TypeOK, Call, Enter, Drained, Stages
  <2>2. TunnelInv'
    BY <1>1 DEF PipelineInv, TypeOK, TunnelInv, NoTunnelLeak, OneReader, SetupExclusive,
                Held, Call, Enter, Drained
  <2> QED
    BY <2>1, <2>2 DEF PipelineInv
<1>2. CASE SendOnLive(q)
  <2>1. ready \in Tunnels /\ SendOn(q, ready)
    BY <1>2 DEF SendOnLive, Live, PipelineInv, TypeOK
  <2>2. UNCHANGED <<attempt, lock, ready, reader, tstate, rstate, closed>> /\ pc[q] = "ensure"
    BY <1>2 DEF SendOnLive
  <2>3. TypeOK'
    BY <2>1, <2>2, SendTypes DEF PipelineInv, TypeOK
  <2>4. PICK s \in Waiting : pc' = [pc EXCEPT ![q] = s]
    BY <2>1, SendTypes DEF PipelineInv
  <2>5. TunnelInv'
    BY <2>2, <2>4 DEF PipelineInv, TypeOK, TunnelInv, NoTunnelLeak, OneReader,
                      SetupExclusive, Held, Waiting
  <2> QED
    BY <2>3, <2>5 DEF PipelineInv
<1>3. CASE TakeSetupLock(q)
  <2>1. ready = None
    BY <1>3 DEF TakeSetupLock, Live, PipelineInv, TunnelInv, OneReader, Undone, TypeOK
  <2>2. TypeOK'
    BY <1>3 DEF PipelineInv, TypeOK, TakeSetupLock, Stages
  <2>3. TunnelInv'
    BY <1>3, <2>1 DEF PipelineInv, TypeOK, TunnelInv, NoTunnelLeak, OneReader,
                      SetupExclusive, Held, TakeSetupLock
  <2> QED
    BY <2>2, <2>3 DEF PipelineInv
<1>4. ASSUME NEW t \in Tunnels, SetupOk(q, t) PROVE PipelineInv'
  <2>1. /\ lock = q /\ ready = None
        /\ \A u \in Tunnels : ~Held(u) /\ rstate[u] \notin {"created", "running"}
    BY <1>4 DEF SetupOk, PipelineInv, TunnelInv, NoTunnelLeak, OneReader, SetupExclusive
  <2>2. SendOn(q, t) /\ UNCHANGED <<attempt, closed>>
    BY <1>4 DEF SetupOk
  <2>3. /\ tstate' = [tstate EXCEPT ![t] = "open"]
        /\ rstate' = [rstate EXCEPT ![t] = "created"]
        /\ ready' = t /\ reader' = t /\ lock' = None
    BY <1>4 DEF SetupOk
  <2>4. TypeOK'
    BY <2>2, <2>3, SendTypes DEF PipelineInv, TypeOK
  <2>5. PICK s \in Waiting : pc' = [pc EXCEPT ![q] = s]
    BY <2>2, SendTypes DEF PipelineInv
  <2>6. NoTunnelLeak'
    BY <2>1, <2>3 DEF NoTunnelLeak, Held, PipelineInv, TypeOK
  <2>7. OneReader'
    BY <2>1, <2>3 DEF OneReader, PipelineInv, TypeOK
  <2>8. SetupExclusive'
    BY <2>1, <2>3, <2>5 DEF SetupExclusive, PipelineInv, TunnelInv, TypeOK, Waiting
  <2> QED
    BY <2>4, <2>6, <2>7, <2>8 DEF PipelineInv, TunnelInv
<1>5. CASE SetupFail(q)
  <2>1. /\ pc[q] = "setup" /\ lock' = None /\ FailAttempt(q)
        /\ UNCHANGED <<tx, via, nextTx, closed>>
    BY <1>5 DEF SetupFail
  <2>2. TypeOK'
    BY <2>1, FailTypes
  <2>3. \A p \in Queries : pc'[p] = "setup" <=> lock' = p
    BY <2>1 DEF FailAttempt, PipelineInv, TunnelInv, SetupExclusive, TypeOK
  <2>4. TunnelInv'
    BY <2>1, <2>3, DropKeepsInv DEF FailAttempt
  <2> QED
    BY <2>2, <2>4 DEF PipelineInv
<1>6. CASE SetupTimeout(q)
  <2>1. TypeOK'
    BY <1>6 DEF PipelineInv, TypeOK, SetupTimeout, Stages
  <2>2. TunnelInv'
    BY <1>6 DEF PipelineInv, TypeOK, TunnelInv, NoTunnelLeak, OneReader, SetupExclusive,
                Held, SetupTimeout
  <2> QED
    BY <2>1, <2>2 DEF PipelineInv
<1>7. CASE DrainFail(q) \/ Failed(q)
  <2>1. /\ pc[q] \in Waiting /\ lock' = lock /\ FailAttempt(q)
        /\ UNCHANGED <<tx, via, nextTx, closed>>
    BY <1>7 DEF DrainFail, Failed, Waiting
  <2>2. TypeOK'
    BY <2>1, FailTypes DEF PipelineInv, TypeOK
  <2>3. \A p \in Queries : pc'[p] = "setup" <=> lock' = p
    BY <2>1 DEF FailAttempt, PipelineInv, TunnelInv, SetupExclusive, TypeOK, Waiting
  <2>4. TunnelInv'
    BY <2>1, <2>3, DropKeepsInv DEF FailAttempt
  <2> QED
    BY <2>2, <2>4 DEF PipelineInv
<1>8. CASE Answered(q) \/ Timeout(q)
  <2>1. pending' \in [TxIds -> Queries \cup {None}]
    BY <1>8 DEF Answered, Timeout, PopPending, PipelineInv, TypeOK
  <2>2. TypeOK'
    BY <1>8, <2>1 DEF PipelineInv, TypeOK, Answered, Timeout, Stages
  <2>3. TunnelInv'
    BY <1>8 DEF PipelineInv, TypeOK, TunnelInv, NoTunnelLeak, OneReader, SetupExclusive,
                Held, Answered, Timeout
  <2> QED
    BY <2>2, <2>3 DEF PipelineInv
<1> QED
  BY <1>1, <1>2, <1>3, <1>4, <1>5, <1>6, <1>7, <1>8 DEF QueryStep

(* The steps of readers, of the peer and of the reload.                      *)
LEMMA TunnelStepInv ==
  ASSUME PipelineInv, NEW t \in Tunnels, ReaderStep(t) \/ Cut(t)
  PROVE  PipelineInv'
<1> USE PipelineAssumption
<1>1. CASE ReaderStart(t)
  <2>1. TypeOK'
    BY <1>1 DEF PipelineInv, TypeOK, ReaderStart
  <2>2. TunnelInv'
    BY <1>1 DEF PipelineInv, TypeOK, TunnelInv, NoTunnelLeak, OneReader, SetupExclusive,
                Held, ReaderStart
  <2> QED
    BY <2>1, <2>2 DEF PipelineInv
<1>2. ASSUME NEW m \in wire, ReaderAnswer(t, m) PROVE PipelineInv'
  <2>1. m[2] \in TxIds /\ m[3] \in Queries
    BY DEF PipelineInv, TypeOK
  <2>2. pending' = [pending EXCEPT ![m[2]] = None]
    BY <1>2 DEF ReaderAnswer
  <2>3. ASSUME NEW p \in Queries PROVE fut'[p] = fut[p] \/ fut'[p] = m[3]
    BY <1>2 DEF ReaderAnswer
  <2>4. fut' \in [Queries -> {"none", "pending", "error"} \cup Queries]
    <3>1. fut' = [p \in Queries |-> fut'[p]]
      BY <1>2 DEF ReaderAnswer
    <3>2. \A p \in Queries : fut'[p] \in {"none", "pending", "error"} \cup Queries
      BY <2>1, <2>3 DEF PipelineInv, TypeOK
    <3> QED
      BY <3>1, <3>2
  <2>5. TypeOK'
    BY <1>2, <2>1, <2>2, <2>4 DEF PipelineInv, TypeOK, ReaderAnswer
  <2>6. TunnelInv'
    BY <1>2 DEF PipelineInv, TypeOK, TunnelInv, NoTunnelLeak, OneReader, SetupExclusive,
                Held, ReaderAnswer
  <2> QED
    BY <2>5, <2>6 DEF PipelineInv
<1>3. CASE ReaderFail(t) \/ ReaderCancelled(t)
  <2>1. DropTunnel(t) /\ UNCHANGED <<pc, attempt, tx, via, nextTx, lock, closed>>
    BY <1>3 DEF ReaderFail, ReaderCancelled
  <2>2. /\ fut' \in [Queries -> {"none", "pending", "error"} \cup Queries]
        /\ pending' \in [TxIds -> Queries \cup {None}]
    BY <1>3 DEF ReaderFail, ReaderCancelled, PipelineInv, TypeOK
  <2>3. /\ ready' = None /\ reader' = None
        /\ tstate' \in [Tunnels -> {"fresh", "open", "cut", "closed"}]
        /\ rstate' \in [Tunnels -> {"none", "created", "running", "cancelling", "ended"}]
        /\ wire' \subseteq Tunnels \X TxIds \X Queries
    BY <2>1, DropLeavesNothing
  <2>4. TypeOK'
    BY <2>1, <2>2, <2>3 DEF PipelineInv, TypeOK
  <2>5. \A p \in Queries : pc'[p] = "setup" <=> lock' = p
    BY <2>1 DEF PipelineInv, TunnelInv, SetupExclusive
  <2>6. TunnelInv'
    BY <2>1, <2>5, DropKeepsInv
  <2> QED
    BY <2>4, <2>6 DEF PipelineInv
<1>4. CASE Cut(t)
  <2>1. TypeOK'
    BY <1>4 DEF PipelineInv, TypeOK, Cut
  <2>2. TunnelInv'
    BY <1>4 DEF PipelineInv, TypeOK, TunnelInv, NoTunnelLeak, OneReader, SetupExclusive,
                Held, Cut
  <2> QED
    BY <2>1, <2>2 DEF PipelineInv
<1> QED
  BY <1>1, <1>2, <1>3, <1>4 DEF ReaderStep

LEMMA CloseInv ==
  ASSUME PipelineInv, Close
  PROVE  PipelineInv'
<1>1. DropTunnel(None) /\ UNCHANGED <<pc, attempt, tx, via, fut, pending, nextTx, lock>>
      /\ closed' = TRUE
  BY DEF Close
<1>2. TypeOK'
  BY <1>1, DropLeavesNothing DEF PipelineInv, TypeOK
<1>3. \A p \in Queries : pc'[p] = "setup" <=> lock' = p
  BY <1>1 DEF PipelineInv, TunnelInv, SetupExclusive
<1>4. TunnelInv'
  BY <1>1, <1>3, DropKeepsInv
<1> QED
  BY <1>2, <1>4 DEF PipelineInv

LEMMA PipelineInvStep == PipelineInv /\ [Next]_vars => PipelineInv'
<1> SUFFICES ASSUME PipelineInv, [Next]_vars PROVE PipelineInv'
  OBVIOUS
<1>1. CASE UNCHANGED vars
  BY <1>1 DEF vars, PipelineInv, TypeOK, TunnelInv, NoTunnelLeak, OneReader,
              SetupExclusive, Held
<1>2. CASE Next
  BY <1>2, QueryStepInv, TunnelStepInv, CloseInv DEF Next
<1> QED
  BY <1>1, <1>2

(* Every variable of the pipeline keeps its range.                           *)
THEOREM TypeCorrect == Spec => []TypeOK
<1>1. PipelineInv => TypeOK
  BY DEF PipelineInv
<1> QED
  BY PipelineInvInit, PipelineInvStep, <1>1, PTL DEF Spec

(* However drops, retries, late finally clauses, setups and close() fall:    *)
(* every tunnel acquired and not closed is the current one.                  *)
THEOREM NoTunnelIsLeaked == Spec => []NoTunnelLeak
<1>1. PipelineInv => NoTunnelLeak
  BY DEF PipelineInv, TunnelInv
<1> QED
  BY PipelineInvInit, PipelineInvStep, <1>1, PTL DEF Spec

(* At most one reader is in its loop, and it reads the current tunnel.       *)
THEOREM OneReaderOnly == Spec => []OneReader
<1>1. PipelineInv => OneReader
  BY DEF PipelineInv, TunnelInv
<1> QED
  BY PipelineInvInit, PipelineInvStep, <1>1, PTL DEF Spec

(* Setups exclude one another and replace no tunnel.                         *)
THEOREM SetupsAreExclusive == Spec => []SetupExclusive
<1>1. PipelineInv => SetupExclusive
  BY DEF PipelineInv, TunnelInv
<1> QED
  BY PipelineInvInit, PipelineInvStep, <1>1, PTL DEF Spec
-----------------------------------------------------------------------------
(* Transaction ids.  The attempts that may have sent a packet; each takes    *)
(* one id at most.  While they are no more than the ids, none comes round.   *)
Attempts == Queries \X (0 .. 1)
Past == Waiting \cup {"done", "failed"}
Spent == {s \in Attempts : \/ s[2] < attempt[s[1]]
                           \/ s[2] = attempt[s[1]] /\ pc[s[1]] \in Past}
FewSent == Cardinality(Spent) <= NumTx

(* Until then the ids from nextTx on are in nobody's hands; an id names one  *)
(* query that waits, and the answers under it are answers to that query.     *)
Unused(x) ==
    /\ pending[x] = None
    /\ \A m \in wire : m[2] # x
    /\ \A q \in Queries : pc[q] \in Waiting => tx[q] # x

IdsLeft ==
    \/ /\ nextTx - 1 <= Cardinality(Spent)
       /\ \A x \in TxIds : x >= nextTx => Unused(x)
    \/ nextTx = 1 /\ NumTx <= Cardinality(Spent)

OwnId == \A p, q \in Queries :
    pc[p] \in Waiting /\ pc[q] \in Waiting /\ tx[p] = tx[q] => p = q

OwnAnswer == \A m \in wire, q \in Queries :
    pc[q] \in Waiting /\ tx[q] = m[2] => m[3] = q

Ids == IdsLeft /\ OwnId /\ OwnAnswer /\ PendingAccounted /\ AnswersMatch

(* An attempt never becomes unsent.                                          *)
Onward(q) ==
    \/ attempt'[q] = attempt[q] /\ (pc[q] \in Past => pc'[q] \in Past)
    \/ attempt[q] = 0 /\ attempt'[q] = 1

LEMMA AttemptsFinite ==
    ASSUME IsFiniteSet(Queries)
    PROVE  IsFiniteSet(Attempts)
<1>1. 0 \in Int /\ 1 \in Int
  OBVIOUS
<1>2. IsFiniteSet(0 .. 1)
  BY <1>1, FS_Interval
<1>3. IsFiniteSet(Attempts)
  BY <1>2, FS_Product DEF Attempts
<1> QED
  BY <1>3

LEMMA SpentGrows ==
    ASSUME IsFiniteSet(Queries), TypeOK, \A q \in Queries : Onward(q)
    PROVE  /\ Spent \subseteq Spent'
           /\ IsFiniteSet(Spent') /\ Cardinality(Spent') \in Nat
           /\ Cardinality(Spent) \in Nat /\ Cardinality(Spent) <= Cardinality(Spent')
<1>1. ASSUME NEW s \in Spent PROVE s \in Spent'
  <2>1. s[1] \in Queries /\ s[2] \in 0 .. 1 /\ attempt[s[1]] \in 0 .. 1 /\ s \in Attempts
    BY DEF Spent, Attempts, TypeOK
  <2>2. Onward(s[1])
    BY <2>1
  <2>3. \/ s[2] < attempt'[s[1]]
        \/ s[2] = attempt'[s[1]] /\ pc'[s[1]] \in Past
    BY <2>1, <2>2 DEF Onward, Spent
  <2> QED
    BY <2>1, <2>3 DEF Spent
<1>2. Spent \subseteq Spent'
  BY <1>1
<1>3. IsFiniteSet(Spent')
  BY AttemptsFinite, FS_Subset DEF Spent
<1> QED
  BY <1>2, <1>3, FS_Subset, FS_CardinalityType

(* A step that sends nothing leaves the ids as they were.                    *)
LEMMA QuietIds ==
    ASSUME IsFiniteSet(Queries), TypeOK, Ids, \A q \in Queries : Onward(q),
           nextTx' = nextTx, tx' = tx, wire' \subseteq wire,
           \A q \in Queries : pc'[q] \in Waiting => pc[q] \in Waiting,
           \A x \in TxIds : pending'[x] \in {pending[x], None}
    PROVE  IdsLeft' /\ OwnId' /\ OwnAnswer'
<1>1. IdsLeft'
  <2>1. Cardinality(Spent) \in Nat /\ Cardinality(Spent') \in Nat
        /\ Cardinality(Spent) <= Cardinality(Spent')
    BY SpentGrows
  <2>2. ASSUME NEW x \in TxIds, Unused(x) PROVE Unused(x)'
    BY <2>2 DEF Unused
  <2>3. nextTx \in Nat /\ NumTx \in Nat
    BY PipelineAssumption DEF TypeOK, TxIds
  <2>4. CASE /\ nextTx - 1 <= Cardinality(Spent)
             /\ \A x \in TxIds : x >= nextTx => Unused(x)
    <3>1. nextTx' - 1 <= Cardinality(Spent')
      BY <2>1, <2>3, <2>4
    <3>2. \A x \in TxIds : x >= nextTx' => Unused(x)'
      BY <2>2, <2>4
    <3> QED
      BY <3>1, <3>2 DEF IdsLeft
  <2>5. CASE nextTx = 1 /\ NumTx <= Cardinality(Spent)
    <3>1. nextTx' = 1 /\ NumTx <= Cardinality(Spent')
      BY <2>1, <2>3, <2>5
    <3> QED
      BY <3>1 DEF IdsLeft
  <2> QED
    BY <2>4, <2>5 DEF Ids, IdsLeft
<1>2. OwnId'
  BY DEF Ids, OwnId
<1>3. OwnAnswer'
  BY DEF Ids, OwnAnswer
<1> QED
  BY <1>1, <1>2, <1>3

(* A packet goes out under the next id, which nobody holds.                  *)
LEMMA SendIds ==
    ASSUME IsFiniteSet(Queries), TypeOK, Ids, FewSent', NEW q \in Queries, NEW t \in Tunnels,
           SendOn(q, t), pc[q] \in {"ensure", "setup"}, attempt' = attempt
    PROVE  Ids'
<1> USE PipelineAssumption
<1>1. PICK x \in TxIds :
        /\ AllocateTx(x)
        /\ nextTx' = NextId(x)
        /\ tx' = [tx EXCEPT ![q] = x]
        /\ fut' = [fut EXCEPT ![q] = "pending"]
        /\ pending' = [pending EXCEPT ![x] = q]
        /\ wire' \subseteq wire \cup {<<t, x, q>>}
        /\ pc' \in {[pc EXCEPT ![q] = s] : s \in Waiting}
  <2>1. PICK x \in TxIds :
          /\ AllocateTx(x)
          /\ nextTx' = NextId(x)
          /\ tx' = [tx EXCEPT ![q] = x]
          /\ fut' = [fut EXCEPT ![q] = "pending"]
          /\ pending' = [pending EXCEPT ![x] = q]
          /\ wire' = wire \cup {w \in {<<t, x, q>>} : tstate[t] # "cut"}
          /\ pc' \in {[pc EXCEPT ![q] = s] : s \in Waiting}
    BY DEF SendOn
  <2>2. wire' \subseteq wire \cup {<<t, x, q>>}
    BY <2>1
  <2> QED
    BY <2>1, <2>2
<1>2. /\ nextTx \in 1 .. NumTx /\ x \in 1 .. NumTx /\ NumTx \in Nat
      /\ pending \in [TxIds -> Queries \cup {None}]
      /\ attempt[q] \in 0 .. 1
      /\ tx \in [Queries -> TxIds] /\ pc \in [Queries -> Stages]
      /\ fut \in [Queries -> {"none", "pending", "error"} \cup Queries]
  BY DEF TypeOK, TxIds
<1>3. pc'[q] \in Waiting /\ \A p \in Queries \ {q} : pc'[p] = pc[p]
  BY <1>1, <1>2
<1>4. <<q, attempt[q]>> \notin Spent /\ <<q, attempt[q]>> \in Spent'
  <2>1. pc[q] \notin Past /\ pc'[q] \in Past
    BY <1>3 DEF Past, Waiting
  <2>2. <<q, attempt[q]>> \in Attempts
    BY <1>2 DEF Attempts
  <2> QED
    BY <1>2, <2>1, <2>2 DEF Spent
<1>5. /\ Spent \subseteq Spent' /\ IsFiniteSet(Spent') /\ Cardinality(Spent') \in Nat
      /\ Cardinality(Spent) \in Nat
  <2>1. \A p \in Queries : Onward(p)
    BY <1>3 DEF Onward, Past
  <2> QED
    BY <2>1, SpentGrows
<1>6. Cardinality(Spent) + 1 <= Cardinality(Spent')
  <2>1. /\ Cardinality(Spent) < Cardinality(Spent')
    <3>1. Spent # Spent'
      BY <1>4
    <3> QED
      BY <1>5, <3>1, FS_Subset
  <2> QED
    BY <1>5, <2>1
<1>7. /\ nextTx - 1 <= Cardinality(Spent)
      /\ \A y \in TxIds : y >= nextTx => Unused(y)
  BY <1>2, <1>5, <1>6 DEF Ids, IdsLeft, FewSent
<1>8. x = nextTx
  <2>1. nextTx \in TxIds /\ pending[nextTx] = None
    BY <1>2, <1>7 DEF Unused, TxIds
  <2>2. ~(Distance(nextTx) < Distance(x))
    BY <1>1, <2>1 DEF AllocateTx
  <2> QED
    BY <1>2, <2>2 DEF Distance
<1>9. Unused(x)
  BY <1>2, <1>7, <1>8
<1>10. IdsLeft'
  <2>1. CASE x = NumTx
    <3>1. nextTx' = 1
      BY <1>1, <2>1 DEF NextId
    <3>2. NumTx <= Cardinality(Spent')
      BY <1>2, <1>5, <1>6, <1>7, <1>8, <2>1
    <3> QED
      BY <3>1, <3>2 DEF IdsLeft
  <2>2. CASE x # NumTx
    <3>1. nextTx' = nextTx + 1
      BY <1>1, <1>8, <2>2 DEF NextId
    <3>2. nextTx' - 1 <= Cardinality(Spent')
      BY <1>2, <1>5, <1>6, <1>7, <3>1
    <3>3. ASSUME NEW y \in TxIds, y >= nextTx' PROVE Unused(y)'
      <4>1. y # x /\ Unused(y)
        BY <1>2, <1>7, <1>8, <3>1, <3>3 DEF TxIds
      <4>2. pending'[y] = None
        BY <1>1, <1>2, <4>1 DEF Unused
      <4>3. \A m \in wire' : m[2] # y
        BY <1>1, <4>1 DEF Unused
      <4>4. \A p \in Queries : pc'[p] \in Waiting => tx'[p] # y
        BY <1>1, <1>2, <1>3, <4>1 DEF Unused
      <4> QED
        BY <4>2, <4>3, <4>4 DEF Unused
    <3> QED
      BY <3>2, <3>3 DEF IdsLeft
  <2> QED
    BY <2>1, <2>2
<1>11. tx'[q] = x /\ \A p \in Queries \ {q} : tx'[p] = tx[p] /\ fut'[p] = fut[p]
  BY <1>1, <1>2
<1>12. OwnId'
  BY <1>3, <1>9, <1>11 DEF Ids, OwnId, Unused
<1>13. OwnAnswer'
  <2> SUFFICES ASSUME NEW m \in wire', NEW p \in Queries, pc'[p] \in Waiting, tx'[p] = m[2]
               PROVE  m[3] = p
    BY DEF OwnAnswer
  <2>1. CASE m = <<t, x, q>>
    BY <1>3, <1>9, <1>11, <2>1 DEF Unused
  <2>2. CASE m \in wire
    BY <1>3, <1>9, <1>11, <2>2 DEF Unused, Ids, OwnAnswer
  <2> QED
    BY <1>1, <2>1, <2>2
<1>14. PendingAccounted'
  <2> SUFFICES ASSUME NEW p \in Queries, NEW y \in TxIds
               PROVE  pending'[y] = p <=> pc'[p] \in Waiting /\ fut'[p] = "pending" /\ tx'[p] = y
    BY DEF PendingAccounted
  <2>1. pending[y] = p <=> pc[p] \in Waiting /\ fut[p] = "pending" /\ tx[p] = y
    BY DEF Ids, PendingAccounted
  <2>2. pc[q] \notin Waiting /\ fut'[q] = "pending"
    BY <1>1, <1>2 DEF Waiting
  <2>3. CASE p = q
    BY <1>1, <1>2, <1>3, <1>11, <2>1, <2>2, <2>3
  <2>4. CASE p # q
    <3>1. pending'[y] = p <=> pending[y] = p
      BY <1>1, <1>2, <1>9, <2>4 DEF Unused
    <3> QED
      BY <1>3, <1>11, <2>1, <2>4, <3>1
  <2> QED
    BY <2>3, <2>4
<1>15. AnswersMatch'
  BY <1>1, <1>2 DEF Ids, AnswersMatch
<1> QED
  BY <1>10, <1>12, <1>13, <1>14, <1>15 DEF Ids
(* A step that touches neither futures nor the table.                        *)
LEMMA StillIds ==
    ASSUME IsFiniteSet(Queries), TypeOK, Ids, \A q \in Queries : Onward(q),
           nextTx' = nextTx, tx' = tx, wire' \subseteq wire, pending' = pending, fut' = fut,
           \A q \in Queries : pc'[q] \in Waiting <=> pc[q] \in Waiting
    PROVE  Ids'
<1>1. IdsLeft' /\ OwnId' /\ OwnAnswer'
  BY QuietIds
<1>2. PendingAccounted' /\ AnswersMatch'
  BY DEF Ids, PendingAccounted, AnswersMatch
<1> QED
  BY <1>1, <1>2 DEF Ids

(* The finally clause of _send_recv pops the entry of its own query only.    *)
LEMMA PopIds ==
    ASSUME IsFiniteSet(Queries), TypeOK, Ids, \A q \in Queries : Onward(q),
           nextTx' = nextTx, tx' = tx, wire' \subseteq wire,
           NEW q \in Queries, PopPending(q), pc'[q] \notin Waiting,
           fut'[q] \in {fut[q], "none"},
           \A p \in Queries \ {q} : pc'[p] = pc[p] /\ fut'[p] = fut[p]
    PROVE  Ids'
<1> USE PipelineAssumption
<1>1. /\ pending \in [TxIds -> Queries \cup {None}] /\ tx \in [Queries -> TxIds]
  BY DEF TypeOK
<1>2. \A x \in TxIds : pending'[x] = IF pc[q] \in Waiting /\ tx[q] = x THEN None ELSE pending[x]
  BY <1>1 DEF PopPending
<1>3. IdsLeft' /\ OwnId' /\ OwnAnswer'
  <2>1. \A x \in TxIds : pending'[x] \in {pending[x], None}
    BY <1>2
  <2>2. \A p \in Queries : pc'[p] \in Waiting => pc[p] \in Waiting
    OBVIOUS
  <2> QED
    BY <2>1, <2>2, QuietIds
<1>4. PendingAccounted'
  <2> SUFFICES ASSUME NEW p \in Queries, NEW x \in TxIds
               PROVE  pending'[x] = p <=> pc'[p] \in Waiting /\ fut'[p] = "pending" /\ tx'[p] = x
    BY DEF PendingAccounted
  <2>1. pending[x] = p <=> pc[p] \in Waiting /\ fut[p] = "pending" /\ tx[p] = x
    BY DEF Ids, PendingAccounted
  <2>2. CASE p = q
    BY <1>2, <2>1, <2>2
  <2>3. CASE p # q
    <3>1. pc[p] \in Waiting /\ pc[q] \in Waiting => tx[p] # tx[q]
      BY <2>3 DEF Ids, OwnId
    <3> QED
      BY <1>2, <2>1, <2>3, <3>1
  <2> QED
    BY <2>2, <2>3
<1>5. AnswersMatch'
  <2> SUFFICES ASSUME NEW p \in Queries, fut'[p] \in Queries PROVE fut'[p] = p
    BY DEF AnswersMatch
  <2> QED
    BY DEF Ids, AnswersMatch
<1> QED
  BY <1>3, <1>4, <1>5 DEF Ids

LEMMA FailIds ==
    ASSUME IsFiniteSet(Queries), TypeOK, Ids, NEW q \in Queries, FailAttempt(q),
           pc[q] \in {"setup"} \cup Waiting, UNCHANGED <<tx, via, nextTx, closed>>
    PROVE  Ids'
<1>1. /\ PopPending(q) /\ wire' \subseteq wire
      /\ fut' = [fut EXCEPT ![q] = "none"]
      /\ attempt' = [attempt EXCEPT ![q] = 1]
      /\ pc' = [pc EXCEPT ![q] = IF attempt[q] = 1 THEN "failed" ELSE "ensure"]
  BY DEF FailAttempt, DropTunnel
<1>2. /\ attempt \in [Queries -> 0 .. 1] /\ pc \in [Queries -> Stages]
      /\ fut \in [Queries -> {"none", "pending", "error"} \cup Queries]
  BY DEF TypeOK
<1>3. \A p \in Queries \ {q} : pc'[p] = pc[p] /\ fut'[p] = fut[p] /\ attempt'[p] = attempt[p]
  BY <1>1, <1>2
<1>4. fut'[q] = "none" /\ attempt'[q] = 1 /\ pc'[q] = IF attempt[q] = 1 THEN "failed" ELSE "ensure"
  BY <1>1, <1>2
<1>5. \A p \in Queries : Onward(p)
  <2>1. Onward(q)
    <3>1. attempt[q] = 0 \/ attempt[q] = 1
      BY <1>2
    <3> QED
      BY <1>4, <3>1 DEF Onward, Past
  <2> QED
    BY <1>3, <2>1 DEF Onward
<1>6. pc'[q] \notin Waiting
  BY <1>4 DEF Waiting
<1> QED
  BY <1>1, <1>3, <1>4, <1>5, <1>6, PopIds

-----------------------------------------------------------------------------
(* What every step does to the attempts.                                     *)
LEMMA StepOnward ==
    ASSUME TypeOK, Next
    PROVE  \A q \in Queries : Onward(q)
<1> SUFFICES ASSUME NEW p \in Queries PROVE Onward(p)
  OBVIOUS
<1> USE DEF Onward, Past, Waiting
<1>1. attempt \in [Queries -> 0 .. 1] /\ pc \in [Queries -> Stages]
  BY DEF TypeOK
<1>2. ASSUME NEW q \in Queries, QueryStep(q) PROVE Onward(p)
  <2>1. CASE FailAttempt(q)
    <3>1. attempt'[q] = 1 /\ (attempt[q] = 1 => pc'[q] = "failed")
      BY <1>1, <2>1 DEF FailAttempt
    <3>2. attempt[q] = 0 \/ attempt[q] = 1
      BY <1>1
    <3>3. p # q => attempt'[p] = attempt[p] /\ pc'[p] = pc[p]
      BY <1>1, <2>1 DEF FailAttempt
    <3> QED
      BY <3>1, <3>2, <3>3
  <2>2. CASE ~FailAttempt(q)
    <3>1. attempt' = attempt /\ (p # q => pc'[p] = pc[p])
      <4>1. CASE Call(q) \/ Enter(q) \/ TakeSetupLock(q) \/ SetupTimeout(q) \/ Drained(q)
                 \/ Answered(q) \/ Timeout(q)
        BY <1>1, <4>1 DEF Call, Enter, TakeSetupLock, SetupTimeout, Drained, Answered, Timeout
      <4>2. CASE SendOnLive(q) \/ \E t \in Tunnels : SetupOk(q, t)
        BY <1>1, <4>2 DEF SendOnLive, SetupOk, SendOn
      <4> QED
        BY <1>2, <2>2, <4>1, <4>2 DEF QueryStep, SetupFail, DrainFail, Failed
    <3>2. pc[q] \in Past => pc'[q] \in Past
      <4>1. CASE Call(q) \/ Enter(q) \/ TakeSetupLock(q) \/ SetupTimeout(q) \/ Drained(q)
                 \/ Answered(q) \/ Timeout(q)
        BY <1>1, <4>1 DEF Call, Enter, TakeSetupLock, SetupTimeout, Drained, Answered, Timeout
      <4>2. CASE SendOnLive(q) \/ \E t \in Tunnels : SetupOk(q, t)
        BY <1>1, <4>2 DEF SendOnLive, SetupOk
      <4> QED
        BY <1>2, <2>2, <4>1, <4>2 DEF QueryStep, SetupFail, DrainFail, Failed
    <3> QED
      BY <3>1, <3>2
  <2> QED
    BY <2>1, <2>2
<1>3. ASSUME NEW t \in Tunnels, ReaderStep(t) \/ Cut(t) PROVE Onward(p)
  BY <1>3 DEF ReaderStep, ReaderStart, ReaderFail, ReaderCancelled, ReaderAnswer, Cut
<1>4. CASE Close
  BY <1>4 DEF Close
<1> QED
  BY <1>2, <1>3, <1>4 DEF Next

LEMMA QueryStepIds ==
    ASSUME IsFiniteSet(Queries), PipelineInv, Ids, FewSent', Next,
           NEW q \in Queries, QueryStep(q)
    PROVE  Ids'
<1> USE PipelineAssumption
<1>0. TypeOK /\ \A p \in Queries : Onward(p)
  BY StepOnward DEF PipelineInv
<1>1. CASE Call(q) \/ Enter(q) \/ TakeSetupLock(q) \/ SetupTimeout(q) \/ Drained(q)
  <2>1. UNCHANGED <<tx, fut, pending, nextTx, wire>>
    BY <1>1 DEF Call, Enter, TakeSetupLock, SetupTimeout, Drained
  <2>2. \A p \in Queries : pc'[p] \in Waiting <=> pc[p] \in Waiting
    BY <1>0, <1>1 DEF Call, Enter, TakeSetupLock, SetupTimeout, Drained, Waiting, TypeOK
  <2> QED
    BY <1>0, <2>1, <2>2, StillIds
<1>2. CASE SendOnLive(q)
  <2>1. ready \in Tunnels /\ SendOn(q, ready) /\ pc[q] = "ensure" /\ attempt' = attempt
    BY <1>0, <1>2 DEF SendOnLive, Live, TypeOK
  <2> QED
    BY <1>0, <2>1, SendIds
<1>3. ASSUME NEW t \in Tunnels, SetupOk(q, t) PROVE Ids'
  <2>1. SendOn(q, t) /\ pc[q] = "setup" /\ attempt' = attempt
    BY <1>3 DEF SetupOk
  <2> QED
    BY <1>0, <2>1, SendIds
<1>4. CASE SetupFail(q) \/ DrainFail(q) \/ Failed(q)
  <2>1. /\ FailAttempt(q) /\ pc[q] \in {"setup"} \cup Waiting
        /\ UNCHANGED <<tx, via, nextTx, closed>>
    BY <1>4 DEF SetupFail, DrainFail, Failed, Waiting
  <2> QED
    BY <1>0, <2>1, FailIds
<1>5. CASE Answered(q) \/ Timeout(q)
  <2>1. /\ PopPending(q) /\ UNCHANGED <<tx, nextTx, wire>>
        /\ pc'[q] \notin Waiting /\ fut'[q] \in {fut[q], "none"}
        /\ \A p \in Queries \ {q} : pc'[p] = pc[p] /\ fut'[p] = fut[p]
    BY <1>0, <1>5 DEF Answered, Timeout, Waiting, TypeOK
  <2> QED
    BY <1>0, <2>1, PopIds
<1> QED
  BY <1>1, <1>2, <1>3, <1>4, <1>5 DEF QueryStep

LEMMA TunnelStepIds ==
    ASSUME IsFiniteSet(Queries), PipelineInv, Ids, Next,
           NEW t \in Tunnels, ReaderStep(t) \/ Cut(t)
    PROVE  Ids'
<1> USE PipelineAssumption
<1>0. TypeOK /\ \A p \in Queries : Onward(p)
  BY StepOnward DEF PipelineInv
<1>1. CASE ReaderStart(t) \/ ReaderCancelled(t) \/ Cut(t)
  <2>1. UNCHANGED <<pc, tx, fut, pending, nextTx>> /\ wire' \subseteq wire
    BY <1>1 DEF ReaderStart, ReaderCancelled, DropTunnel, Cut
  <2> QED
    BY <1>0, <2>1, StillIds
<1>2. ASSUME NEW m \in wire, ReaderAnswer(t, m) PROVE Ids'
  <2>1. m[2] \in TxIds /\ m[3] \in Queries /\ pending \in [TxIds -> Queries \cup {None}]
    BY <1>0 DEF TypeOK
  <2>2. /\ UNCHANGED <<pc, tx, nextTx>> /\ wire' \subseteq wire
        /\ pending' = [pending EXCEPT ![m[2]] = None]
        /\ \A p \in Queries : fut'[p] = IF p = pending[m[2]] /\ fut[p] = "pending"
                                        THEN m[3] ELSE fut[p]
    BY <1>2 DEF ReaderAnswer
  <2>3. \A x \in TxIds : pending'[x] = IF x = m[2] THEN None ELSE pending[x]
    BY <2>1, <2>2
  <2>4. IdsLeft' /\ OwnId' /\ OwnAnswer'
    <3>1. \A x \in TxIds : pending'[x] \in {pending[x], None}
      BY <2>3
    <3> QED
      BY <1>0, <2>2, <3>1, QuietIds
  <2>5. PendingAccounted'
    <3> SUFFICES ASSUME NEW p \in Queries, NEW x \in TxIds
                 PROVE  pending'[x] = p <=> pc'[p] \in Waiting /\ fut'[p] = "pending" /\ tx'[p] = x
      BY DEF PendingAccounted
    <3>1. /\ pending[x] = p <=> pc[p] \in Waiting /\ fut[p] = "pending" /\ tx[p] = x
          /\ pending[m[2]] = p <=> pc[p] \in Waiting /\ fut[p] = "pending" /\ tx[p] = m[2]
      BY <2>1 DEF Ids, PendingAccounted
    <3>2. m[3] # "pending"
      BY <2>1
    <3> QED
      BY <2>2, <2>3, <3>1, <3>2
  <2>6. AnswersMatch'
    <3> SUFFICES ASSUME NEW p \in Queries, fut'[p] \in Queries PROVE fut'[p] = p
      BY DEF AnswersMatch
    <3>1. CASE p = pending[m[2]] /\ fut[p] = "pending"
      <4>1. pc[p] \in Waiting /\ tx[p] = m[2]
        BY <2>1, <3>1 DEF Ids, PendingAccounted
      <4> QED
        BY <2>2, <3>1, <4>1 DEF Ids, OwnAnswer
    <3>2. CASE ~(p = pending[m[2]] /\ fut[p] = "pending")
      BY <2>2, <3>2 DEF Ids, AnswersMatch
    <3> QED
      BY <3>1, <3>2
  <2> QED
    BY <2>4, <2>5, <2>6 DEF Ids
<1>3. CASE ReaderFail(t)
  <2>1. /\ UNCHANGED <<pc, tx, nextTx>> /\ wire' \subseteq wire
        /\ \A x \in TxIds : pending'[x] = None
        /\ \A p \in Queries : fut'[p] = IF \E x \in TxIds : pending[x] = p /\ fut[p] = "pending"
                                        THEN "error" ELSE fut[p]
    BY <1>3 DEF ReaderFail, DropTunnel
  <2>2. IdsLeft' /\ OwnId' /\ OwnAnswer'
    BY <1>0, <2>1, QuietIds
  <2>3. PendingAccounted'
    <3> SUFFICES ASSUME NEW p \in Queries, NEW x \in TxIds
                 PROVE  pending'[x] = p <=> pc'[p] \in Waiting /\ fut'[p] = "pending" /\ tx'[p] = x
      BY DEF PendingAccounted
    <3>1. pending[x] = p <=> pc[p] \in Waiting /\ fut[p] = "pending" /\ tx[p] = x
      BY DEF Ids, PendingAccounted
    <3>2. pending'[x] # p
      BY <2>1
    <3>3. pc[p] \in Waiting /\ tx[p] = x => fut'[p] # "pending"
      BY <2>1, <3>1
    <3> QED
      BY <2>1, <3>2, <3>3
  <2>4. AnswersMatch'
    <3> SUFFICES ASSUME NEW p \in Queries, fut'[p] \in Queries PROVE fut'[p] = p
      BY DEF AnswersMatch
    <3> QED
      BY <2>1 DEF Ids, AnswersMatch
  <2> QED
    BY <2>2, <2>3, <2>4 DEF Ids
<1> QED
  BY <1>1, <1>2, <1>3 DEF ReaderStep

LEMMA IdsInit == IsFiniteSet(Queries) /\ Init => Ids
<1> SUFFICES ASSUME IsFiniteSet(Queries), Init PROVE Ids
  OBVIOUS
<1> USE PipelineAssumption
<1>1. IdsLeft
  <2>1. Cardinality(Spent) \in Nat
    BY AttemptsFinite, FS_Subset, FS_CardinalityType DEF Spent
  <2>2. \A x \in TxIds : Unused(x)
    BY DEF Init, Unused, Waiting
  <2> QED
    BY <2>1, <2>2 DEF Init, IdsLeft
<1>2. OwnId /\ OwnAnswer
  BY DEF Init, OwnId, OwnAnswer, Waiting
<1>3. PendingAccounted /\ AnswersMatch
  BY DEF Init, PendingAccounted, AnswersMatch, Waiting
<1> QED
  BY <1>1, <1>2, <1>3 DEF Ids

(* While the ids have not come round once, every step keeps Ids.             *)
LEMMA IdsStep ==
    ASSUME IsFiniteSet(Queries), PipelineInv, FewSent => Ids, [Next]_vars
    PROVE  FewSent' => Ids'
<1> SUFFICES ASSUME FewSent' PROVE Ids'
  OBVIOUS
<1>1. CASE UNCHANGED vars
  <2>1. Spent' = Spent
    BY <1>1 DEF vars, Spent
  <2>2. FewSent
    BY <2>1 DEF FewSent
  <2> QED
    BY <1>1, <2>1, <2>2 DEF vars, Ids, IdsLeft, Unused, OwnId, OwnAnswer, PendingAccounted,
                            AnswersMatch
<1>2. CASE Next
  <2>1. TypeOK /\ \A p \in Queries : Onward(p)
    BY <1>2, StepOnward DEF PipelineInv
  <2>2. FewSent
    <3>1. Cardinality(Spent) \in Nat /\ Cardinality(Spent') \in Nat
          /\ Cardinality(Spent) <= Cardinality(Spent')
      BY <2>1, SpentGrows
    <3> QED
      BY <3>1, PipelineAssumption DEF FewSent
  <2>3. CASE Close
    <3>1. UNCHANGED <<pc, tx, fut, pending, nextTx>> /\ wire' \subseteq wire
      BY <2>3 DEF Close, DropTunnel
    <3> QED
      BY <2>1, <2>2, <3>1, StillIds
  <2> QED
    BY <1>2, <2>2, <2>3, QueryStepIds, TunnelStepIds DEF Next
<1> QED
  BY <1>1, <1>2

LEMMA IdsInvariant ==
    ASSUME IsFiniteSet(Queries)
    PROVE  Spec => [](FewSent => Ids)
<1>1. Init => PipelineInv /\ (FewSent => Ids)
  BY PipelineInvInit, IdsInit
<1>2. PipelineInv /\ (FewSent => Ids) /\ [Next]_vars => (PipelineInv /\ (FewSent => Ids))'
  BY PipelineInvStep, IdsStep
<1> QED
  BY <1>1, <1>2, PTL DEF Spec

(* As long as no more attempts were made than there are ids, a query that    *)
(* has an answer has its own, whatever was dropped, retried or timed out.    *)
THEOREM AnswersAreMatched ==
    ASSUME IsFiniteSet(Queries)
    PROVE  Spec => [](FewSent => AnswersMatch)
<1>1. Ids => AnswersMatch
  BY DEF Ids
<1> QED
  BY IdsInvariant, <1>1, PTL

(* As long: the table holds the queries that wait, each under its id, and    *)
(* nothing else; no finally clause takes the entry of another query away.    *)
THEOREM PendingIsAccounted ==
    ASSUME IsFiniteSet(Queries)
    PROVE  Spec => [](FewSent => PendingAccounted)
<1>1. Ids => PendingAccounted
  BY DEF Ids
<1> QED
  BY IdsInvariant, <1>1, PTL
=============================================================================
