---------------------------- MODULE RelayProofs ----------------------------
(***************************************************************************)
(* Proofs about Relay, for any bounds on pieces and faults: the two relay   *)
(* functions with the tunnel between them implement Stream.                *)
(***************************************************************************)
EXTENDS Relay, SequenceTheorems, TLAPS

(* What holds whatever fails: a record carries the piece its nonce counts,   *)
(* the receiver has given on one piece for each nonce, and a leg that is     *)
(* over stays so.                                                           *)
Counted(d) ==
    /\ taken[d] <= written[d]
    /\ sl[d] \in {"read", "drain"} => sendNonce[d] = taken[d]
    /\ \A i \in DOMAIN wire[d] : wire[d][i].piece # Alert =>
          wire[d][i].piece = wire[d][i].nonce + 1 /\ wire[d][i].piece <= taken[d]
    /\ rl[d] # "done" => reset[Sink(d)] \/ Len(got[d]) = recvNonce[d]
    /\ ended[d] => rl[d] = "done"
    /\ tfin[d] => sl[d] = "done"

(* An end that drains or closes has no leg any more.                         *)
Supervised(e) == es[e] \notin {"both", "grace"} => LegsOver(e)

(* Without faults the nonces in flight are consecutive, the alert is the     *)
(* last record, and the receiver leg is over only after it.                  *)
InOrder(d) ==
    /\ recvNonce[d] + Len(wire[d]) = sendNonce[d]
    /\ \A i \in DOMAIN wire[d] : wire[d][i].nonce = recvNonce[d] + i - 1

Ending(d) ==
    /\ sl[d] \in {"read", "drain"} =>
          rl[d] # "done" /\ \A i \in DOMAIN wire[d] : wire[d][i].piece # Alert
    /\ sl[d] \in {"notify", "done"} =>
          /\ fin[d] /\ taken[d] = written[d] /\ sendNonce[d] = written[d] + 1
          /\ \A i \in DOMAIN wire[d] : wire[d][i].piece = Alert <=> i = Len(wire[d])
    /\ rl[d] = "done" => wire[d] = <<>> /\ Len(got[d]) = written[d]
    /\ rl[d] # "done" /\ sl[d] \in {"notify", "done"} => wire[d] # <<>>

Whole == /\ ~cut /\ \A e \in Ends : ~reset[e]
         /\ \A d \in Dirs : InOrder(d) /\ Ending(d)

RelayInv ==
    /\ RelayTypeOK
    /\ \A d \in Dirs : Counted(d)
    /\ \A e \in Ends : Supervised(e)
    /\ ~Broken => Whole

(* Each direction has its ends and each end its directions.                  *)
LEMMA DirsAndEnds ==
    /\ \A d \in Dirs : Source(d) \in Ends /\ Sink(d) \in Ends
    /\ \A e \in Ends : In(e) \in Dirs /\ Out(e) \in Dirs
    /\ \A e \in Ends : Sink(In(e)) = e /\ Source(Out(e)) = e
    /\ \A d \in Dirs : In(Sink(d)) = d /\ Out(Source(d)) = d
BY DEF Dirs, Ends, Source, Sink, In, Out

-----------------------------------------------------------------------------
(* The row of records that send writes.                                      *)
LEMMA SendAllType ==
    ASSUME RelayTypeOK, NEW d \in Dirs, NEW k \in Nat, SendAll(d, k)
    PROVE  /\ sendNonce' \in [Dirs -> Nat]
           /\ wire' \in [Dirs -> Seq(Records)]
<1> DEFINE new == [i \in 1 .. k |-> Record(sendNonce[d] + i - 1, taken[d] + i)]
<1>1. new \in Seq(Records)
  <2>1. \A i \in 1 .. k : Record(sendNonce[d] + i - 1, taken[d] + i) \in Records
    BY DEF RelayTypeOK, Record, Records
  <2> QED
    BY <2>1, IsASeq
<1>2. wire[d] \in Seq(Records) /\ wire[d] \o new \in Seq(Records)
  BY <1>1, ConcatProperties DEF RelayTypeOK
<1> QED
  BY <1>2 DEF RelayTypeOK, SendAll

(* A wire with nothing on it.                                                *)
LEMMA NothingLeft == <<>> \in Seq(Records) /\ [d \in Dirs |-> <<>>] \in [Dirs -> Seq(Records)]
<1>1. <<>> \in Seq(Records)
  BY EmptySeq
<1> QED
  BY <1>1

(* Every step keeps the types.                                               *)
LEMMA TypeStep == RelayTypeOK /\ [RelayNext]_relayVars => RelayTypeOK'
<1> SUFFICES ASSUME RelayTypeOK, [RelayNext]_relayVars
             PROVE  RelayTypeOK'
  OBVIOUS
<1> USE DEF RelayTypeOK
<1>1. ASSUME NEW d \in Dirs, Application(d) PROVE RelayTypeOK'
  <2>1. CASE AppWrite(d)
    BY <2>1 DEF AppWrite
  <2>2. CASE AppFin(d)
    BY <2>2 DEF AppFin
  <2> QED
    BY <1>1, <2>1, <2>2 DEF Application
<1>2. ASSUME NEW d \in Dirs, SendLeg(d) PROVE RelayTypeOK'
  <2>1. CASE Forward(d)
    <3>1. PICK k \in 1 .. written[d] - taken[d] :
            taken' = [taken EXCEPT ![d] = @ + k] /\ SendAll(d, k)
      BY <2>1 DEF Forward
    <3>2. sendNonce' \in [Dirs -> Nat] /\ wire' \in [Dirs -> Seq(Records)]
      <4>1. written[d] \in Nat /\ taken[d] \in Nat
        OBVIOUS
      <4> HIDE DEF RelayTypeOK
      <4>2. k \in Nat
        BY <3>1, <4>1
      <4> QED
        BY <3>1, <4>2, SendAllType
    <3>3. taken' \in [Dirs -> Nat]
      <4>1. taken \in [Dirs -> Nat] /\ written[d] \in Nat
        OBVIOUS
      <4> HIDE DEF RelayTypeOK
      <4>2. k \in Nat /\ taken[d] + k \in Nat /\ taken' = [taken EXCEPT ![d] = taken[d] + k]
        BY <3>1, <4>1
      <4> QED
        BY <4>1, <4>2
    <3>4. sl' \in [Dirs -> SendStates]
      <4>1. sl \in [Dirs -> SendStates]
        OBVIOUS
      <4> HIDE DEF RelayTypeOK
      <4>2. PICK x \in {"read", "drain"} : sl' = [sl EXCEPT ![d] = x]
        BY <2>1 DEF Forward
      <4> QED
        BY <4>1, <4>2 DEF SendStates
    <3>5. UNCHANGED <<written, fin, recvNonce, tfin, got, ended, rl, es, reset, cut, faults, late>>
      BY <2>1 DEF Forward
    <3> HIDE DEF RelayTypeOK
    <3> QED
      BY <3>2, <3>3, <3>4, <3>5 DEF RelayTypeOK
  <2>2. CASE SendOver(d)
    <3>1. Record(sendNonce[d], Alert) \in Records
      BY DEF Record, Records
    <3>2. wire[d] \in Seq(Records) /\ Append(wire[d], Record(sendNonce[d], Alert)) \in Seq(Records)
      BY <3>1, AppendProperties
    <3>3. wire' \in [Dirs -> Seq(Records)] /\ sendNonce' \in [Dirs -> Nat]
      <4>1. CASE cut
        BY <2>2, <4>1 DEF SendOver
      <4>2. CASE ~cut
        <5>1. sendNonce' = [sendNonce EXCEPT ![d] = @ + 1]
          BY <2>2, <4>2 DEF SendOver
        <5>2. wire' = [wire EXCEPT ![d] = Append(@, Record(sendNonce[d], Alert))]
          BY <2>2, <4>2 DEF SendOver
        <5> QED
          BY <3>2, <5>1, <5>2
      <4> QED
        BY <4>1, <4>2
    <3> QED
      BY <2>2, <3>3 DEF SendOver, SendStates
  <2>3. CASE SendDrained(d) \/ Notified(d)
    BY <2>3 DEF SendDrained, Notified, SendStates
  <2> QED
    BY <1>2, <2>1, <2>2, <2>3 DEF SendLeg
<1>3. ASSUME NEW d \in Dirs, ReceiveLeg(d) PROVE RelayTypeOK'
  <2>1. ASSUME wire[d] # <<>> PROVE Tail(wire[d]) \in Seq(Records) /\ Head(wire[d]) \in Records
    BY <2>1, HeadTailProperties
  <2>2. CASE Receive(d)
    <3>1. Head(wire[d]).piece \in Nat
      BY <2>1, <2>2 DEF Receive, Records
    <3>2. got' \in [Dirs -> Seq(Nat)]
      BY <2>2, <3>1, AppendProperties DEF Receive
    <3> QED
      <4>1. wire' \in [Dirs -> Seq(Records)] /\ recvNonce' \in [Dirs -> Nat]
        BY <2>1, <2>2 DEF Receive
      <4>2. rl' \in [Dirs -> RecvStates]
        BY <2>2 DEF Receive, RecvStates
      <4> QED
        BY <2>2, <3>2, <4>1, <4>2 DEF Receive
  <2>3. CASE ReceiveAlert(d)
    <3>1. wire' = [wire EXCEPT ![d] = Tail(wire[d])] /\ Tail(wire[d]) \in Seq(Records)
      BY <2>1, <2>3 DEF ReceiveAlert
    <3>2. wire' \in [Dirs -> Seq(Records)]
      BY <3>1
    <3>3. /\ recvNonce' = [recvNonce EXCEPT ![d] = recvNonce[d] + 1]
          /\ rl' = [rl EXCEPT ![d] = "done"] /\ ended' = [ended EXCEPT ![d] = TRUE]
      BY <2>3 DEF ReceiveAlert, EndReceiver
    <3>4. recvNonce' \in [Dirs -> Nat] /\ rl' \in [Dirs -> RecvStates] /\ ended' \in [Dirs -> BOOLEAN]
      BY <3>3 DEF RecvStates
    <3>5. UNCHANGED <<written, fin, taken, sendNonce, tfin, got, sl, es, reset, cut, faults, late>>
      BY <2>3 DEF ReceiveAlert
    <3> QED
      BY <3>2, <3>4, <3>5
  <2>4. CASE ReceiveDrained(d) \/ ReceiveFails(d)
    BY <2>4 DEF ReceiveDrained, ReceiveFails, EndReceiver, RecvStates
  <2> QED
    BY <1>3, <2>2, <2>3, <2>4 DEF ReceiveLeg
<1>4. ASSUME NEW e \in Ends, Supervisor(e) PROVE RelayTypeOK'
  <2> USE DirsAndEnds
  <2>1. CASE FirstOver(e) \/ BothOver(e)
    BY <2>1 DEF FirstOver, BothOver, EndStates
  <2>2. CASE GraceOver(e)
    BY <2>2 DEF GraceOver, EndStates, SendStates, RecvStates
  <2>3. CASE DrainRecv(e)
    BY <2>3, NothingLeft DEF DrainRecv, EndStates
  <2>4. CASE Close(e)
    BY <2>4 DEF Close, CloseTunnel, CloseLocal, EndStates
  <2> QED
    BY <1>4, <2>1, <2>2, <2>3, <2>4 DEF Supervisor
<1>5. ASSUME NEW e \in Ends, AppReset(e) \/ Rst(e) PROVE RelayTypeOK'
  <2>1. CASE AppReset(e)
    BY <2>1 DEF AppReset
  <2>2. CASE Rst(e)
    BY <2>2, NothingLeft DEF Rst, Lose
  <2> QED
    BY <1>5, <2>1, <2>2
<1>6. CASE Cut
  BY <1>6, NothingLeft DEF Cut, Lose
<1>7. CASE UNCHANGED relayVars
  BY <1>7 DEF relayVars
<1> QED
  BY <1>1, <1>2, <1>3, <1>4, <1>5, <1>6, <1>7 DEF RelayNext

(* The initial state has them.                                               *)
LEMMA TypeInit == RelayInit => RelayTypeOK
<1> SUFFICES ASSUME RelayInit PROVE RelayTypeOK
  OBVIOUS
<1>1. [d \in Dirs |-> <<>>] \in [Dirs -> Seq(Nat)]
  BY EmptySeq
<1>2. wire \in [Dirs -> Seq(Records)] /\ got \in [Dirs -> Seq(Nat)]
  BY <1>1, NothingLeft DEF RelayInit
<1>3. /\ sl \in [Dirs -> SendStates] /\ rl \in [Dirs -> RecvStates]
      /\ es \in [Ends -> EndStates]
  BY DEF RelayInit, SendStates, RecvStates, EndStates
<1> QED
  BY <1>2, <1>3 DEF RelayInit, RelayTypeOK

(* The state keeps its types, whatever fails.                                *)
THEOREM TypeCorrect == RelaySpec => []RelayTypeOK
BY TypeInit, TypeStep, PTL DEF RelaySpec

-----------------------------------------------------------------------------
(* The initial state.                                                        *)
LEMMA InitInv == RelayInit => RelayInv
<1> SUFFICES ASSUME RelayInit PROVE RelayInv
  OBVIOUS
<1>1. RelayTypeOK
  BY TypeInit
<1>2. ASSUME NEW d \in Dirs PROVE Counted(d) /\ InOrder(d) /\ Ending(d)
  <2>1. wire[d] = <<>> /\ Len(wire[d]) = 0 /\ DOMAIN wire[d] = {} /\ Len(got[d]) = 0
    BY DEF RelayInit
  <2> QED
    BY <2>1 DEF RelayInit, Counted, InOrder, Ending
<1>3. \A e \in Ends : Supervised(e)
  BY DEF RelayInit, Supervised
<1>4. Whole
  BY <1>2 DEF RelayInit, Whole
<1> QED
  BY <1>1, <1>2, <1>3, <1>4 DEF RelayInv

(* The applications and the network.  A fault breaks the stream; a reset of  *)
(* a closed end comes only after one, or after the grace period.             *)
LEMMA EnvironmentStep ==
    ASSUME RelayInv, RelayTypeOK',
           \/ \E d \in Dirs : Application(d)
           \/ \E e \in Ends : AppReset(e) \/ Rst(e)
           \/ Cut
    PROVE  RelayInv'
<1> USE DEF RelayTypeOK
<1>1. ASSUME NEW d \in Dirs, AppWrite(d) PROVE RelayInv'
  <2>1. \A c \in Dirs : Counted(c)'
    BY <1>1 DEF RelayInv, AppWrite, Counted
  <2>2. \A e \in Ends : Supervised(e)'
    BY <1>1 DEF RelayInv, AppWrite, Supervised, LegsOver
  <2>3. ~Broken' => Whole'
    <3> SUFFICES ASSUME ~Broken' PROVE Whole'
      OBVIOUS
    <3>1. Whole
      BY <1>1 DEF RelayInv, AppWrite, Broken
    <3>2. /\ UNCHANGED <<fin, taken, sendNonce, recvNonce, wire, got, sl, rl, reset, cut>>
          /\ ~fin[d] /\ \A c \in Dirs \ {d} : written'[c] = written[c]
      BY <1>1 DEF AppWrite, RelayInv
    <3>3. sl[d] \in SendStates
      BY DEF RelayInv
    <3> HIDE DEF RelayTypeOK
    <3>4. sl[d] \notin {"notify", "done"} /\ rl[d] # "done"
      BY <3>1, <3>2, <3>3 DEF Whole, Ending, SendStates
    <3>5. ASSUME NEW c \in Dirs PROVE InOrder(c)' /\ Ending(c)'
      <4>1. InOrder(c) /\ Ending(c)
        BY <3>1 DEF Whole
      <4>2. CASE c = d
        BY <3>2, <3>4, <4>1, <4>2 DEF InOrder, Ending
      <4>3. CASE c # d
        BY <3>2, <4>1, <4>3 DEF InOrder, Ending
      <4> QED
        BY <4>2, <4>3
    <3> QED
      BY <3>1, <3>2, <3>5 DEF Whole
  <2> QED
    BY <2>1, <2>2, <2>3 DEF RelayInv
<1>2. ASSUME NEW d \in Dirs, AppFin(d) PROVE RelayInv'
  <2>1. \A c \in Dirs : Counted(c)'
    BY <1>2 DEF RelayInv, AppFin, Counted
  <2>2. \A e \in Ends : Supervised(e)'
    BY <1>2 DEF RelayInv, AppFin, Supervised, LegsOver
  <2>3. ~Broken' => Whole'
    <3> SUFFICES ASSUME ~Broken' PROVE Whole'
      OBVIOUS
    <3>1. Whole
      BY <1>2 DEF RelayInv, AppFin, Broken
    <3>2. ASSUME NEW c \in Dirs PROVE InOrder(c)' /\ Ending(c)'
      <4>1. fin[c] => fin'[c]
        BY <1>2 DEF RelayInv, AppFin
      <4> QED
        BY <1>2, <3>1, <4>1 DEF AppFin, Whole, InOrder, Ending
    <3> QED
      BY <1>2, <3>1, <3>2 DEF AppFin, Whole
  <2> QED
    BY <2>1, <2>2, <2>3 DEF RelayInv
<1>3. ASSUME NEW e \in Ends, AppReset(e) PROVE RelayInv'
  <2>1. ASSUME NEW c \in Dirs PROVE Counted(c)'
    <3>1. Counted(c) /\ reset \in [Ends -> BOOLEAN] /\ Sink(c) \in Ends
      BY DirsAndEnds DEF RelayInv
    <3> HIDE DEF RelayTypeOK
    <3>2. reset[Sink(c)] => reset'[Sink(c)]
      BY <1>3, <3>1 DEF AppReset
    <3>3. UNCHANGED <<written, taken, sendNonce, recvNonce, wire, tfin, got, ended, sl, rl>>
      BY <1>3 DEF AppReset
    <3> QED
      BY <3>1, <3>2, <3>3 DEF Counted
  <2>2. \A f \in Ends : Supervised(f)'
    BY <1>3 DEF RelayInv, AppReset, Supervised, LegsOver
  <2>3. Broken'
    <3>1. faults \in Nat /\ faults' = faults + 1
      BY <1>3 DEF AppReset, RelayInv
    <3> QED
      BY <3>1 DEF Broken
  <2> QED
    BY <2>1, <2>2, <2>3 DEF RelayInv
<1>4. ASSUME Lose, UNCHANGED <<written, fin, taken, sendNonce, recvNonce, tfin, got, ended,
                               sl, rl, es, reset>>
      PROVE  (\A c \in Dirs : Counted(c)') /\ (\A e \in Ends : Supervised(e)')
  <2>1. \A c \in Dirs : DOMAIN wire'[c] = {}
    BY <1>4 DEF Lose
  <2> QED
    BY <1>4, <2>1 DEF RelayInv, Counted, Supervised, LegsOver
<1>5. CASE Cut
  <2>1. Broken'
    <3>1. faults \in Nat /\ faults' = faults + 1
      BY <1>5 DEF Cut, RelayInv
    <3> QED
      BY <3>1 DEF Broken
  <2> QED
    BY <1>4, <1>5, <2>1 DEF Cut, RelayInv
<1>6. ASSUME NEW e \in Ends, Rst(e) PROVE RelayInv'
  <2>1. Broken
    <3>1. rl[In(e)] = "done" /\ In(e) \in Dirs
      BY <1>6, DirsAndEnds DEF RelayInv, Rst, Supervised, LegsOver
    <3> QED
      BY <1>6, <3>1 DEF RelayInv, Rst, Whole, Ending
  <2>2. Broken'
    BY <1>6, <2>1 DEF Rst, Broken
  <2> QED
    BY <1>4, <1>6, <2>2 DEF Rst, RelayInv
<1> QED
  BY <1>1, <1>2, <1>3, <1>5, <1>6 DEF Application

(* What send has put on the wire: the old records, then the new ones.        *)
LEMMA SendAllWire ==
    ASSUME RelayTypeOK, NEW d \in Dirs, NEW k \in Nat, SendAll(d, k), ~cut
    PROVE  /\ DOMAIN wire[d] = 1 .. Len(wire[d]) /\ Len(wire[d]) \in Nat
           /\ DOMAIN wire'[d] = 1 .. Len(wire[d]) + k
           /\ Len(wire'[d]) = Len(wire[d]) + k
           /\ \A i \in 1 .. Len(wire[d]) : wire'[d][i] = wire[d][i]
           /\ \A i \in Len(wire[d]) + 1 .. Len(wire[d]) + k :
                /\ wire'[d][i].nonce = sendNonce[d] + (i - Len(wire[d])) - 1
                /\ wire'[d][i].piece = taken[d] + (i - Len(wire[d]))
           /\ \A c \in Dirs \ {d} : wire'[c] = wire[c]
<1> DEFINE new == [i \in 1 .. k |-> Record(sendNonce[d] + i - 1, taken[d] + i)]
<1>1. new \in Seq(Records) /\ Len(new) = k
  <2>1. \A i \in 1 .. k : Record(sendNonce[d] + i - 1, taken[d] + i) \in Records
    BY DEF RelayTypeOK, Record, Records
  <2> QED
    BY <2>1, IsASeq
<1>2. wire[d] \in Seq(Records)
  BY DEF RelayTypeOK
<1>3. wire' = [wire EXCEPT ![d] = wire[d] \o new]
  BY DEF SendAll
<1>4. wire'[d] = wire[d] \o new /\ \A c \in Dirs \ {d} : wire'[c] = wire[c]
  BY <1>3 DEF RelayTypeOK
<1> HIDE DEF new
<1>5. /\ wire'[d] \in Seq(Records)
      /\ Len(wire'[d]) = Len(wire[d]) + k
      /\ \A i \in 1 .. Len(wire[d]) + k :
            wire'[d][i] = IF i <= Len(wire[d]) THEN wire[d][i] ELSE new[i - Len(wire[d])]
  <2>1. /\ wire[d] \o new \in Seq(Records)
        /\ Len(wire[d] \o new) = Len(wire[d]) + Len(new)
        /\ \A i \in 1 .. Len(wire[d]) + Len(new) :
              (wire[d] \o new)[i] = IF i <= Len(wire[d]) THEN wire[d][i]
                                                         ELSE new[i - Len(wire[d])]
    BY <1>1, <1>2, ConcatProperties
  <2> QED
    BY <1>1, <1>4, <2>1
<1>6. \A i \in 1 .. k : new[i] = Record(sendNonce[d] + i - 1, taken[d] + i)
  BY DEF new
<1>7. Len(wire[d]) \in Nat /\ DOMAIN wire[d] = 1 .. Len(wire[d])
  BY <1>2, LenProperties
<1>8. DOMAIN wire'[d] = 1 .. Len(wire[d]) + k
  BY <1>5, LenProperties
<1>9. ASSUME NEW i \in Len(wire[d]) + 1 .. Len(wire[d]) + k
      PROVE  /\ wire'[d][i].nonce = sendNonce[d] + (i - Len(wire[d])) - 1
             /\ wire'[d][i].piece = taken[d] + (i - Len(wire[d]))
  <2>1. PICK j \in 1 .. k : j = i - Len(wire[d]) /\ wire'[d][i] = new[j]
    BY <1>5, <1>7
  <2>2. wire'[d][i] = Record(sendNonce[d] + j - 1, taken[d] + j)
    BY <1>6, <2>1
  <2> QED
    BY <2>1, <2>2 DEF Record
<1>10. \A i \in 1 .. Len(wire[d]) : wire'[d][i] = wire[d][i]
  BY <1>5, <1>7
<1> QED
  BY <1>4, <1>5, <1>7, <1>8, <1>9, <1>10

(* Reading and sending: nonces and pieces advance together.                  *)
LEMMA ForwardStep ==
    ASSUME RelayInv, RelayTypeOK', Alert \notin Nat \ {0}, NEW d \in Dirs, Forward(d)
    PROVE  RelayInv'
<1> USE DEF RelayTypeOK
<1>1. PICK k \in 1 .. written[d] - taken[d] :
        taken' = [taken EXCEPT ![d] = @ + k] /\ SendAll(d, k)
  BY DEF Forward
<1>2. k \in Nat \ {0} /\ taken[d] + k <= written[d] /\ taken'[d] = taken[d] + k
  BY <1>1 DEF RelayInv
<1>3. sendNonce'[d] = sendNonce[d] + k /\ sendNonce[d] = taken[d]
  BY <1>1, <1>2 DEF SendAll, RelayInv, Counted, Forward
<1>4. \A c \in Dirs \ {d} : taken'[c] = taken[c] /\ sendNonce'[c] = sendNonce[c]
                             /\ wire'[c] = wire[c] /\ sl'[c] = sl[c]
  <2>1. sl' \in {[sl EXCEPT ![d] = x] : x \in {"read", "drain"}}
    BY DEF Forward
  <2>2. \A c \in Dirs \ {d} : sl'[c] = sl[c]
    BY <2>1 DEF RelayInv
  <2>3. \A c \in Dirs \ {d} : taken'[c] = taken[c] /\ sendNonce'[c] = sendNonce[c]
    BY <1>1, <1>2 DEF SendAll, RelayInv
  <2>4. \A c \in Dirs \ {d} : wire'[c] = wire[c]
    BY <1>1, <1>2 DEF SendAll, RelayInv
  <2> QED
    BY <2>2, <2>3, <2>4
<1>5. sl[d] = "read" /\ sl'[d] \in {"read", "drain"}
  BY DEF Forward, RelayInv
<1>6. Counted(d)'
  <2> DEFINE Numbered(w, t) == \A i \in DOMAIN w : w[i].piece # Alert =>
                                  w[i].piece = w[i].nonce + 1 /\ w[i].piece <= t
  <2>0. Numbered(wire[d], taken[d]) /\ taken[d] \in Nat /\ sendNonce[d] \in Nat
    BY DEF RelayInv, Counted
  <2>1. ASSUME cut PROVE Numbered(wire'[d], taken'[d])
    <3>1. wire' = wire
      BY <1>1, <2>1 DEF SendAll
    <3> SUFFICES ASSUME NEW i \in DOMAIN wire[d], wire[d][i].piece # Alert
                 PROVE  wire[d][i].piece <= taken[d] + k
      BY <1>2, <2>0, <3>1
    <3>2. wire[d][i].piece \in Nat
      <4>1. wire[d][i] \in Records
        BY ElementOfSeq, LenProperties DEF RelayInv
      <4> QED
        BY <4>1 DEF Records
    <3> QED
      BY <1>2, <2>0, <3>2
  <2>2. ASSUME ~cut PROVE Numbered(wire'[d], taken'[d])
    <3>1. /\ DOMAIN wire[d] = 1 .. Len(wire[d]) /\ Len(wire[d]) \in Nat
          /\ DOMAIN wire'[d] = 1 .. Len(wire[d]) + k
          /\ \A i \in 1 .. Len(wire[d]) : wire'[d][i] = wire[d][i]
          /\ \A i \in Len(wire[d]) + 1 .. Len(wire[d]) + k :
               /\ wire'[d][i].nonce = sendNonce[d] + (i - Len(wire[d])) - 1
               /\ wire'[d][i].piece = taken[d] + (i - Len(wire[d]))
      BY <1>1, <1>2, <2>2, SendAllWire DEF RelayInv
    <3> SUFFICES ASSUME NEW i \in DOMAIN wire'[d], wire'[d][i].piece # Alert
                 PROVE  /\ wire'[d][i].piece = wire'[d][i].nonce + 1
                        /\ wire'[d][i].piece <= taken[d] + k
      BY <1>2
    <3>2. CASE i \in DOMAIN wire[d]
      <4>1. wire'[d][i] = wire[d][i] /\ wire[d][i] \in Records
        BY <3>1, <3>2, ElementOfSeq DEF RelayInv
      <4>2. wire[d][i].piece \in Nat
        BY <4>1 DEF Records
      <4>3. wire[d][i].piece = wire[d][i].nonce + 1 /\ wire[d][i].piece <= taken[d]
        BY <2>0, <3>2, <4>1
      <4> HIDE DEF RelayTypeOK, Numbered
      <4>4. wire[d][i].piece <= taken[d] + k
        BY <1>2, <2>0, <4>2, <4>3
      <4> QED
        BY <4>1, <4>3, <4>4
    <3>3. CASE i \notin DOMAIN wire[d]
      <4>1. i \in Len(wire[d]) + 1 .. Len(wire[d]) + k
        BY <1>2, <3>1, <3>3
      <4>2. /\ wire'[d][i].nonce = sendNonce[d] + (i - Len(wire[d])) - 1
            /\ wire'[d][i].piece = taken[d] + (i - Len(wire[d]))
        BY <3>1, <4>1
      <4> QED
        <5> HIDE DEF RelayTypeOK
        <5>1. PICK j \in 1 .. k : i - Len(wire[d]) = j
          BY <1>2, <3>1, <4>1
        <5>2. wire'[d][i].nonce = taken[d] + j - 1 /\ wire'[d][i].piece = taken[d] + j
          BY <1>3, <4>2, <5>1
        <5> QED
          BY <1>2, <2>0, <5>1, <5>2
    <3> QED
      BY <3>2, <3>3
  <2>3. Numbered(wire'[d], taken'[d])
    BY <2>1, <2>2
  <2> QED
    BY <1>2, <1>3, <1>5, <2>3 DEF RelayInv, Forward, Counted
<1>7. ASSUME NEW c \in Dirs \ {d} PROVE Counted(c)'
  <2>1. Counted(c)
    BY DEF RelayInv
  <2>2. UNCHANGED <<written, recvNonce, tfin, got, ended, rl, reset>>
    BY DEF Forward
  <2> HIDE DEF RelayTypeOK
  <2> QED
    BY <1>4, <2>1, <2>2 DEF Counted
<1>8. \A e \in Ends : Supervised(e)'
  BY <1>4, <1>5, DirsAndEnds DEF RelayInv, Forward, Supervised, LegsOver
<1>9. ~Broken' => Whole'
  <2> SUFFICES ASSUME ~Broken' PROVE Whole'
    OBVIOUS
  <2>1. Whole /\ ~cut
    BY DEF RelayInv, Forward, Broken, Whole
  <2>2. InOrder(d) /\ Ending(d)
    BY <2>1 DEF Whole
  <2>3. /\ DOMAIN wire[d] = 1 .. Len(wire[d]) /\ Len(wire[d]) \in Nat
        /\ DOMAIN wire'[d] = 1 .. Len(wire[d]) + k
        /\ Len(wire'[d]) = Len(wire[d]) + k
        /\ \A i \in 1 .. Len(wire[d]) : wire'[d][i] = wire[d][i]
        /\ \A i \in Len(wire[d]) + 1 .. Len(wire[d]) + k :
             /\ wire'[d][i].nonce = sendNonce[d] + (i - Len(wire[d])) - 1
             /\ wire'[d][i].piece = taken[d] + (i - Len(wire[d]))
    BY <1>1, <1>2, <2>1, SendAllWire DEF RelayInv
  <2>4. recvNonce[d] \in Nat /\ sendNonce[d] \in Nat /\ taken[d] \in Nat
    BY DEF RelayInv
  <2>5. recvNonce' = recvNonce /\ rl' = rl
    BY DEF Forward
  <2>6. InOrder(d)'
    <3>1. recvNonce'[d] + Len(wire'[d]) = sendNonce'[d]
      BY <1>2, <1>3, <2>2, <2>3, <2>4, <2>5 DEF InOrder
    <3>2. ASSUME NEW i \in DOMAIN wire'[d] PROVE wire'[d][i].nonce = recvNonce'[d] + i - 1
      <4>1. CASE i \in DOMAIN wire[d]
        BY <2>2, <2>3, <2>5, <4>1 DEF InOrder
      <4>2. CASE i \notin DOMAIN wire[d]
        <5>1. i \in Len(wire[d]) + 1 .. Len(wire[d]) + k
          BY <1>2, <2>3, <4>2
        <5> QED
          <6>1. wire'[d][i].nonce = sendNonce[d] + (i - Len(wire[d])) - 1
            BY <2>3, <5>1
          <6>2. i \in Int /\ recvNonce[d] + Len(wire[d]) = sendNonce[d]
            BY <1>2, <2>2, <2>3, <5>1 DEF InOrder
          <6> QED
            BY <2>3, <2>4, <2>5, <6>1, <6>2
      <4> QED
        BY <4>1, <4>2
    <3> QED
      BY <3>1, <3>2 DEF InOrder
  <2>7. Ending(d)'
    <3>1. ASSUME NEW i \in DOMAIN wire'[d] PROVE wire'[d][i].piece # Alert
      <4>1. CASE i \in DOMAIN wire[d]
        BY <1>5, <2>2, <2>3, <4>1 DEF Ending
      <4>2. CASE i \notin DOMAIN wire[d]
        <5>1. i \in Len(wire[d]) + 1 .. Len(wire[d]) + k
          BY <1>2, <2>3, <4>2
        <5> QED
          <6>1. wire'[d][i].piece = taken[d] + (i - Len(wire[d]))
            BY <2>3, <5>1
          <6>2. taken[d] + (i - Len(wire[d])) \in Nat \ {0}
            <7> HIDE DEF RelayTypeOK
            <7> QED
              BY <1>2, <2>3, <2>4, <5>1
          <6> QED
            BY <6>1, <6>2
      <4> QED
        BY <4>1, <4>2
    <3> QED
      BY <1>5, <2>2, <2>5, <3>1 DEF Ending
  <2>8. \A c \in Dirs \ {d} : InOrder(c)' /\ Ending(c)'
    <3> SUFFICES ASSUME NEW c \in Dirs \ {d} PROVE InOrder(c)' /\ Ending(c)'
      OBVIOUS
    <3>1. InOrder(c) /\ Ending(c)
      BY <2>1 DEF Whole
    <3>2. UNCHANGED <<written, fin, got>>
      BY DEF Forward
    <3> HIDE DEF RelayTypeOK
    <3>3. InOrder(c)'
      BY <1>4, <2>5, <3>1 DEF InOrder
    <3>4. Ending(c)'
      BY <1>4, <2>5, <3>1, <3>2 DEF Ending
    <3> QED
      BY <3>3, <3>4
  <2> QED
    BY <2>1, <2>6, <2>7, <2>8 DEF Forward, Whole
<1> QED
  BY <1>6, <1>7, <1>8, <1>9 DEF RelayInv

(* The end of a sender leg.  The alert takes the next nonce.                 *)
LEMMA SendOverStep ==
    ASSUME RelayInv, RelayTypeOK', NEW d \in Dirs, SendOver(d)
    PROVE  RelayInv'
<1>1. /\ wire[d] \in Seq(Records) /\ sendNonce[d] \in Nat /\ recvNonce[d] \in Nat
      /\ written[d] \in Nat /\ taken[d] \in Nat
  BY DEF RelayInv, RelayTypeOK
<1>2. Record(sendNonce[d], Alert) \in Records
  BY <1>1 DEF Record, Records
<1>3. /\ DOMAIN wire[d] = 1 .. Len(wire[d]) /\ Len(wire[d]) \in Nat
  BY <1>1, LenProperties
<1>4. sl[d] \in {"read", "drain"} /\ sl'[d] \in {"notify", "done"}
      /\ \A c \in Dirs \ {d} : sl'[c] = sl[c]
  BY DEF SendOver, RelayInv, RelayTypeOK
<1>5. ASSUME ~cut
      PROVE  /\ DOMAIN wire'[d] = 1 .. Len(wire[d]) + 1
             /\ Len(wire'[d]) = Len(wire[d]) + 1
             /\ \A i \in 1 .. Len(wire[d]) : wire'[d][i] = wire[d][i]
             /\ wire'[d][Len(wire[d]) + 1] = Record(sendNonce[d], Alert)
             /\ \A c \in Dirs \ {d} : wire'[c] = wire[c] /\ sendNonce'[c] = sendNonce[c]
             /\ sendNonce'[d] = sendNonce[d] + 1
  <2>1. wire'[d] = Append(wire[d], Record(sendNonce[d], Alert))
        /\ \A c \in Dirs \ {d} : wire'[c] = wire[c]
    BY <1>5 DEF SendOver, RelayInv, RelayTypeOK
  <2>2. /\ sendNonce'[d] = sendNonce[d] + 1
        /\ \A c \in Dirs \ {d} : sendNonce'[c] = sendNonce[c]
    BY <1>5 DEF SendOver, RelayInv, RelayTypeOK
  <2>3. wire'[d] \in Seq(Records)
    BY <1>1, <1>2, <2>1, AppendProperties
  <2>4. Len(wire'[d]) = Len(wire[d]) + 1
    BY <1>1, <1>2, <2>1, AppendProperties
  <2> QED
    BY <1>1, <1>2, <2>1, <2>2, <2>3, <2>4, AppendProperties, LenProperties
<1>6. Counted(d)'
  <2>1. ASSUME NEW i \in DOMAIN wire'[d], wire'[d][i].piece # Alert
        PROVE  /\ wire'[d][i].piece = wire'[d][i].nonce + 1
               /\ wire'[d][i].piece <= taken[d]
    <3>1. i \in DOMAIN wire[d] /\ wire'[d][i] = wire[d][i]
      <4>1. CASE cut
        BY <4>1 DEF SendOver
      <4>2. CASE ~cut
        <5>1. i # Len(wire[d]) + 1
          BY <1>5, <2>1, <4>2 DEF Record
        <5> QED
          BY <1>3, <1>5, <4>2, <5>1
      <4> QED
        BY <4>1, <4>2
    <3> QED
      BY <2>1, <3>1 DEF RelayInv, Counted
  <2>2. Counted(d)
    BY DEF RelayInv
  <2>3. ~tfin[d] /\ sl'[d] \notin {"read", "drain"}
    BY <1>4, <2>2 DEF Counted
  <2> QED
    BY <2>1, <2>2, <2>3 DEF SendOver, Counted
<1>7. \A c \in Dirs \ {d} : Counted(c)'
  <2>1. \A c \in Dirs \ {d} : wire'[c] = wire[c] /\ sendNonce'[c] = sendNonce[c]
    BY <1>5 DEF SendOver
  <2> QED
    BY <1>4, <2>1 DEF RelayInv, SendOver, Counted
<1>8. \A e \in Ends : Supervised(e)'
  BY <1>4, DirsAndEnds DEF RelayInv, SendOver, Supervised, LegsOver
<1>9. ~Broken' => Whole'
  <2> SUFFICES ASSUME ~Broken' PROVE Whole'
    OBVIOUS
  <2>1. Whole /\ ~cut /\ ~reset[Source(d)]
    BY DirsAndEnds DEF RelayInv, SendOver, Broken, Whole
  <2>2. InOrder(d) /\ Ending(d) /\ Counted(d)
    BY <2>1 DEF Whole, RelayInv
  <2>3. fin[d] /\ taken[d] = written[d] /\ sendNonce[d] = taken[d]
    BY <1>4, <2>1, <2>2 DEF SendOver, Counted
  <2>4. /\ fin' = fin /\ taken' = taken /\ written' = written /\ rl' = rl /\ got' = got
        /\ recvNonce' = recvNonce /\ cut' = cut /\ reset' = reset
    BY DEF SendOver
  <2>5. InOrder(d)'
    <3>1. recvNonce'[d] + Len(wire'[d]) = sendNonce'[d]
      BY <1>1, <1>3, <1>5, <2>1, <2>2, <2>4 DEF InOrder
    <3>2. ASSUME NEW i \in DOMAIN wire'[d] PROVE wire'[d][i].nonce = recvNonce'[d] + i - 1
      <4>1. CASE i = Len(wire[d]) + 1
        BY <1>1, <1>3, <1>5, <2>1, <2>2, <2>4, <4>1 DEF InOrder, Record
      <4>2. CASE i # Len(wire[d]) + 1
        <5>1. i \in DOMAIN wire[d] /\ wire'[d][i] = wire[d][i]
          BY <1>3, <1>5, <2>1, <4>2
        <5> QED
          BY <2>2, <2>4, <5>1 DEF InOrder
      <4> QED
        BY <4>1, <4>2
    <3> QED
      BY <3>1, <3>2 DEF InOrder
  <2>6. Ending(d)'
    <3>1. ASSUME NEW i \in DOMAIN wire'[d]
          PROVE  wire'[d][i].piece = Alert <=> i = Len(wire'[d])
      <4>1. CASE i = Len(wire[d]) + 1
        BY <1>5, <2>1, <4>1 DEF Record
      <4>2. CASE i # Len(wire[d]) + 1
        <5>1. i \in DOMAIN wire[d] /\ wire'[d][i] = wire[d][i]
          BY <1>3, <1>5, <2>1, <4>2
        <5> QED
          BY <1>4, <1>5, <2>1, <2>2, <4>2, <5>1 DEF Ending
      <4> QED
        BY <4>1, <4>2
    <3>2. rl[d] # "done" /\ wire'[d] # <<>>
      <4>1. Len(wire'[d]) # 0
        BY <1>3, <1>5, <2>1
      <4> QED
        BY <1>4, <2>2, <4>1 DEF Ending
    <3>3. sendNonce'[d] = written[d] + 1
      BY <1>5, <2>1, <2>3
    <3> QED
      BY <1>4, <2>3, <2>4, <3>1, <3>2, <3>3 DEF Ending
  <2>7. ASSUME NEW c \in Dirs \ {d} PROVE InOrder(c)' /\ Ending(c)'
    <3>1. InOrder(c) /\ Ending(c)
      BY <2>1 DEF Whole
    <3>2. wire'[c] = wire[c] /\ sendNonce'[c] = sendNonce[c] /\ sl'[c] = sl[c]
      BY <1>4, <1>5, <2>1
    <3> QED
      BY <2>4, <3>1, <3>2 DEF InOrder, Ending
  <2> QED
    BY <2>1, <2>4, <2>5, <2>6, <2>7 DEF Whole
<1> QED
  BY <1>6, <1>7, <1>8, <1>9 DEF RelayInv

(* The waits of a sender leg.                                                *)
LEMMA SendWaits ==
    ASSUME RelayInv, RelayTypeOK', NEW d \in Dirs, SendDrained(d) \/ Notified(d)
    PROVE  RelayInv'
<1>1. /\ sl[d] \in {"read", "drain"} <=> sl'[d] \in {"read", "drain"}
      /\ sl[d] \in {"notify", "done"} <=> sl'[d] \in {"notify", "done"}
      /\ sl[d] # "done"
      /\ \A c \in Dirs \ {d} : sl'[c] = sl[c]
  BY DEF SendDrained, Notified, RelayInv, RelayTypeOK, SendStates
<1>2. /\ fin' = fin /\ taken' = taken /\ written' = written /\ rl' = rl /\ got' = got
      /\ recvNonce' = recvNonce /\ cut' = cut /\ reset' = reset /\ wire' = wire
      /\ sendNonce' = sendNonce /\ ended' = ended /\ tfin' = tfin /\ es' = es
      /\ faults' = faults /\ late' = late
  BY DEF SendDrained, Notified
<1>3. ASSUME NEW c \in Dirs PROVE Counted(c)' /\ (Ending(c) => Ending(c)')
                                              /\ (InOrder(c) => InOrder(c)')
  <2>1. Counted(c)
    BY DEF RelayInv
  <2>2. CASE c = d
    BY <1>1, <1>2, <2>1, <2>2 DEF Counted, Ending, InOrder
  <2>3. CASE c # d
    BY <1>1, <1>2, <2>1, <2>3 DEF Counted, Ending, InOrder
  <2> QED
    BY <2>2, <2>3
<1>4. \A e \in Ends : Supervised(e)'
  BY <1>1, <1>2, DirsAndEnds DEF RelayInv, Supervised, LegsOver
<1>5. ~Broken' => Whole'
  BY <1>2, <1>3 DEF RelayInv, Broken, Whole
<1> QED
  BY <1>3, <1>4, <1>5 DEF RelayInv

(* The rest of a row of records.                                             *)
LEMMA TailWire ==
    ASSUME NEW w \in Seq(Records), w # <<>>
    PROVE  /\ Len(w) \in Nat \ {0} /\ DOMAIN w = 1 .. Len(w)
           /\ w[1] = Head(w) /\ Head(w) \in Records
           /\ Len(Tail(w)) = Len(w) - 1 /\ DOMAIN Tail(w) = 1 .. Len(w) - 1
           /\ \A i \in 1 .. Len(w) - 1 : Tail(w)[i] = w[i + 1]
           /\ Len(w) = 1 => Tail(w) = <<>>
<1>1. /\ Head(w) \in Records /\ Tail(w) \in Seq(Records) /\ Len(Tail(w)) = Len(w) - 1
      /\ \A i \in 1 .. Len(Tail(w)) : Tail(w)[i] = w[i + 1]
  BY HeadTailProperties
<1>2. Len(w) \in Nat \ {0} /\ DOMAIN w = 1 .. Len(w)
  BY LenProperties, EmptySeq
<1>3. DOMAIN Tail(w) = 1 .. Len(w) - 1
  BY <1>1, LenProperties
<1>4. ASSUME Len(w) = 1 PROVE Tail(w) = <<>>
  <2>1. Tail(w) \in Seq(Records) /\ Len(Tail(w)) = 0
    BY <1>1, <1>4
  <2> QED
    BY <2>1, EmptySeq
<1> QED
  BY <1>1, <1>2, <1>3, <1>4

(* A record is taken off the wire: what is left is counted as before.        *)
LEMMA TakenOff ==
    ASSUME RelayInv, NEW d \in Dirs, wire[d] # <<>>,
           wire' = [wire EXCEPT ![d] = Tail(@)],
           recvNonce' = [recvNonce EXCEPT ![d] = @ + 1],
           taken' = taken, sendNonce' = sendNonce
    PROVE  /\ \A i \in DOMAIN wire'[d] : wire'[d][i].piece # Alert =>
                 wire'[d][i].piece = wire'[d][i].nonce + 1 /\ wire'[d][i].piece <= taken'[d]
           /\ InOrder(d) => InOrder(d)'
           /\ Len(wire'[d]) = Len(wire[d]) - 1
           /\ \A i \in DOMAIN wire'[d] : i + 1 \in DOMAIN wire[d] /\ wire'[d][i] = wire[d][i + 1]
           /\ \A c \in Dirs \ {d} : wire'[c] = wire[c] /\ recvNonce'[c] = recvNonce[c]
<1>1. wire[d] \in Seq(Records) /\ wire'[d] = Tail(wire[d])
  BY DEF RelayInv, RelayTypeOK
<1>2. /\ Len(wire[d]) \in Nat \ {0} /\ DOMAIN wire[d] = 1 .. Len(wire[d])
      /\ Len(wire'[d]) = Len(wire[d]) - 1 /\ DOMAIN wire'[d] = 1 .. Len(wire[d]) - 1
      /\ \A i \in 1 .. Len(wire[d]) - 1 : wire'[d][i] = wire[d][i + 1]
  BY <1>1, TailWire
<1>3. \A i \in DOMAIN wire'[d] : i + 1 \in DOMAIN wire[d] /\ wire'[d][i] = wire[d][i + 1]
  BY <1>2
<1>4. \A c \in Dirs \ {d} : wire'[c] = wire[c] /\ recvNonce'[c] = recvNonce[c]
  BY DEF RelayInv, RelayTypeOK
<1>5. recvNonce[d] \in Nat /\ sendNonce[d] \in Nat /\ recvNonce'[d] = recvNonce[d] + 1
  BY DEF RelayInv, RelayTypeOK
<1>6. ASSUME InOrder(d) PROVE InOrder(d)'
  <2>1. recvNonce'[d] + Len(wire'[d]) = sendNonce'[d]
    BY <1>2, <1>5, <1>6 DEF InOrder
  <2>2. ASSUME NEW i \in DOMAIN wire'[d] PROVE wire'[d][i].nonce = recvNonce'[d] + i - 1
    <3>1. wire[d][i + 1].nonce = recvNonce[d] + (i + 1) - 1
      BY <1>3, <1>6, <2>2 DEF InOrder
    <3>2. i \in Int
      BY <1>2, <2>2
    <3>3. wire'[d][i] = wire[d][i + 1]
      BY <1>3, <2>2
    <3>4. recvNonce[d] + (i + 1) - 1 = recvNonce'[d] + i - 1
      BY <1>5, <3>2
    <3> QED
      BY <3>1, <3>3, <3>4
  <2> QED
    BY <2>1, <2>2 DEF InOrder
<1>7. ASSUME NEW i \in DOMAIN wire'[d], wire'[d][i].piece # Alert
      PROVE  wire'[d][i].piece = wire'[d][i].nonce + 1 /\ wire'[d][i].piece <= taken'[d]
  BY <1>3, <1>7 DEF RelayInv, Counted
<1> QED
  BY <1>2, <1>3, <1>4, <1>6, <1>7

(* A record of data: its piece follows the ones the application has.         *)
LEMMA ReceiveStep ==
    ASSUME RelayInv, RelayTypeOK', NEW d \in Dirs, Receive(d)
    PROVE  RelayInv'
<1>1. /\ wire[d] # <<>> /\ wire' = [wire EXCEPT ![d] = Tail(@)]
      /\ recvNonce' = [recvNonce EXCEPT ![d] = @ + 1]
      /\ taken' = taken /\ sendNonce' = sendNonce
  BY DEF Receive
<1>2. /\ wire[d] \in Seq(Records) /\ recvNonce[d] \in Nat /\ got[d] \in Seq(Nat)
      /\ Len(wire[d]) \in Nat \ {0} /\ DOMAIN wire[d] = 1 .. Len(wire[d])
      /\ wire[d][1] = Head(wire[d]) /\ Head(wire[d]).piece # Alert
  BY <1>1, TailWire DEF RelayInv, RelayTypeOK, Receive
<1>3. /\ rl[d] = "recv" /\ rl'[d] \in {"recv", "drain"}
      /\ \A c \in Dirs \ {d} : rl'[c] = rl[c] /\ got'[c] = got[c]
  BY DEF Receive, RelayInv, RelayTypeOK
<1>4. Counted(d)'
  <2>1. reset[Sink(d)] \/ Len(got'[d]) = recvNonce'[d]
    <3> SUFFICES ASSUME ~reset[Sink(d)] PROVE Len(got'[d]) = recvNonce'[d]
      OBVIOUS
    <3>1. Len(got[d]) = recvNonce[d]
      BY <1>3 DEF RelayInv, Counted
    <3>2. got'[d] = Append(got[d], Head(wire[d]).piece)
      BY DEF Receive, RelayInv, RelayTypeOK
    <3>3. Head(wire[d]).piece \in Nat
      BY <1>1, <1>2, TailWire DEF Records
    <3>4. Len(got'[d]) = Len(got[d]) + 1
      BY <1>2, <3>2, <3>3, AppendProperties
    <3>5. recvNonce'[d] = recvNonce[d] + 1
      BY <1>1 DEF RelayInv, RelayTypeOK
    <3> QED
      BY <3>1, <3>4, <3>5
  <2>2. Counted(d) /\ ~ended[d]
    BY <1>3 DEF RelayInv, Counted
  <2> QED
    BY <1>1, <2>1, <2>2, TakenOff DEF Receive, Counted
<1>5. \A c \in Dirs \ {d} : Counted(c)'
  <2>1. \A c \in Dirs \ {d} : wire'[c] = wire[c] /\ recvNonce'[c] = recvNonce[c]
    BY <1>1, TakenOff
  <2> QED
    BY <1>3, <2>1 DEF RelayInv, Receive, Counted
<1>6. \A e \in Ends : Supervised(e)'
  BY <1>3, DirsAndEnds DEF RelayInv, Receive, Supervised, LegsOver
<1>7. ~Broken' => Whole'
  <2> SUFFICES ASSUME ~Broken' PROVE Whole'
    OBVIOUS
  <2>1. Whole
    BY DEF RelayInv, Receive, Broken
  <2>2. InOrder(d) /\ Ending(d)
    BY <2>1 DEF Whole
  <2>3. Ending(d)'
    <3>1. CASE sl[d] \in {"read", "drain"}
      <4>1. \A i \in DOMAIN wire'[d] : wire'[d][i].piece # Alert
        <5>1. \A i \in DOMAIN wire'[d] : i + 1 \in DOMAIN wire[d] /\ wire'[d][i] = wire[d][i + 1]
          BY <1>1, TakenOff
        <5>2. \A i \in DOMAIN wire[d] : wire[d][i].piece # Alert
          BY <2>2, <3>1 DEF Ending
        <5> QED
          BY <5>1, <5>2
      <4> QED
        BY <1>3, <3>1, <4>1 DEF Receive, Ending
    <3>2. CASE sl[d] \in {"notify", "done"}
      <4>1. \A i \in DOMAIN wire[d] : wire[d][i].piece = Alert <=> i = Len(wire[d])
        BY <2>2, <3>2 DEF Ending
      <4>2. Len(wire[d]) # 1
        BY <1>2, <4>1
      <4>3. Len(wire'[d]) = Len(wire[d]) - 1 /\ wire'[d] # <<>>
        <5>1. Len(wire'[d]) = Len(wire[d]) - 1
          BY <1>1, TakenOff
        <5>2. Len(wire'[d]) # 0
          BY <1>2, <4>2, <5>1
        <5> QED
          BY <5>1, <5>2, EmptySeq
      <4>4. ASSUME NEW i \in DOMAIN wire'[d]
            PROVE  wire'[d][i].piece = Alert <=> i = Len(wire'[d])
        <5>1. i + 1 \in DOMAIN wire[d] /\ wire'[d][i] = wire[d][i + 1]
          BY <1>1, TakenOff
        <5>2. i \in Int
          <6>1. wire'[d] \in Seq(Records)
            BY DEF RelayTypeOK
          <6> QED
            BY <6>1, LenProperties
        <5> QED
          BY <1>2, <4>1, <4>3, <5>1, <5>2
      <4> QED
        BY <1>3, <2>2, <3>2, <4>3, <4>4 DEF Receive, Ending
    <3> QED
      BY <3>1, <3>2 DEF RelayInv, RelayTypeOK, SendStates
  <2>4. ASSUME NEW c \in Dirs \ {d} PROVE InOrder(c)' /\ Ending(c)'
    <3>1. InOrder(c) /\ Ending(c)
      BY <2>1 DEF Whole
    <3>2. wire'[c] = wire[c] /\ recvNonce'[c] = recvNonce[c]
      BY <1>1, TakenOff
    <3> QED
      BY <1>3, <3>1, <3>2 DEF Receive, InOrder, Ending
  <2>5. InOrder(d)'
    BY <1>1, <2>2, TakenOff
  <2> QED
    BY <2>1, <2>3, <2>4, <2>5 DEF Receive, Whole
<1> QED
  BY <1>4, <1>5, <1>6, <1>7 DEF RelayInv

(* The end of a receiver leg: while nothing has failed, it is the alert that *)
(* ends it, and the alert comes after the last piece.                        *)
LEMMA ReceiverEnds ==
    ASSUME RelayInv, RelayTypeOK', NEW d \in Dirs, ReceiveAlert(d) \/ ReceiveFails(d)
    PROVE  RelayInv'
<1>1. /\ rl[d] # "done" /\ rl'[d] = "done"
      /\ \A c \in Dirs \ {d} : rl'[c] = rl[c] /\ ended'[c] = ended[c]
  BY DEF ReceiveAlert, ReceiveFails, EndReceiver, RelayInv, RelayTypeOK
<1>2. /\ fin' = fin /\ taken' = taken /\ written' = written /\ sl' = sl /\ got' = got
      /\ cut' = cut /\ reset' = reset /\ sendNonce' = sendNonce /\ tfin' = tfin /\ es' = es
      /\ faults' = faults /\ late' = late
  BY DEF ReceiveAlert, ReceiveFails
<1>3. CASE ReceiveAlert(d)
  <2>1. /\ wire[d] # <<>> /\ wire' = [wire EXCEPT ![d] = Tail(@)]
        /\ recvNonce' = [recvNonce EXCEPT ![d] = @ + 1]
    BY <1>3 DEF ReceiveAlert
  <2>2. /\ Len(wire[d]) \in Nat \ {0} /\ DOMAIN wire[d] = 1 .. Len(wire[d])
        /\ wire[d][1] = Head(wire[d]) /\ recvNonce[d] \in Nat
        /\ sendNonce[d] \in Nat /\ written[d] \in Nat
        /\ Len(wire[d]) = 1 => wire'[d] = <<>>
    BY <2>1, TailWire DEF RelayInv, RelayTypeOK
  <2>3. \A c \in Dirs \ {d} : wire'[c] = wire[c] /\ recvNonce'[c] = recvNonce[c]
    BY <1>2, <2>1, TakenOff
  <2>4. Counted(d)'
    BY <1>1, <1>2, <2>1, TakenOff DEF RelayInv, Counted
  <2>5. \A c \in Dirs \ {d} : Counted(c)'
    BY <1>1, <1>2, <2>3 DEF RelayInv, Counted
  <2>6. \A e \in Ends : Supervised(e)'
    BY <1>1, <1>2, DirsAndEnds DEF RelayInv, Supervised, LegsOver
  <2>7. ~Broken' => Whole'
    <3> SUFFICES ASSUME ~Broken' PROVE Whole'
      OBVIOUS
    <3>1. Whole
      BY <1>2 DEF RelayInv, Broken
    <3>2. InOrder(d) /\ Ending(d) /\ Counted(d) /\ ~reset[Sink(d)]
      BY <3>1, DirsAndEnds DEF Whole, RelayInv
    <3>0. 1 \in DOMAIN wire[d]
      BY <2>2
    <3>3. wire[d][1].nonce = recvNonce[d]
      <4>1. wire[d][1].nonce = recvNonce[d] + 1 - 1
        BY <3>0, <3>2 DEF InOrder
      <4> QED
        BY <2>2, <4>1
    <3>4. wire[d][1].piece = Alert
      BY <1>3, <2>2, <3>3 DEF ReceiveAlert
    <3>5. sl[d] \in {"notify", "done"}
      <4>1. sl[d] \notin {"read", "drain"}
        BY <3>0, <3>2, <3>4 DEF Ending
      <4> QED
        BY <4>1 DEF RelayInv, RelayTypeOK, SendStates
    <3>6. Len(wire[d]) = 1 /\ sendNonce[d] = written[d] + 1
      BY <3>0, <3>2, <3>4, <3>5 DEF Ending
    <3>7. Len(got[d]) = written[d]
      BY <1>1, <2>2, <3>2, <3>6 DEF InOrder, Counted
    <3>8. InOrder(d)'
      BY <1>2, <2>1, <3>2, TakenOff
    <3>9. Ending(d)'
      <4>1. wire'[d] = <<>> /\ DOMAIN wire'[d] = {}
        BY <2>2, <3>6
      <4> QED
        BY <1>1, <1>2, <3>2, <3>5, <3>7, <4>1 DEF Ending
    <3>10. \A c \in Dirs \ {d} : InOrder(c)' /\ Ending(c)'
      <4> SUFFICES ASSUME NEW c \in Dirs \ {d} PROVE InOrder(c)' /\ Ending(c)'
        OBVIOUS
      <4>1. InOrder(c) /\ Ending(c)
        BY <3>1 DEF Whole
      <4> QED
        BY <1>1, <1>2, <2>3, <4>1 DEF InOrder, Ending
    <3> QED
      BY <1>2, <3>1, <3>8, <3>9, <3>10 DEF Whole
  <2> QED
    BY <2>4, <2>5, <2>6, <2>7 DEF RelayInv
<1>4. CASE ReceiveFails(d)
  <2>1. wire' = wire /\ recvNonce' = recvNonce
    BY <1>4 DEF ReceiveFails
  <2>2. \A c \in Dirs : Counted(c)'
    BY <1>1, <1>2, <2>1 DEF RelayInv, Counted
  <2>3. \A e \in Ends : Supervised(e)'
    BY <1>1, <1>2, DirsAndEnds DEF RelayInv, Supervised, LegsOver
  <2>4. Broken'
    <3>1. ASSUME Whole PROVE FALSE
      <4>1. Ending(d) /\ Counted(d) /\ ~reset[Sink(d)] /\ ~cut
        BY <3>1, DirsAndEnds DEF Whole, RelayInv
      <4>2. wire[d] = <<>> /\ tfin[d] /\ rl[d] # "done"
        BY <1>1, <1>4, <4>1 DEF ReceiveFails
      <4> QED
        BY <4>1, <4>2 DEF Ending, Counted
    <3> QED
      BY <1>2, <3>1 DEF RelayInv, Broken
  <2> QED
    BY <2>2, <2>3, <2>4 DEF RelayInv
<1> QED
  BY <1>3, <1>4

(* The wait of a receiver leg.                                               *)
LEMMA ReceiveWaits ==
    ASSUME RelayInv, RelayTypeOK', NEW d \in Dirs, ReceiveDrained(d)
    PROVE  RelayInv'
<1>1. /\ rl[d] = "drain" /\ rl'[d] = "recv"
      /\ \A c \in Dirs \ {d} : rl'[c] = rl[c]
  BY DEF ReceiveDrained, RelayInv, RelayTypeOK
<1>2. /\ fin' = fin /\ taken' = taken /\ written' = written /\ sl' = sl /\ got' = got
      /\ cut' = cut /\ reset' = reset /\ sendNonce' = sendNonce /\ tfin' = tfin /\ es' = es
      /\ faults' = faults /\ late' = late /\ wire' = wire /\ recvNonce' = recvNonce
      /\ ended' = ended
  BY DEF ReceiveDrained
<1>3. \A c \in Dirs : rl'[c] = "done" <=> rl[c] = "done"
  BY <1>1
<1>4. ASSUME NEW c \in Dirs PROVE Counted(c)' /\ (Ending(c) => Ending(c)')
                                              /\ (InOrder(c) => InOrder(c)')
  BY <1>2, <1>3 DEF RelayInv, Counted, Ending, InOrder
<1>5. \A e \in Ends : Supervised(e)'
  BY <1>2, <1>3, DirsAndEnds DEF RelayInv, Supervised, LegsOver
<1>6. ~Broken' => Whole'
  BY <1>2, <1>4 DEF RelayInv, Broken, Whole
<1> QED
  BY <1>4, <1>5, <1>6 DEF RelayInv

(* The relay functions.  A grace period that runs out breaks the stream;     *)
(* otherwise what an end throws away, and closes, is over.                   *)
LEMMA SupervisorStep ==
    ASSUME RelayInv, RelayTypeOK', NEW e \in Ends, Supervisor(e)
    PROVE  RelayInv'
<1>0. /\ In(e) \in Dirs /\ Out(e) \in Dirs
      /\ \A f \in Ends : In(f) \in Dirs /\ Out(f) \in Dirs
  BY DirsAndEnds
<1>1. CASE FirstOver(e) \/ BothOver(e)
  <2>1. /\ written' = written /\ fin' = fin /\ taken' = taken /\ sendNonce' = sendNonce
        /\ recvNonce' = recvNonce /\ wire' = wire /\ tfin' = tfin /\ got' = got
        /\ ended' = ended /\ sl' = sl /\ rl' = rl /\ reset' = reset /\ cut' = cut
        /\ faults' = faults /\ late' = late
    BY <1>1 DEF FirstOver, BothOver
  <2>2. es'[e] = "grace" \/ LegsOver(e)
    BY <1>1 DEF FirstOver, BothOver, RelayInv, RelayTypeOK
  <2>3. \A f \in Ends \ {e} : es'[f] = es[f]
    BY <1>1 DEF FirstOver, BothOver, RelayInv, RelayTypeOK
  <2>4. \A f \in Ends : Supervised(f)'
    BY <2>1, <2>2, <2>3 DEF RelayInv, Supervised, LegsOver
  <2>5. \A d \in Dirs : Counted(d)'
    BY <2>1 DEF RelayInv, Counted
  <2>6. ~Broken' => Whole'
    BY <2>1 DEF RelayInv, Broken, Whole, InOrder, Ending
  <2> QED
    BY <2>4, <2>5, <2>6 DEF RelayInv
<1>2. CASE GraceOver(e)
  <2>1. /\ written' = written /\ taken' = taken /\ sendNonce' = sendNonce
        /\ recvNonce' = recvNonce /\ wire' = wire /\ tfin' = tfin /\ got' = got
        /\ ended' = ended /\ reset' = reset
    BY <1>2 DEF GraceOver
  <2>2. \A d \in Dirs : sl'[d] \in {sl[d], "done"} /\ rl'[d] \in {rl[d], "done"}
    BY <1>0, <1>2 DEF GraceOver, RelayInv, RelayTypeOK
  <2>3. LegsOver(e)'
    BY <1>0, <1>2 DEF GraceOver, RelayInv, RelayTypeOK, LegsOver
  <2>4. \A f \in Ends \ {e} : es'[f] = es[f]
    BY <1>2 DEF GraceOver, RelayInv, RelayTypeOK
  <2>5. \A f \in Ends : Supervised(f)'
    BY <1>0, <2>2, <2>3, <2>4 DEF RelayInv, Supervised, LegsOver
  <2>6. ASSUME NEW d \in Dirs PROVE Counted(d)'
    <3>1. Counted(d) /\ sl'[d] \in {sl[d], "done"} /\ rl'[d] \in {rl[d], "done"}
      BY <2>2 DEF RelayInv
    <3> QED
      BY <2>1, <3>1 DEF Counted
  <2>7. Broken'
    BY <1>2 DEF GraceOver, RelayInv, RelayTypeOK, Broken
  <2> QED
    BY <2>5, <2>6, <2>7 DEF RelayInv
<1>3. CASE DrainRecv(e)
  <2>1. /\ written' = written /\ fin' = fin /\ taken' = taken /\ sendNonce' = sendNonce
        /\ recvNonce' = recvNonce /\ tfin' = tfin /\ got' = got
        /\ ended' = ended /\ sl' = sl /\ rl' = rl /\ reset' = reset /\ cut' = cut
        /\ faults' = faults /\ late' = late
    BY <1>3 DEF DrainRecv
  <2>2. /\ LegsOver(e)
        /\ \A f \in Ends \ {e} : es'[f] = es[f]
    BY <1>3 DEF DrainRecv, RelayInv, RelayTypeOK, Supervised
  <2>3. \A f \in Ends : Supervised(f)'
    BY <2>1, <2>2 DEF RelayInv, Supervised, LegsOver
  <2>4. wire'[In(e)] = <<>> /\ \A d \in Dirs \ {In(e)} : wire'[d] = wire[d]
    BY <1>0, <1>3 DEF DrainRecv, RelayInv, RelayTypeOK
  <2>5. ASSUME NEW d \in Dirs PROVE Counted(d)'
    <3>1. DOMAIN wire'[d] = {} \/ wire'[d] = wire[d]
      BY <2>4
    <3>2. Counted(d)
      BY DEF RelayInv
    <3> QED
      BY <2>1, <3>1, <3>2 DEF Counted
  <2>6. ~Broken' => Whole'
    <3> SUFFICES ASSUME ~Broken' PROVE Whole'
      OBVIOUS
    <3>1. Whole
      BY <2>1 DEF RelayInv, Broken
    <3>2. wire[In(e)] = <<>>
      BY <1>0, <2>2, <3>1 DEF Whole, Ending, LegsOver
    <3>3. wire' = wire
      BY <1>0, <1>3, <3>2 DEF DrainRecv, RelayInv, RelayTypeOK
    <3> QED
      BY <2>1, <3>1, <3>3 DEF Whole, InOrder, Ending
  <2> QED
    BY <2>3, <2>5, <2>6 DEF RelayInv
<1>4. CASE Close(e)
  <2>1. /\ written' = written /\ fin' = fin /\ taken' = taken /\ sendNonce' = sendNonce
        /\ recvNonce' = recvNonce /\ wire' = wire /\ got' = got
        /\ sl' = sl /\ rl' = rl /\ reset' = reset /\ cut' = cut
        /\ faults' = faults /\ late' = late
    BY <1>4 DEF Close, CloseTunnel, CloseLocal
  <2>2. LegsOver(e)
    <3>1. es[e] \in {"close", "close2"}
      BY <1>4 DEF Close, CloseTunnel, CloseLocal
    <3> QED
      BY <3>1 DEF RelayInv, Supervised
  <2>3. \A f \in Ends \ {e} : es'[f] = es[f]
    BY <1>4 DEF Close, CloseTunnel, CloseLocal, RelayInv, RelayTypeOK
  <2>4. \A f \in Ends : Supervised(f)'
    BY <2>1, <2>2, <2>3 DEF RelayInv, Supervised, LegsOver
  <2>5. \A d \in Dirs : (ended'[d] => rl'[d] = "done") /\ (tfin'[d] => sl'[d] = "done")
    <3>1. CASE CloseTunnel(e)
      BY <1>0, <2>1, <2>2, <3>1 DEF CloseTunnel, RelayInv, RelayTypeOK, Counted, LegsOver
    <3>2. CASE CloseLocal(e)
      BY <1>0, <2>1, <2>2, <3>2 DEF CloseLocal, RelayInv, RelayTypeOK, Counted, LegsOver
    <3> QED
      BY <1>4, <3>1, <3>2 DEF Close
  <2>6. \A d \in Dirs : Counted(d)'
    BY <2>1, <2>5 DEF RelayInv, Counted
  <2>7. ~Broken' => Whole'
    BY <2>1 DEF RelayInv, Broken, Whole, InOrder, Ending
  <2> QED
    BY <2>4, <2>6, <2>7 DEF RelayInv
<1> QED
  BY <1>1, <1>2, <1>3, <1>4 DEF Supervisor

(* Every step keeps the invariant.                                           *)
LEMMA InvStep ==
    ASSUME Alert \notin Nat \ {0}, RelayInv, [RelayNext]_relayVars
    PROVE  RelayInv'
<1>1. RelayTypeOK'
  BY TypeStep DEF RelayInv
<1>2. ASSUME NEW d \in Dirs, SendLeg(d) PROVE RelayInv'
  BY <1>1, <1>2, ForwardStep, SendOverStep, SendWaits DEF SendLeg
<1>3. ASSUME NEW d \in Dirs, ReceiveLeg(d) PROVE RelayInv'
  BY <1>1, <1>3, ReceiveStep, ReceiverEnds, ReceiveWaits DEF ReceiveLeg
<1>4. ASSUME NEW d \in Dirs, Application(d) PROVE RelayInv'
  BY <1>1, <1>4, EnvironmentStep
<1>5. ASSUME NEW e \in Ends, AppReset(e) \/ Rst(e) PROVE RelayInv'
  BY <1>1, <1>5, EnvironmentStep
<1>6. ASSUME NEW e \in Ends, Supervisor(e) PROVE RelayInv'
  BY <1>1, <1>6, SupervisorStep
<1>7. CASE Cut
  BY <1>1, <1>7, EnvironmentStep
<1>8. CASE UNCHANGED relayVars
  BY <1>8 DEF relayVars, RelayInv, RelayTypeOK, Counted, Supervised, LegsOver, Broken, Whole,
              InOrder, Ending
<1> QED
  BY <1>2, <1>3, <1>4, <1>5, <1>6, <1>7, <1>8 DEF RelayNext

(* Nonces, pieces and legs stay as RelayInv says, whatever fails.            *)
THEOREM RelayInvariant ==
    ASSUME Alert \notin Nat \ {0}
    PROVE  RelaySpec => []RelayInv
<1>1. RelayInit => RelayInv
  BY InitInv
<1>2. RelayInv /\ [RelayNext]_relayVars => RelayInv'
  BY InvStep
<1> QED
  BY <1>1, <1>2, PTL DEF RelaySpec

-----------------------------------------------------------------------------
(* The relay implements Stream: it starts where Stream starts, ...           *)
LEMMA StreamInit == RelayInit => Abstract!Init
<1> SUFFICES ASSUME RelayInit PROVE Abstract!Init
  OBVIOUS
<1>1. ~Broken
  BY DEF RelayInit, Broken
<1> QED
  BY <1>1 DEF RelayInit, Abstract!Init

(* ... the end that an application is shown is one that Stream allows, ...   *)
LEMMA EndAllowed ==
    ASSUME RelayInv, NEW d \in Dirs, rl[d] = "done"
    PROVE  Broken \/ (fin[d] /\ Len(got[d]) = written[d])
<1> SUFFICES ASSUME ~Broken PROVE fin[d] /\ Len(got[d]) = written[d]
  OBVIOUS
<1>1. Ending(d) /\ sl[d] \in {"read", "drain", "notify", "done"}
  BY DEF RelayInv, Whole, RelayTypeOK, SendStates
<1> QED
  BY <1>1 DEF Ending

(* ... and a piece that it is given is the next one it has not seen.         *)
LEMMA PieceNext ==
    ASSUME RelayInv, NEW d \in Dirs, Receive(d), ~reset[Sink(d)]
    PROVE  Abstract!Deliver(d)
<1>1. wire[d] \in Seq(Records) /\ wire[d] # <<>>
  BY DEF RelayInv, RelayTypeOK, Receive
<1>2. 1 \in DOMAIN wire[d] /\ wire[d][1] = Head(wire[d])
  BY <1>1, TailWire
<1>3. Head(wire[d]).piece = Head(wire[d]).nonce + 1 /\ Head(wire[d]).piece <= taken[d]
  BY <1>2 DEF RelayInv, Counted, Receive
<1>4. Len(got[d]) = recvNonce[d] /\ taken[d] <= written[d] /\ ~ended[d]
  BY DEF RelayInv, Counted, Receive
<1>5. Head(wire[d]).piece = Len(got[d]) + 1
  BY <1>3, <1>4 DEF Receive
<1>6. Len(got[d]) < written[d]
  <2>1. recvNonce[d] \in Nat /\ taken[d] \in Nat /\ written[d] \in Nat
    BY DEF RelayInv, RelayTypeOK
  <2> QED
    BY <1>3, <1>4, <1>5, <2>1
<1>7. got' = [got EXCEPT ![d] = Append(@, Len(@) + 1)]
  BY <1>5 DEF Receive
<1>8. written' = written /\ fin' = fin /\ ended' = ended /\ Broken' = Broken
  BY DEF Receive, Broken
<1> QED
  BY <1>4, <1>6, <1>7, <1>8 DEF Abstract!Deliver

(* Every step of the relay is a step of Stream or leaves it as it is.        *)
LEMMA StreamStep ==
    ASSUME RelayInv, RelayInv', [RelayNext]_relayVars
    PROVE  [Abstract!Next]_(Abstract!streamVars)
<1> DEFINE Same == /\ written' = written /\ fin' = fin /\ got' = got /\ ended' = ended
                   /\ Broken' = Broken
<1>0. Same => UNCHANGED Abstract!streamVars
  BY DEF Abstract!streamVars
<1>1. ASSUME NEW d \in Dirs, AppWrite(d) PROVE Abstract!Write(d)
  BY <1>1 DEF AppWrite, Broken, Abstract!Write
<1>2. ASSUME NEW d \in Dirs, AppFin(d) PROVE Abstract!Finish(d)
  BY <1>2 DEF AppFin, Broken, Abstract!Finish
<1>3. ASSUME NEW d \in Dirs, SendLeg(d) PROVE Same
  BY <1>3 DEF SendLeg, Forward, SendDrained, SendOver, Notified, Broken
<1>4. ASSUME NEW d \in Dirs, Receive(d) PROVE Abstract!Deliver(d) \/ Same
  <2>1. CASE reset[Sink(d)]
    <3>1. got' = [got EXCEPT ![d] = got[d]]
      BY <1>4, <2>1 DEF Receive
    <3>2. got' = got
      BY <3>1 DEF RelayInv, RelayTypeOK
    <3> QED
      BY <1>4, <3>2 DEF Receive, Broken
  <2>2. CASE ~reset[Sink(d)]
    BY <1>4, <2>2, PieceNext
  <2> QED
    BY <2>1, <2>2
<1>5. ASSUME NEW d \in Dirs, ReceiveDrained(d) PROVE Same
  BY <1>5 DEF ReceiveDrained, Broken
<1>6. ASSUME NEW d \in Dirs, ReceiveAlert(d) \/ ReceiveFails(d) PROVE Abstract!End(d)
  <2>1. /\ written' = written /\ fin' = fin /\ got' = got /\ Broken' = Broken
        /\ ended' = [ended EXCEPT ![d] = TRUE]
    BY <1>6 DEF ReceiveAlert, ReceiveFails, EndReceiver, Broken
  <2>2. rl'[d] = "done"
    BY <1>6 DEF ReceiveAlert, ReceiveFails, EndReceiver, RelayInv, RelayTypeOK
  <2>3. Broken' \/ (fin'[d] /\ Len(got'[d]) = written'[d])
    <3>1. ~Broken' => Ending(d)' /\ sl'[d] \in {"read", "drain", "notify", "done"}
      BY DEF RelayInv, Whole, RelayTypeOK, SendStates
    <3> QED
      BY <2>2, <3>1 DEF Ending
  <2> QED
    BY <2>1, <2>3 DEF Abstract!End
<1>7. ASSUME NEW e \in Ends, CloseLocal(e) PROVE Abstract!End(In(e))
  <2>1. In(e) \in Dirs /\ rl[In(e)] = "done"
    <3>1. es[e] \in {"close", "close2"}
      BY <1>7 DEF CloseLocal
    <3> QED
      BY <3>1, DirsAndEnds DEF RelayInv, Supervised, LegsOver
  <2>2. Broken \/ (fin[In(e)] /\ Len(got[In(e)]) = written[In(e)])
    BY <2>1, EndAllowed
  <2>3. /\ written' = written /\ fin' = fin /\ got' = got /\ Broken' = Broken
        /\ ended' = [ended EXCEPT ![In(e)] = TRUE]
    BY <1>7 DEF CloseLocal, Broken
  <2> QED
    BY <2>2, <2>3 DEF Abstract!End
<1>8. ASSUME NEW e \in Ends, FirstOver(e) \/ BothOver(e) \/ DrainRecv(e) \/ CloseTunnel(e)
                              \/ Rst(e)
      PROVE  Same
  BY <1>8 DEF FirstOver, BothOver, DrainRecv, CloseTunnel, Rst, Lose, Broken
<1>9. ASSUME NEW e \in Ends, GraceOver(e) PROVE Abstract!Break
  <2>1. Broken'
    BY <1>9 DEF GraceOver, RelayInv, RelayTypeOK, Broken
  <2> QED
    BY <1>9, <2>1 DEF GraceOver, Abstract!Break
<1>10. ASSUME (\E e \in Ends : AppReset(e)) \/ Cut PROVE Abstract!Break
  <2>1. Broken'
    <3>1. faults \in Nat /\ faults' = faults + 1
      BY <1>10 DEF AppReset, Cut, RelayInv, RelayTypeOK
    <3> QED
      BY <3>1 DEF Broken
  <2> QED
    BY <1>10, <2>1 DEF AppReset, Cut, Abstract!Break
<1>11. CASE UNCHANGED relayVars
  BY <1>0, <1>11 DEF relayVars, Broken
<1>12. \A e \in Ends : In(e) \in Dirs
  BY DirsAndEnds
<1> HIDE DEF Same
<1>13. ASSUME NEW d \in Dirs, Application(d) \/ SendLeg(d) \/ ReceiveLeg(d)
       PROVE  Abstract!Write(d) \/ Abstract!Finish(d) \/ Abstract!Deliver(d) \/ Abstract!End(d)
                \/ Same
  BY <1>1, <1>2, <1>3, <1>4, <1>5, <1>6, <1>13 DEF Application, ReceiveLeg
<1>14. ASSUME NEW e \in Ends, Supervisor(e) \/ AppReset(e) \/ Rst(e)
       PROVE  Abstract!End(In(e)) \/ Abstract!Break \/ Same
  BY <1>7, <1>8, <1>9, <1>10, <1>14 DEF Supervisor, Close
<1> QED
  BY <1>0, <1>10, <1>11, <1>12, <1>13, <1>14 DEF RelayNext, Abstract!Next

(* In each direction the application is given the pieces that were written,  *)
(* in order and each once, and its end after the last, unless something      *)
(* failed or a grace period ran out.                                         *)
THEOREM StreamIsKept ==
    ASSUME Alert \notin Nat \ {0}
    PROVE  RelaySpec => StreamKept
<1>1. RelayInit => Abstract!Init
  BY StreamInit
<1>2. RelayInv /\ RelayInv' /\ [RelayNext]_relayVars => [Abstract!Next]_(Abstract!streamVars)
  BY StreamStep
<1>3. RelaySpec => []RelayInv
  BY RelayInvariant
<1> QED
  BY <1>1, <1>2, <1>3, PTL DEF RelaySpec, StreamKept, Abstract!Spec
=============================================================================
