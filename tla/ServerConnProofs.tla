-------------------------- MODULE ServerConnProofs --------------------------
(***************************************************************************)
(* Proofs about ServerConn, for any number of connections, addresses and   *)
(* any cap: the slot of an address is taken and given back exactly once by *)
(* every path through handle_client, and the table of active connections   *)
(* is the set of registered handlers.                                      *)
(***************************************************************************)
EXTENDS ServerConn, UdpRelay, SequenceTheorems, FiniteSetTheorems, TLAPS

(* The inductive invariant: a slot can be released (the count does not go    *)
(* below 0) only because the count covers the handler that releases it.      *)
SlotInv == TypeOK /\ SlotsAccounted

(* The holders of an address are finitely many. *)
LEMMA HoldersFinite ==
  ASSUME NEW i \in Ips
  PROVE  /\ IsFiniteSet(HoldersOf(i))
         /\ Cardinality(HoldersOf(i)) \in Nat
<1>1. HoldersOf(i) \subseteq Conns
  BY DEF HoldersOf
<1>2. IsFiniteSet(HoldersOf(i))
  BY <1>1, FS_Subset, ServerAssumption
<1> QED
  BY <1>2, FS_CardinalityType

(* A handler that starts to hold a slot is one more holder of its address.   *)
LEMMA EnterHolders ==
  ASSUME TypeOK, NEW c \in Conns, pc[c] \notin Holding,
         NEW s \in Holding, pc' = [pc EXCEPT ![c] = s], ip' = ip
  PROVE  \A i \in Ips : Cardinality(HoldersOf(i)') =
            IF i = ip[c] THEN Cardinality(HoldersOf(i)) + 1
                         ELSE Cardinality(HoldersOf(i))
<1> TAKE i \in Ips
<1>1. HoldersOf(i)' = IF i = ip[c] THEN HoldersOf(i) \cup {c} ELSE HoldersOf(i)
  BY DEF HoldersOf, TypeOK
<1>2. c \notin HoldersOf(i)
  BY DEF HoldersOf
<1> QED
  BY <1>1, <1>2, HoldersFinite, FS_AddElement

(* A handler that releases its slot is one holder less of its address, which *)
(* had one at least.                                                         *)
LEMMA LeaveHolders ==
  ASSUME TypeOK, NEW c \in Conns, pc[c] \in Holding,
         pc' = [pc EXCEPT ![c] = "done"], ip' = ip
  PROVE  /\ Cardinality(HoldersOf(ip[c])) > 0
         /\ \A i \in Ips : Cardinality(HoldersOf(i)') =
               IF i = ip[c] THEN Cardinality(HoldersOf(i)) - 1
                            ELSE Cardinality(HoldersOf(i))
<1>1. ip[c] \in Ips /\ c \in HoldersOf(ip[c])
  BY DEF HoldersOf, TypeOK
<1>2. Cardinality(HoldersOf(ip[c])) > 0
  BY <1>1, HoldersFinite, FS_EmptySet
<1>3. ASSUME NEW i \in Ips
      PROVE  Cardinality(HoldersOf(i)') =
               IF i = ip[c] THEN Cardinality(HoldersOf(i)) - 1
                            ELSE Cardinality(HoldersOf(i))
  <2>1. HoldersOf(i)' = IF i = ip[c] THEN HoldersOf(i) \ {c} ELSE HoldersOf(i)
    BY DEF HoldersOf, TypeOK, Holding
  <2> QED
    BY <2>1, <1>1, HoldersFinite, FS_RemoveElement
<1> QED
  BY <1>2, <1>3

(* Any other step of a handler leaves the holders as they are.               *)
LEMMA SameHolders ==
  ASSUME TypeOK, NEW c \in Conns, NEW s \in Stages,
         pc[c] \in Holding <=> s \in Holding,
         pc' = [pc EXCEPT ![c] = s], ip' = ip
  PROVE  \A i \in Ips : HoldersOf(i)' = HoldersOf(i)
BY DEF HoldersOf, TypeOK

-----------------------------------------------------------------------------
(* A step of any action keeps the invariant: Admit takes a slot, the four    *)
(* ends of a handler release one, the rest touches neither.                  *)
LEMMA SlotInvStep == SlotInv /\ [Next]_vars => SlotInv'
<1> SUFFICES ASSUME SlotInv, [Next]_vars PROVE SlotInv'
  OBVIOUS
<1> USE ServerAssumption
<1> DEFINE Same == /\ slots' = slots
                   /\ \A i \in Ips : HoldersOf(i)' = HoldersOf(i)
<1>s. ASSUME Same PROVE SlotsAccounted'
  BY <1>s DEF SlotInv, SlotsAccounted
<1>m. ASSUME NEW c \in Conns, NEW s \in Stages,
             pc[c] \in Holding <=> s \in Holding,
             pc' = [pc EXCEPT ![c] = s], ip' = ip, slots' = slots
      PROVE  SlotsAccounted'
  BY <1>m, <1>s, SameHolders DEF SlotInv
<1>k. ASSUME pc' = pc, ip' = ip, slots' = slots PROVE SlotsAccounted'
  BY <1>k, <1>s DEF HoldersOf
<1>e. ASSUME NEW c \in Conns, pc[c] \in Holding, ReleaseSlot(c),
             pc' = [pc EXCEPT ![c] = "done"], ip' = ip
      PROVE  SlotsAccounted' /\ slots' \in [Ips -> 0 .. MaxPerIp]
  <2>1. Cardinality(HoldersOf(ip[c])) > 0
    BY <1>e, LeaveHolders DEF SlotInv
  <2>2. ASSUME NEW i \in Ips
        PROVE  slots'[i] = Cardinality(HoldersOf(i)') /\ slots'[i] \in 0 .. MaxPerIp
    <3>1. Cardinality(HoldersOf(i)') =
               IF i = ip[c] THEN Cardinality(HoldersOf(i)) - 1
                            ELSE Cardinality(HoldersOf(i))
      BY <1>e, LeaveHolders DEF SlotInv
    <3>2. slots[i] = Cardinality(HoldersOf(i)) /\ slots[i] \in 0 .. MaxPerIp
      BY DEF SlotInv, SlotsAccounted, TypeOK
    <3>3. slots'[i] = IF i = ip[c] THEN slots[i] - 1 ELSE slots[i]
      BY <1>e DEF ReleaseSlot, SlotInv, TypeOK
    <3> QED
      BY <3>1, <3>2, <3>3, <2>1
  <2>3. slots' \in [Ips -> 0 .. MaxPerIp]
    BY <1>e, <2>2 DEF ReleaseSlot, SlotInv, TypeOK
  <2> QED
    BY <2>2, <2>3 DEF SlotsAccounted
<1>1. CASE UNCHANGED vars
  <2>1. TypeOK'
    BY <1>1 DEF SlotInv, TypeOK, vars
  <2>2. SlotsAccounted'
    BY <1>1, <1>k DEF vars
  <2> QED
    BY <2>1, <2>2 DEF SlotInv
<1>2. ASSUME NEW c \in Conns, Admit(c) PROVE SlotInv'
  <2>1. /\ pc[c] \notin Holding /\ "hello" \in Holding
        /\ pc' = [pc EXCEPT ![c] = "hello"] /\ ip' = ip
    BY <1>2 DEF Admit, Holding, Stages
  <2>2. \A i \in Ips : Cardinality(HoldersOf(i)') =
            IF i = ip[c] THEN Cardinality(HoldersOf(i)) + 1
                         ELSE Cardinality(HoldersOf(i))
    BY <2>1, EnterHolders DEF SlotInv
  <2>3. slots' = [slots EXCEPT ![ip[c]] = @ + 1] /\ slots[ip[c]] < MaxPerIp
    BY <1>2 DEF Admit
  <2>4. TypeOK'
    BY <1>2, <2>3 DEF SlotInv, TypeOK, Admit, Stages
  <2>5. SlotsAccounted'
    BY <2>2, <2>3 DEF SlotInv, SlotsAccounted, TypeOK
  <2> QED
    BY <2>4, <2>5 DEF SlotInv
<1>3. ASSUME NEW c \in Conns, Refuse(c) PROVE SlotInv'
  <2>1. TypeOK'
    BY <1>3 DEF SlotInv, TypeOK, Refuse, Stages
  <2>2. SlotsAccounted'
    BY <1>3, <1>m DEF Refuse, Holding, Stages
  <2> QED
    BY <2>1, <2>2 DEF SlotInv
<1>4. ASSUME NEW c \in Conns, HelloOk(c) \/ HelloFail(c) \/ AddrFail(c) PROVE SlotInv'
  <2>1. TypeOK'
    BY <1>4 DEF SlotInv, TypeOK, HelloOk, HelloFail, AddrFail, Stages
  <2>2. SlotsAccounted'
    BY <1>4, <1>m DEF HelloOk, HelloFail, AddrFail, Holding, Stages
  <2> QED
    BY <2>1, <2>2 DEF SlotInv
<1>5. ASSUME NEW c \in Conns, AddrMalformed(c) PROVE SlotInv'
  <2>1. SlotsAccounted' /\ slots' \in [Ips -> 0 .. MaxPerIp]
    BY <1>5, <1>e DEF AddrMalformed, Holding, Stages
  <2>2. TypeOK'
    BY <1>5, <2>1 DEF SlotInv, TypeOK, AddrMalformed, Stages
  <2> QED
    BY <2>1, <2>2 DEF SlotInv
<1>6. ASSUME NEW c \in Conns, AddrUdp(c) \/ AddrTcp(c) PROVE SlotInv'
  <2>1. TypeOK'
    BY <1>6 DEF SlotInv, TypeOK, AddrUdp, AddrTcp, Register, Stages, Directions
  <2>2. SlotsAccounted'
    BY <1>6, <1>m DEF AddrUdp, AddrTcp, Holding, Stages
  <2> QED
    BY <2>1, <2>2 DEF SlotInv
<1>7. ASSUME NEW c \in Conns, DialOk(c) \/ DialFail(c) \/ RelayOver(c) PROVE SlotInv'
  <2>1. TypeOK'
    BY <1>7 DEF SlotInv, TypeOK, DialOk, DialFail, RelayOver, Stages, Directions
  <2>2. SlotsAccounted'
    BY <1>7, <1>m DEF DialOk, DialFail, RelayOver, Holding, Stages
  <2> QED
    BY <2>1, <2>2 DEF SlotInv
<1>8. ASSUME NEW c \in Conns, UdpOver(c) PROVE SlotInv'
  <2>1. TypeOK'
    BY <1>8 DEF SlotInv, TypeOK, UdpOver, Unregister, Stages
  <2>2. SlotsAccounted'
    BY <1>8, <1>m DEF UdpOver, Holding, Stages
  <2> QED
    BY <2>1, <2>2 DEF SlotInv
<1>9. ASSUME NEW c \in Conns, Finish(c) PROVE SlotInv'
  <2>1. SlotsAccounted' /\ slots' \in [Ips -> 0 .. MaxPerIp]
    BY <1>9, <1>e DEF Finish, Holding, Stages
  <2>2. TypeOK'
    BY <1>9, <2>1 DEF SlotInv, TypeOK, Finish, Unregister, Stages
  <2> QED
    BY <2>1, <2>2 DEF SlotInv
<1>10. ASSUME NEW c \in Conns, Finally(c) PROVE SlotInv'
  <2>1. SlotsAccounted' /\ slots' \in [Ips -> 0 .. MaxPerIp]
    BY <1>10, <1>e DEF Finally, Holding, Stages
  <2>2. TypeOK'
    BY <1>10, <2>1 DEF SlotInv, TypeOK, Finally, Stages
  <2> QED
    BY <2>1, <2>2 DEF SlotInv
<1>11. ASSUME NEW c \in Conns, ClientEof(c) \/ Kill(c) \/ PeerClose(c) PROVE SlotInv'
  <2>1. TypeOK'
    BY <1>11 DEF SlotInv, TypeOK, ClientEof, Kill, PeerClose
  <2>2. SlotsAccounted'
    BY <1>11, <1>k DEF ClientEof, Kill, PeerClose
  <2> QED
    BY <2>1, <2>2 DEF SlotInv
<1>12. ASSUME NEW c \in Conns, NEW d \in Directions,
              Chunk(c, d) \/ Drained(c, d) \/ LegEnds(c, d)
       PROVE  SlotInv'
  <2>1. stalled' \in [Conns -> SUBSET Directions]
    BY <1>12 DEF SlotInv, TypeOK, Chunk, Waits, Drained, LegEnds
  <2>2. TypeOK'
    BY <1>12, <2>1 DEF SlotInv, TypeOK, Chunk, Drained, LegEnds
  <2>3. SlotsAccounted'
    BY <1>12, <1>k DEF Chunk, Drained, LegEnds
  <2> QED
    BY <2>2, <2>3 DEF SlotInv
<1>13. ASSUME NEW i \in Ips, Block(i) \/ Unblock(i) PROVE SlotInv'
  <2>1. TypeOK'
    BY <1>13 DEF SlotInv, TypeOK, Block, Unblock
  <2>2. SlotsAccounted'
    BY <1>13, <1>k DEF Block, Unblock
  <2> QED
    BY <2>1, <2>2 DEF SlotInv
<1> QED
  BY <1>1, <1>2, <1>3, <1>4, <1>5, <1>6, <1>7, <1>8, <1>9, <1>10, <1>11, <1>12, <1>13
     DEF Next

LEMMA SlotInvInit == Init => SlotInv
<1> SUFFICES ASSUME Init PROVE SlotInv
  OBVIOUS
<1>1. TypeOK
  BY ServerAssumption DEF Init, TypeOK, Stages
<1>2. \A i \in Ips : HoldersOf(i) = {}
  BY DEF Init, HoldersOf, Holding
<1>3. SlotsAccounted
  BY <1>2, FS_EmptySet DEF Init, SlotsAccounted
<1> QED
  BY <1>1, <1>3 DEF SlotInv

(* Every variable keeps its range; in particular no address ever holds more  *)
(* than MaxPerIp slots, and no count goes below 0.                           *)
THEOREM TypeCorrect == Spec => []TypeOK
<1>1. SlotInv => TypeOK
  BY DEF SlotInv
<1> QED
  BY SlotInvInit, SlotInvStep, <1>1, PTL DEF Spec

(* The count of an address is, in every reachable state, the number of its   *)
(* handlers that hold a slot: no path through handle_client leaks one.       *)
THEOREM SlotsAreAccounted == Spec => []SlotsAccounted
<1>1. SlotInv => SlotsAccounted
  BY DEF SlotInv
<1> QED
  BY SlotInvInit, SlotInvStep, <1>1, PTL DEF Spec

-----------------------------------------------------------------------------
(* Only the stages between register and unregister are in the table.         *)
LEMMA ActiveStep == TypeOK /\ ActiveAccounted /\ [Next]_vars => ActiveAccounted'
<1> SUFFICES ASSUME TypeOK, ActiveAccounted, [Next]_vars PROVE ActiveAccounted'
  OBVIOUS
<1> USE DEF ActiveAccounted, TypeOK, Registered
<1>1. CASE UNCHANGED vars
  BY <1>1 DEF vars
<1>2. ASSUME NEW c \in Conns,
             Admit(c) \/ Refuse(c) \/ HelloOk(c) \/ HelloFail(c) \/ AddrFail(c)
             \/ AddrMalformed(c) \/ Finally(c)
      PROVE  ActiveAccounted'
  BY <1>2 DEF Admit, Refuse, HelloOk, HelloFail, AddrFail, AddrMalformed, Finally
<1>3. ASSUME NEW c \in Conns, AddrUdp(c) \/ AddrTcp(c) PROVE ActiveAccounted'
  BY <1>3 DEF AddrUdp, AddrTcp, Register
<1>4. ASSUME NEW c \in Conns, DialOk(c) \/ DialFail(c) \/ RelayOver(c)
      PROVE  ActiveAccounted'
  BY <1>4 DEF DialOk, DialFail, RelayOver
<1>5. ASSUME NEW c \in Conns, Finish(c) \/ UdpOver(c) PROVE ActiveAccounted'
  BY <1>5 DEF Finish, UdpOver, Unregister
<1>6. ASSUME NEW c \in Conns, ClientEof(c) \/ Kill(c) \/ PeerClose(c)
      PROVE  ActiveAccounted'
  BY <1>6 DEF ClientEof, Kill, PeerClose
<1>7. ASSUME NEW c \in Conns, NEW d \in Directions,
             Chunk(c, d) \/ Drained(c, d) \/ LegEnds(c, d)
      PROVE  ActiveAccounted'
  BY <1>7 DEF Chunk, Drained, LegEnds
<1>8. ASSUME NEW i \in Ips, Block(i) \/ Unblock(i) PROVE ActiveAccounted'
  BY <1>8 DEF Block, Unblock
<1> QED
  BY <1>1, <1>2, <1>3, <1>4, <1>5, <1>6, <1>7, <1>8 DEF Next

(* The table of active connections is the set of handlers between register   *)
(* and unregister, so a block or a kill misses no registered connection.     *)
THEOREM ActiveIsAccounted == Spec => []ActiveAccounted
<1>1. Init => ActiveAccounted
  BY DEF Init, ActiveAccounted, Registered
<1> QED
  BY TypeCorrect, <1>1, ActiveStep, PTL DEF Spec

-----------------------------------------------------------------------------
(* What the connections outside the table have relayed is the carried total: *)
(* a connection relays only while it is in the table, has relayed nothing    *)
(* before it enters, and no chunk comes after it has left.                   *)
ChunkInv ==
  /\ TypeOK /\ ActiveAccounted
  /\ \A c \in Conns :
       /\ bytes[c] <= MaxBytes
       /\ legs[c] # {} => pc[c] \in {"relay", "udp"}
       /\ pc[c] \in {"idle", "hello", "addr"} => bytes[c] = 0
  /\ total = Cardinality(ChunksOf(Conns \ active))

LEMMA ChunksFinite ==
  ASSUME NEW S \in SUBSET Conns
  PROVE  IsFiniteSet(ChunksOf(S)) /\ Cardinality(ChunksOf(S)) \in Nat
<1>1. IsFiniteSet(S)
  BY ServerAssumption, FS_Subset
<1>2. IsFiniteSet(1 .. MaxBytes)
  BY ServerAssumption, FS_Interval
<1>3. IsFiniteSet(S \X (1 .. MaxBytes))
  BY <1>1, <1>2, FS_Product
<1>4. ChunksOf(S) \in SUBSET (S \X (1 .. MaxBytes))
  BY DEF ChunksOf
<1>5. IsFiniteSet(ChunksOf(S))
  BY <1>3, <1>4, FS_Subset
<1> QED
  BY <1>5, FS_CardinalityType

(* The chunks of disjoint sets of connections add up. *)
LEMMA ChunksAdd ==
  ASSUME NEW S \in SUBSET Conns, NEW T \in SUBSET Conns, S \cap T = {}
  PROVE  Cardinality(ChunksOf(S \cup T))
           = Cardinality(ChunksOf(S)) + Cardinality(ChunksOf(T))
<1>1. ChunksOf(S \cup T) = ChunksOf(S) \cup ChunksOf(T)
  BY DEF ChunksOf
<1>2. ChunksOf(S) \cap ChunksOf(T) = {}
  BY DEF ChunksOf
<1>3. /\ IsFiniteSet(ChunksOf(S)) /\ Cardinality(ChunksOf(S)) \in Nat
      /\ IsFiniteSet(ChunksOf(T)) /\ Cardinality(ChunksOf(T)) \in Nat
  BY ChunksFinite
<1>4. Cardinality(ChunksOf(S) \cup ChunksOf(T))
        = Cardinality(ChunksOf(S)) + Cardinality(ChunksOf(T)) - Cardinality({})
  BY <1>2, <1>3, FS_Union
<1>5. Cardinality({}) = 0
  BY FS_EmptySet
<1>6. Cardinality(ChunksOf(S) \cup ChunksOf(T))
        = Cardinality(ChunksOf(S)) + Cardinality(ChunksOf(T))
  BY <1>3, <1>4, <1>5
<1> QED
  BY <1>1, <1>6, Zenon

(* One connection has as many chunks as its counter says. *)
LEMMA ChunksOfOne ==
  ASSUME NEW c \in Conns, bytes[c] \in Nat, bytes[c] <= MaxBytes
  PROVE  Cardinality(ChunksOf({c})) = bytes[c]
<1> DEFINE n == bytes[c]
           f == [k \in 1 .. n |-> <<c, k>>]
<1>1. ChunksOf({c}) = {<<c, k>> : k \in 1 .. n}
  BY ServerAssumption DEF ChunksOf
<1>2. f \in Bijection(1 .. n, ChunksOf({c}))
  <2>1. f \in [1 .. n -> ChunksOf({c})]
    BY <1>1
  <2>2. \A j, k \in 1 .. n : f[j] = f[k] => j = k
    OBVIOUS
  <2>3. \A p \in ChunksOf({c}) : \E k \in 1 .. n : f[k] = p
    BY <1>1
  <2> QED
    BY <2>1, <2>2, <2>3 DEF Bijection, Injection, Surjection, IsInjective
<1>3. ExistsBijection(1 .. n, ChunksOf({c}))
  BY <1>2 DEF ExistsBijection
<1>4. 1 \in Int /\ n \in Int /\ n \in Nat
  OBVIOUS
<1> HIDE DEF n, f
<1>5. IsFiniteSet(1 .. n) /\ Cardinality(1 .. n) = n
  BY <1>4, FS_Interval
<1> QED
  BY <1>3, <1>5, FS_Bijection DEF n

LEMMA ChunkInvInit == Init => ChunkInv
<1> SUFFICES ASSUME Init PROVE ChunkInv
  OBVIOUS
<1>1. TypeOK
  BY SlotInvInit DEF SlotInv
<1>2. ActiveAccounted
  BY DEF Init, ActiveAccounted, Registered
<1>3. \A c \in Conns : bytes[c] = 0 /\ bytes[c] <= MaxBytes /\ legs[c] = {}
  BY ServerAssumption DEF Init
<1>4. ChunksOf(Conns \ active) = {}
  BY <1>3, ServerAssumption DEF ChunksOf
<1>5. total = Cardinality(ChunksOf(Conns \ active))
  BY <1>4, FS_EmptySet DEF Init
<1> QED
  BY <1>1, <1>2, <1>3, <1>5 DEF ChunkInv

(* A step that counts no chunk of a connection outside the table, and lets   *)
(* none enter that has relayed or leave, keeps what is outside.              *)
LEMMA SameChunks ==
  ASSUME \A c \in Conns \ active' : c \in Conns \ active /\ bytes'[c] = bytes[c],
         \A c \in (Conns \ active) \ (Conns \ active') : bytes[c] = 0
  PROVE  ChunksOf(Conns \ active)' = ChunksOf(Conns \ active)
<1>1. ASSUME NEW p, p \in ChunksOf(Conns \ active)' PROVE p \in ChunksOf(Conns \ active)
  BY <1>1 DEF ChunksOf
<1>2. ASSUME NEW p, p \in ChunksOf(Conns \ active) PROVE p \in ChunksOf(Conns \ active)'
  <2>1. /\ p \in (Conns \ active) \X (1 .. MaxBytes) /\ p[2] <= bytes[p[1]]
        /\ p[1] \in Conns \ active /\ p[2] \in 1 .. MaxBytes
    BY <1>2 DEF ChunksOf
  <2>2. bytes[p[1]] # 0
    BY <2>1, ServerAssumption
  <2>3. p[1] \in Conns \ active'
    BY <2>1, <2>2
  <2> QED
    BY <2>1, <2>3 DEF ChunksOf
<1> QED
  BY <1>1, <1>2

(* unregister carries over what its connection has relayed. *)
LEMMA UnregisterChunks ==
  ASSUME ChunkInv, NEW c \in Conns, c \in active, Unregister(c), bytes' = bytes
  PROVE  total' = Cardinality(ChunksOf(Conns \ active)')
<1> DEFINE S == Conns \ active
<1>1. Conns \ active' = S \cup {c} /\ S \in SUBSET Conns /\ {c} \in SUBSET Conns
      /\ S \cap {c} = {}
  BY DEF Unregister
<1>2. ChunksOf(Conns \ active)' = ChunksOf(S \cup {c})
  BY <1>1 DEF ChunksOf
<1>3. bytes[c] \in Nat /\ bytes[c] <= MaxBytes /\ total = Cardinality(ChunksOf(S))
  BY DEF ChunkInv, TypeOK
<1> HIDE DEF S
<1>4. Cardinality(ChunksOf({c})) = bytes[c]
  BY <1>3, ChunksOfOne
<1>5. Cardinality(ChunksOf(S \cup {c})) = Cardinality(ChunksOf(S)) + bytes[c]
  BY <1>1, <1>4, ChunksAdd
<1> QED
  BY <1>2, <1>3, <1>5 DEF Unregister

LEMMA ChunkInvStep == ChunkInv /\ TypeOK' /\ ActiveAccounted' /\ [Next]_vars => ChunkInv'
<1> SUFFICES ASSUME ChunkInv, TypeOK', ActiveAccounted', [Next]_vars PROVE ChunkInv'
  OBVIOUS
<1> DEFINE Bounded == \A c \in Conns :
                        /\ bytes[c] <= MaxBytes
                        /\ legs[c] # {} => pc[c] \in {"relay", "udp"}
                        /\ pc[c] \in {"idle", "hello", "addr"} => bytes[c] = 0
<1>1. /\ Bounded /\ TypeOK /\ ActiveAccounted /\ total = Cardinality(ChunksOf(Conns \ active))
      /\ \A c \in Conns : c \in active <=> pc[c] \in Registered
  BY DEF ChunkInv, ActiveAccounted
<1>2. ASSUME Bounded',
             \A c \in Conns \ active' : c \in Conns \ active /\ bytes'[c] = bytes[c],
             \A c \in (Conns \ active) \ (Conns \ active') : bytes[c] = 0,
             total' = total
      PROVE  ChunkInv'
  <2>1. ChunksOf(Conns \ active)' = ChunksOf(Conns \ active)
    BY <1>2, SameChunks
  <2> QED
    BY <1>1, <1>2, <2>1 DEF ChunkInv
<1>3. ASSUME Bounded', bytes' = bytes, active' = active, total' = total
      PROVE  ChunkInv'
  BY <1>2, <1>3
<1>4. CASE UNCHANGED vars
  BY <1>1, <1>3, <1>4 DEF vars
<1>5. ASSUME NEW c \in Conns, Admit(c) \/ Refuse(c) \/ HelloOk(c) \/ HelloFail(c)
      PROVE  ChunkInv'
  <2>1. Bounded'
    BY <1>1, <1>5 DEF Admit, Refuse, HelloOk, HelloFail, TypeOK
  <2> QED
    BY <1>3, <1>5, <2>1 DEF Admit, Refuse, HelloOk, HelloFail
<1>6. ASSUME NEW c \in Conns, AddrFail(c) \/ AddrMalformed(c) \/ Finally(c)
      PROVE  ChunkInv'
  <2>1. Bounded'
    BY <1>1, <1>6 DEF AddrFail, AddrMalformed, Finally, TypeOK
  <2> QED
    BY <1>3, <1>6, <2>1 DEF AddrFail, AddrMalformed, Finally
<1>7. ASSUME NEW c \in Conns, AddrUdp(c) \/ AddrTcp(c) PROVE ChunkInv'
  <2>1. Bounded' /\ bytes[c] = 0
    BY <1>1, <1>7 DEF AddrUdp, AddrTcp, TypeOK
  <2>2. active' = active \cup {c} /\ bytes' = bytes /\ total' = total
    BY <1>7 DEF AddrUdp, AddrTcp, Register
  <2> QED
    BY <1>2, <2>1, <2>2
<1>8. ASSUME NEW c \in Conns, DialOk(c) \/ DialFail(c) \/ RelayOver(c) PROVE ChunkInv'
  <2>1. Bounded'
    BY <1>1, <1>8 DEF DialOk, DialFail, RelayOver, TypeOK
  <2> QED
    BY <1>3, <1>8, <2>1 DEF DialOk, DialFail, RelayOver
<1>9. ASSUME NEW c \in Conns, Finish(c) \/ UdpOver(c) PROVE ChunkInv'
  <2>1. Bounded'
    BY <1>1, <1>9 DEF Finish, UdpOver, TypeOK
  <2>2. c \in active /\ Unregister(c) /\ bytes' = bytes
    BY <1>1, <1>9 DEF Finish, UdpOver, Registered
  <2>3. total' = Cardinality(ChunksOf(Conns \ active)')
    BY <2>2, UnregisterChunks
  <2> QED
    BY <2>1, <2>3 DEF ChunkInv
<1>10. ASSUME NEW c \in Conns, ClientEof(c) \/ Kill(c) \/ PeerClose(c) PROVE ChunkInv'
  <2>1. Bounded'
    BY <1>1, <1>10 DEF ClientEof, Kill, PeerClose, TypeOK
  <2> QED
    BY <1>3, <1>10, <2>1 DEF ClientEof, Kill, PeerClose
<1>11. ASSUME NEW c \in Conns, NEW d \in Directions, Chunk(c, d) PROVE ChunkInv'
  <2>1. c \in active /\ pc[c] \in {"relay", "udp"}
    BY <1>1, <1>11 DEF Chunk, Registered
  <2>2. Bounded'
    BY <1>1, <1>11, <2>1, ServerAssumption DEF Chunk, TypeOK
  <2>3. /\ active' = active /\ total' = total
        /\ \A b \in Conns \ {c} : bytes'[b] = bytes[b]
    BY <1>1, <1>11 DEF Chunk, TypeOK
  <2> QED
    BY <1>2, <2>1, <2>2, <2>3
<1>12. ASSUME NEW c \in Conns, NEW d \in Directions, Drained(c, d) \/ LegEnds(c, d)
       PROVE  ChunkInv'
  <2>1. Bounded'
    BY <1>1, <1>12 DEF Drained, LegEnds, TypeOK
  <2> QED
    BY <1>3, <1>12, <2>1 DEF Drained, LegEnds
<1>13. ASSUME NEW i \in Ips, Block(i) \/ Unblock(i) PROVE ChunkInv'
  <2>1. Bounded'
    BY <1>1, <1>13 DEF Block, Unblock
  <2> QED
    BY <1>3, <1>13, <2>1 DEF Block, Unblock
<1> QED
  BY <1>4, <1>5, <1>6, <1>7, <1>8, <1>9, <1>10, <1>11, <1>12, <1>13 DEF Next

(* Whatever connections come, go, are killed and relay at the same time, the *)
(* total of the admin page counts every relayed chunk exactly once           *)
(* (stats.py:145-150).                                                       *)
THEOREM BytesAreConserved == Spec => []BytesConserved
<1>1. ChunkInv => BytesConserved
  <2> SUFFICES ASSUME ChunkInv PROVE BytesConserved
    OBVIOUS
  <2> DEFINE S == Conns \ active
  <2>1. active \in SUBSET Conns /\ S \in SUBSET Conns /\ S \cap active = {}
        /\ S \cup active = Conns /\ total = Cardinality(ChunksOf(S))
    BY DEF ChunkInv, TypeOK
  <2> HIDE DEF S
  <2>2. Cardinality(ChunksOf(Conns))
          = Cardinality(ChunksOf(S)) + Cardinality(ChunksOf(active))
    BY <2>1, ChunksAdd
  <2> QED
    BY <2>1, <2>2 DEF BytesConserved
<1> QED
  BY TypeCorrect, ActiveIsAccounted, ChunkInvInit, ChunkInvStep, <1>1, PTL DEF Spec

(***************************************************************************)
(* UdpRelay                                                                *)
(***************************************************************************)

Units == [frame : Nat, k : Nat, n : Nat]
Sizes == Seq(Nat \ {0})

\* Unit k of frame f, when the frames have the sizes s.
Unit(s, f, k) == [frame |-> f, k |-> k, n |-> s[f]]

\* The unit that follows u on the wire.
After(s, u) == IF u.k < u.n THEN Unit(s, u.frame, u.k + 1) ELSE Unit(s, u.frame + 1, 1)

\* The reader that has parsed the frames r and keeps the units b has not lost
\* its place among frames of sizes s.
ReadUpTo(s, r, b) ==
    /\ Len(r) <= Len(s)
    /\ \A i \in DOMAIN r : r[i] = Frame(i, s[i])
    /\ \A i \in DOMAIN b : b[i] = Unit(s, Len(r) + 1, i)
    /\ b # <<>> => Len(r) + 1 <= Len(s) /\ Len(b) < s[Len(r) + 1]

\* The units w on the wire go on where the reader stands, one after the other.
GoesOn(s, r, b, w) ==
    /\ \A i \in DOMAIN w :
        /\ w[i].frame \in DOMAIN s /\ w[i].k \in 1 .. s[w[i].frame]
        /\ w[i] = Unit(s, w[i].frame, w[i].k)
    /\ w # <<>> => w[1] = Unit(s, Len(r) + 1, Len(b) + 1)
    /\ \A i \in 1 .. Len(w) - 1 : w[i + 1] = After(s, w[i])

\* They go on to the end of the last frame.
GoesToEnd(s, r, b, w) ==
    IF w = <<>> THEN b = <<>> /\ Len(r) = Len(s)
    ELSE w[Len(w)] = Unit(s, Len(s), s[Len(s)])

\* The direction that ends at e: what the other end has sent, what e has read
\* of it, what its reader keeps, what is on the wire.
RowOf(e) ==
    /\ ReadUpTo(sent[Other(e)], read[e], buf[e])
    /\ GoesOn(sent[Other(e)], read[e], buf[e], flow[Other(e)])
    /\ ~severed => GoesToEnd(sent[Other(e)], read[e], buf[e], flow[Other(e)])

UdpTypes ==
    /\ sent \in [Sides -> Sizes]
    /\ read \in [Sides -> Seq(Seq(Units))]
    /\ buf \in [Sides -> Seq(Units)] /\ flow \in [Sides -> Seq(Units)]

\* Without the wire the invariant says nothing of the next unit: FramesWhole
\* alone is not inductive.
UdpInv == ~direct => UdpTypes /\ \A e \in Sides : RowOf(e)

-----------------------------------------------------------------------------
LEMMA UnitFields ==
    ASSUME NEW s \in Sizes, NEW f \in DOMAIN s, NEW k \in Nat
    PROVE  /\ Unit(s, f, k) \in Units
           /\ Unit(s, f, k).frame = f /\ Unit(s, f, k).k = k /\ Unit(s, f, k).n = s[f]
           /\ f \in Nat /\ s[f] \in Nat /\ s[f] > 0
BY DEF Unit, Units, Sizes

LEMMA FrameUnits ==
    ASSUME NEW s \in Sizes, NEW f \in DOMAIN s
    PROVE  /\ Frame(f, s[f]) \in Seq(Units)
           /\ Len(Frame(f, s[f])) = s[f]
           /\ \A k \in 1 .. s[f] : Frame(f, s[f])[k] = Unit(s, f, k)
<1>1. f \in Nat /\ s[f] \in Nat
  BY DEF Sizes
<1>2. \A k \in 1 .. s[f] : Frame(f, s[f])[k] = Unit(s, f, k)
  BY DEF Frame, Unit
<1>3. \A k \in 1 .. s[f] : Frame(f, s[f])[k] \in Units
  <2> SUFFICES ASSUME NEW k \in 1 .. s[f] PROVE Unit(s, f, k) \in Units
    BY <1>2
  <2>1. k \in Nat
    BY <1>1
  <2> QED
    BY <2>1, UnitFields
<1>4. Frame(f, s[f]) = [k \in 1 .. s[f] |-> Frame(f, s[f])[k]]
  BY DEF Frame
<1>5. Frame(f, s[f]) \in Seq(Units) /\ Len(Frame(f, s[f])) = s[f]
  <2> DEFINE F == Frame(f, s[f])
  <2>1. F \in [1 .. s[f] -> Units]
    BY <1>3, <1>4
  <2> HIDE DEF F
  <2>2. F \in Seq(Units)
    BY <1>1, <2>1
  <2>3. DOMAIN F = 1 .. s[f]
    BY <2>1
  <2> QED
    BY <1>1, <2>2, <2>3 DEF F
<1> QED
  BY <1>2, <1>5

-----------------------------------------------------------------------------
\* The reader takes the next unit.  What it has then is either part of the
\* frame it stands at, or this frame, whole.
LEMMA TakeUnit ==
    ASSUME NEW s \in Sizes, NEW r \in Seq(Seq(Units)), NEW b \in Seq(Units),
           NEW w \in Seq(Units), w # <<>>, ReadUpTo(s, r, b), GoesOn(s, r, b, w)
    PROVE  LET c == Append(b, Head(w))
               f == Len(r) + 1
           IN  /\ c \in Seq(Units) /\ Len(c) = Len(b) + 1
               /\ Head(w) = Unit(s, f, Len(c))
               /\ f \in DOMAIN s /\ Len(c) \in 1 .. s[f] /\ c[1].n = s[f]
               /\ \A i \in 1 .. Len(c) : c[i] = Unit(s, f, i)
               /\ Len(c) = s[f] => c = Frame(f, s[f])
<1> DEFINE c == Append(b, Head(w))
           f == Len(r) + 1
<1>1. /\ Len(b) \in Nat /\ Len(r) \in Nat /\ Len(w) \in Nat /\ Len(w) >= 1
      /\ DOMAIN w = 1 .. Len(w) /\ DOMAIN b = 1 .. Len(b) /\ Head(w) = w[1] /\ Head(w) \in Units
  BY EmptySeq
<1>2. /\ w[1] = Unit(s, f, Len(b) + 1) /\ 1 \in DOMAIN w
      /\ w[1].frame \in DOMAIN s /\ w[1].k \in 1 .. s[w[1].frame]
  BY <1>1 DEF GoesOn
<1>3. w[1].frame = f /\ w[1].k = Len(b) + 1
  BY <1>2 DEF Unit
<1>4. f \in DOMAIN s /\ Len(b) + 1 \in 1 .. s[f]
  BY <1>2, <1>3
<1>5. /\ c \in Seq(Units) /\ Len(c) = Len(b) + 1
      /\ \A i \in 1 .. Len(b) : c[i] = b[i]
      /\ c[Len(b) + 1] = Head(w)
  BY <1>1, AppendProperties
<1> HIDE DEF c
<1>6. \A i \in 1 .. Len(c) : c[i] = Unit(s, f, i)
  <2> SUFFICES ASSUME NEW i \in 1 .. Len(c) PROVE c[i] = Unit(s, f, i)
    OBVIOUS
  <2>1. CASE i = Len(b) + 1
    BY <1>1, <1>2, <1>5, <2>1
  <2>2. CASE i # Len(b) + 1
    <3>1. i \in 1 .. Len(b)
      BY <1>1, <1>5, <2>2
    <3> QED
      BY <1>1, <1>5, <3>1 DEF ReadUpTo
  <2> QED
    BY <2>1, <2>2
<1>7. c[1].n = s[f]
  <2>1. 1 \in 1 .. Len(c)
    BY <1>1, <1>5
  <2>2. c[1] = Unit(s, f, 1)
    BY <1>6, <2>1
  <2> QED
    BY <2>2, <1>4, UnitFields
<1>8. ASSUME Len(c) = s[f] PROVE c = Frame(f, s[f])
  <2> DEFINE F == Frame(f, s[f])
  <2>1. F \in Seq(Units) /\ Len(F) = s[f] /\ \A k \in 1 .. s[f] : F[k] = Unit(s, f, k)
    BY <1>4, FrameUnits
  <2> HIDE DEF F
  <2>2. \A i \in 1 .. Len(c) : c[i] = F[i]
    BY <1>6, <1>8, <2>1
  <2>3. c = F
    BY <1>5, <1>8, <2>1, <2>2, SeqEqual
  <2> QED
    BY <2>3 DEF F
<1> QED
  BY <1>1, <1>2, <1>4, <1>5, <1>6, <1>7, <1>8 DEF c

\* What is left on the wire when its first unit has been taken.
LEMMA RestOfWire ==
    ASSUME NEW s \in Sizes, NEW r \in Seq(Seq(Units)), NEW b \in Seq(Units),
           NEW w \in Seq(Units), w # <<>>, GoesOn(s, r, b, w),
           NEW r2 \in Seq(Seq(Units)), NEW b2 \in Seq(Units),
           After(s, Head(w)) = Unit(s, Len(r2) + 1, Len(b2) + 1)
    PROVE  /\ Tail(w) \in Seq(Units)
           /\ GoesOn(s, r2, b2, Tail(w))
           /\ GoesToEnd(s, r, b, w) =>
                \/ Tail(w) # <<>> /\ GoesToEnd(s, r2, b2, Tail(w))
                \/ Tail(w) = <<>> /\ Head(w) = Unit(s, Len(s), s[Len(s)])
<1> DEFINE t == Tail(w)
<1>1. /\ Len(w) \in Nat /\ Len(w) >= 1 /\ DOMAIN w = 1 .. Len(w) /\ Head(w) = w[1]
  BY EmptySeq
<1>2. /\ t \in Seq(Units) /\ Len(t) = Len(w) - 1
      /\ \A i \in 1 .. Len(t) : t[i] = w[i + 1]
  BY HeadTailProperties
<1> HIDE DEF t
<1>3. DOMAIN t = 1 .. Len(w) - 1 /\ (t = <<>> <=> Len(w) = 1)
  <2>1. DOMAIN t = 1 .. Len(t)
    BY <1>2
  <2>2. t = <<>> <=> Len(t) = 0
    BY <1>2, EmptySeq
  <2> QED
    BY <1>1, <1>2, <2>1, <2>2
<1>4. \A i \in 1 .. Len(w) - 1 : t[i] = w[i + 1] /\ i + 1 \in 1 .. Len(w)
  BY <1>1, <1>2
<1>5. \A i \in DOMAIN t :
        /\ t[i].frame \in DOMAIN s /\ t[i].k \in 1 .. s[t[i].frame]
        /\ t[i] = Unit(s, t[i].frame, t[i].k)
  <2> SUFFICES ASSUME NEW i \in DOMAIN t
               PROVE  /\ t[i].frame \in DOMAIN s /\ t[i].k \in 1 .. s[t[i].frame]
                      /\ t[i] = Unit(s, t[i].frame, t[i].k)
    OBVIOUS
  <2>1. t[i] = w[i + 1] /\ i + 1 \in DOMAIN w
    BY <1>1, <1>3, <1>4
  <2> QED
    BY <2>1 DEF GoesOn
<1>6. ASSUME t # <<>> PROVE t[1] = Unit(s, Len(r2) + 1, Len(b2) + 1)
  <2>1. 1 \in 1 .. Len(w) - 1 /\ t[1] = w[1 + 1]
    BY <1>1, <1>3, <1>4, <1>6
  <2>2. w[1 + 1] = After(s, w[1])
    BY <2>1 DEF GoesOn
  <2> QED
    BY <1>1, <2>1, <2>2
<1>7. ASSUME NEW i \in 1 .. Len(t) - 1 PROVE t[i + 1] = After(s, t[i])
  <2>1. /\ t[i] = w[i + 1] /\ t[i + 1] = w[(i + 1) + 1] /\ i + 1 \in 1 .. Len(w) - 1
    BY <1>1, <1>2, <1>4
  <2>2. w[(i + 1) + 1] = After(s, w[i + 1])
    BY <2>1 DEF GoesOn
  <2> QED
    BY <2>1, <2>2
<1>8. GoesOn(s, r2, b2, t)
  BY <1>5, <1>6, <1>7 DEF GoesOn
<1>9. ASSUME GoesToEnd(s, r, b, w)
      PROVE  \/ t # <<>> /\ GoesToEnd(s, r2, b2, t)
             \/ t = <<>> /\ Head(w) = Unit(s, Len(s), s[Len(s)])
  <2>1. w[Len(w)] = Unit(s, Len(s), s[Len(s)])
    BY <1>9 DEF GoesToEnd
  <2>2. CASE t = <<>>
    BY <1>1, <1>3, <2>1, <2>2
  <2>3. CASE t # <<>>
    <3>1. Len(t) \in 1 .. Len(w) - 1 /\ Len(t) + 1 = Len(w)
      BY <1>1, <1>2, <1>3, <2>3
    <3>2. t[Len(t)] = w[Len(w)]
      BY <1>4, <3>1
    <3> QED
      BY <2>1, <2>3, <3>2 DEF GoesToEnd
  <2> QED
    BY <2>2, <2>3
<1> QED
  BY <1>2, <1>8, <1>9 DEF t

\* A unit that leaves the frame open.
LEMMA FeedPart ==
    ASSUME NEW s \in Sizes, NEW r \in Seq(Seq(Units)), NEW b \in Seq(Units),
           NEW w \in Seq(Units), w # <<>>, ReadUpTo(s, r, b), GoesOn(s, r, b, w),
           NEW c, c = Append(b, Head(w)), Len(c) < c[1].n
    PROVE  /\ c \in Seq(Units) /\ Tail(w) \in Seq(Units)
           /\ ReadUpTo(s, r, c)
           /\ GoesOn(s, r, c, Tail(w))
           /\ GoesToEnd(s, r, b, w) => GoesToEnd(s, r, c, Tail(w))
<1> DEFINE f == Len(r) + 1
<1>1. /\ c \in Seq(Units) /\ Head(w) = Unit(s, f, Len(c))
      /\ f \in DOMAIN s /\ Len(c) \in 1 .. s[f] /\ Len(c) < s[f]
      /\ \A i \in 1 .. Len(c) : c[i] = Unit(s, f, i)
  BY TakeUnit
<1>2. /\ Len(c) \in Nat /\ DOMAIN c = 1 .. Len(c) /\ f \in Nat
      /\ s[f] \in Nat /\ DOMAIN s = 1 .. Len(s) /\ Len(s) \in Nat
  BY <1>1 DEF Sizes
<1>3. ReadUpTo(s, r, c)
  BY <1>1, <1>2 DEF ReadUpTo
<1>4. Head(w).frame = f /\ Head(w).k = Len(c) /\ Head(w).n = s[f]
  BY <1>1, <1>2, UnitFields
<1>5. After(s, Head(w)) = Unit(s, f, Len(c) + 1)
  BY <1>1, <1>4 DEF After
<1>6. /\ Tail(w) \in Seq(Units) /\ GoesOn(s, r, c, Tail(w))
      /\ GoesToEnd(s, r, b, w) =>
            \/ Tail(w) # <<>> /\ GoesToEnd(s, r, c, Tail(w))
            \/ Tail(w) = <<>> /\ Head(w) = Unit(s, Len(s), s[Len(s)])
  BY <1>1, <1>5, RestOfWire, ZenonT(60)
<1>7. Head(w) # Unit(s, Len(s), s[Len(s)])
  <2> SUFFICES ASSUME Head(w) = Unit(s, Len(s), s[Len(s)]) PROVE FALSE
    OBVIOUS
  <2>1. Len(s) = f /\ s[Len(s)] = Len(c)
    BY <1>4 DEF Unit
  <2> QED
    BY <1>1, <1>2, <2>1
<1> QED
  BY <1>1, <1>3, <1>6, <1>7

\* With the next unit of w the frame is complete: the frames r2 are parsed and
\* the units b2 kept.
Completes(r, b, w, c, r2, b2) ==
    /\ c = Append(b, Head(w)) /\ ~(Len(c) < c[1].n)
    /\ r2 = Append(r, SubSeq(c, 1, c[1].n)) /\ b2 = Rest(c)

\* A unit that completes the frame: nothing is left over.
LEMMA FeedWhole ==
    ASSUME NEW s \in Sizes, NEW r \in Seq(Seq(Units)), NEW b \in Seq(Units),
           NEW w \in Seq(Units), w # <<>>, ReadUpTo(s, r, b), GoesOn(s, r, b, w),
           NEW c, NEW r2, NEW b2, Completes(r, b, w, c, r2, b2)
    PROVE  /\ r2 \in Seq(Seq(Units)) /\ b2 \in Seq(Units) /\ Tail(w) \in Seq(Units)
           /\ ReadUpTo(s, r2, b2)
           /\ GoesOn(s, r2, b2, Tail(w))
           /\ GoesToEnd(s, r, b, w) => GoesToEnd(s, r2, b2, Tail(w))
<1> DEFINE f == Len(r) + 1
<1>1. /\ c \in Seq(Units) /\ Head(w) = Unit(s, f, Len(c))
      /\ f \in DOMAIN s /\ Len(c) \in 1 .. s[f] /\ c[1].n = s[f]
      /\ Len(c) = s[f] => c = Frame(f, s[f])
  <2>1. c = Append(b, Head(w))
    BY DEF Completes
  <2> QED
    BY <2>1, TakeUnit
<1>2. /\ Len(r) \in Nat /\ f \in Nat /\ s[f] \in Nat
      /\ DOMAIN s = 1 .. Len(s) /\ Len(s) \in Nat /\ DOMAIN r = 1 .. Len(r)
  BY <1>1 DEF Sizes
<1>3. Len(c) = s[f]
  BY <1>1, <1>2 DEF Completes
<1>4. SubSeq(c, 1, c[1].n) = Frame(f, s[f])
  <2>1. SubSeq(c, 1, Len(c)) = c
    BY <1>1
  <2> QED
    BY <1>1, <1>3, <2>1
<1>5. b2 = <<>>
  <2>1. s[f] + 1 \in Int /\ s[f] \in Int /\ s[f] < s[f] + 1
    BY <1>2
  <2>2. b2 = SubSeq(c, s[f] + 1, s[f])
    BY <1>1, <1>3 DEF Completes, Rest
  <2> QED
    BY <2>1, <2>2, SubSeqEmpty
<1>6. Frame(f, s[f]) \in Seq(Units)
  BY <1>1, FrameUnits
<1>7. /\ r2 \in Seq(Seq(Units)) /\ Len(r2) = f
      /\ \A i \in 1 .. Len(r) : r2[i] = r[i]
      /\ r2[f] = Frame(f, s[f])
  <2> DEFINE F == Frame(f, s[f])
  <2>1. r2 = Append(r, F) /\ F \in Seq(Units)
    BY <1>4, <1>6 DEF Completes
  <2> HIDE DEF F
  <2>2. /\ Append(r, F) \in Seq(Seq(Units)) /\ Len(Append(r, F)) = Len(r) + 1
        /\ \A i \in 1 .. Len(r) : Append(r, F)[i] = r[i]
        /\ Append(r, F)[Len(r) + 1] = F
    BY <2>1, AppendProperties
  <2> QED
    BY <2>1, <2>2 DEF F
<1>8. ReadUpTo(s, r2, b2)
  <2>1. \A i \in DOMAIN r2 : r2[i] = Frame(i, s[i])
    <3> SUFFICES ASSUME NEW i \in DOMAIN r2 PROVE r2[i] = Frame(i, s[i])
      OBVIOUS
    <3>1. DOMAIN r2 = 1 .. Len(r) + 1
      BY <1>7
    <3>2. CASE i = f
      BY <1>7, <3>2
    <3>3. CASE i # f
      <4>1. i \in 1 .. Len(r)
        BY <1>2, <3>1, <3>3
      <4> QED
        BY <1>2, <1>7, <4>1 DEF ReadUpTo
    <3> QED
      BY <3>2, <3>3
  <2> QED
    BY <1>1, <1>2, <1>5, <1>7, <2>1 DEF ReadUpTo
<1>9. Head(w).frame = f /\ Head(w).k = s[f] /\ Head(w).n = s[f]
  <2>1. Head(w) = Unit(s, f, s[f])
    BY <1>1, <1>3
  <2>2. f \in DOMAIN s /\ s[f] \in Nat
    BY <1>1, <1>2
  <2> HIDE DEF f
  <2> QED
    BY <2>1, <2>2, UnitFields
<1>10. b2 \in Seq(Units) /\ Len(b2) = 0
  BY <1>5, EmptySeq
<1>11. After(s, Head(w)) = Unit(s, Len(r2) + 1, Len(b2) + 1)
  BY <1>2, <1>7, <1>9, <1>10 DEF After
<1>12. /\ Tail(w) \in Seq(Units) /\ GoesOn(s, r2, b2, Tail(w))
       /\ GoesToEnd(s, r, b, w) =>
             \/ Tail(w) # <<>> /\ GoesToEnd(s, r2, b2, Tail(w))
             \/ Tail(w) = <<>> /\ Head(w) = Unit(s, Len(s), s[Len(s)])
  <2> HIDE DEF f
  <2>1. r2 \in Seq(Seq(Units)) /\ b2 \in Seq(Units)
    BY <1>7, <1>10
  <2> QED
    BY <1>11, <2>1, RestOfWire, ZenonT(60)
<1>13. ASSUME Tail(w) = <<>>, Head(w) = Unit(s, Len(s), s[Len(s)])
       PROVE  GoesToEnd(s, r2, b2, Tail(w))
  <2>1. Len(s) = f
    BY <1>9, <1>13 DEF Unit
  <2> QED
    BY <1>5, <1>7, <1>13, <2>1 DEF GoesToEnd
<1> QED
  BY <1>7, <1>8, <1>10, <1>12, <1>13

-----------------------------------------------------------------------------
\* s2 is s with one more frame.
OneMore(s, s2) ==
    /\ Len(s2) = Len(s) + 1
    /\ \A i \in DOMAIN s : s2[i] = s[i]

\* w2 is w and then the units of the last frame of s2.
ThenFrame(s2, w, w2) ==
    /\ Len(w2) = Len(w) + s2[Len(s2)]
    /\ \A i \in 1 .. Len(w) : w2[i] = w[i]
    /\ \A k \in 1 .. s2[Len(s2)] : w2[Len(w) + k] = Unit(s2, Len(s2), k)

LEMMA SameUnit ==
    ASSUME NEW s \in Sizes, NEW s2 \in Sizes, OneMore(s, s2),
           NEW f \in DOMAIN s, NEW k
    PROVE  Unit(s2, f, k) = Unit(s, f, k) /\ f \in DOMAIN s2
<1>1. s2[f] = s[f]
  BY DEF OneMore
<1>2. f \in DOMAIN s2
  BY DEF OneMore, Sizes
<1> QED
  BY <1>1, <1>2 DEF Unit

LEMMA SendAppends ==
    ASSUME NEW s \in Sizes, NEW w \in Seq(Units), NEW n \in 1 .. 2,
           NEW s2, s2 = Append(s, n),
           NEW w2, w2 = w \o Frame(Len(s) + 1, n)
    PROVE  /\ s2 \in Sizes /\ w2 \in Seq(Units)
           /\ OneMore(s, s2) /\ ThenFrame(s2, w, w2)
<1>1. s \in Seq(Nat \ {0}) /\ n \in Nat \ {0}
  BY DEF Sizes
<1>2. /\ Append(s, n) \in Sizes /\ Len(Append(s, n)) = Len(s) + 1
      /\ \A i \in 1 .. Len(s) : Append(s, n)[i] = s[i]
      /\ Append(s, n)[Len(s) + 1] = n
  BY <1>1, AppendProperties DEF Sizes
<1>3. /\ s2 \in Sizes /\ Len(s2) = Len(s) + 1
      /\ \A i \in 1 .. Len(s) : s2[i] = s[i]
      /\ s2[Len(s2)] = n /\ Len(s2) \in DOMAIN s2
      /\ Len(s) \in Nat /\ DOMAIN s = 1 .. Len(s)
  BY <1>1, <1>2 DEF Sizes
<1> DEFINE F == Frame(Len(s2), n)
<1>4. F \in Seq(Units) /\ Len(F) = n /\ \A k \in 1 .. n : F[k] = Unit(s2, Len(s2), k)
  <2> DEFINE g == Len(s2)
  <2>1. s2 \in Sizes /\ g \in DOMAIN s2 /\ s2[g] = n
    BY <1>3
  <2> HIDE DEF g
  <2>2. /\ Frame(g, s2[g]) \in Seq(Units) /\ Len(Frame(g, s2[g])) = s2[g]
        /\ \A k \in 1 .. s2[g] : Frame(g, s2[g])[k] = Unit(s2, g, k)
    BY <2>1, FrameUnits
  <2> QED
    BY <2>1, <2>2 DEF g
<1>5. w2 = w \o F
  BY <1>3
<1> HIDE DEF F
<1>6. /\ w \o F \in Seq(Units) /\ Len(w \o F) = Len(w) + n
      /\ \A i \in 1 .. Len(w) : (w \o F)[i] = w[i]
      /\ \A k \in 1 .. n : (w \o F)[Len(w) + k] = F[k]
  <2>1. /\ w \o F \in Seq(Units) /\ Len(w \o F) = Len(w) + Len(F)
        /\ \A i \in 1 .. Len(w) + Len(F) :
              (w \o F)[i] = IF i <= Len(w) THEN w[i] ELSE F[i - Len(w)]
    BY <1>4, ConcatProperties
  <2>2. Len(w) \in Nat /\ n \in Nat
    BY <1>1
  <2> QED
    BY <1>4, <2>1, <2>2
<1> QED
  <2>1. OneMore(s, s2)
    BY <1>3 DEF OneMore
  <2> DEFINE v == w \o F
             g == Len(s2)
  <2>2. v \in Seq(Units) /\ w2 = v /\ Len(v) = Len(w) + n /\ s2[g] = n
    BY <1>3, <1>5, <1>6
  <2>3. /\ \A i \in 1 .. Len(w) : v[i] = w[i]
        /\ \A k \in 1 .. n : v[Len(w) + k] = Unit(s2, g, k)
    BY <1>4, <1>6
  <2> HIDE DEF v
  <2>4. ThenFrame(s2, w, w2)
    BY <2>2, <2>3 DEF ThenFrame
  <2> QED
    BY <1>3, <2>1, <2>2, <2>4

\* A frame is sent while the tunnel works: reader and wire stay in step.
LEMMA SendRow ==
    ASSUME NEW s \in Sizes, NEW r \in Seq(Seq(Units)), NEW b \in Seq(Units),
           NEW w \in Seq(Units), NEW s2 \in Sizes, NEW w2 \in Seq(Units),
           OneMore(s, s2), ThenFrame(s2, w, w2),
           ReadUpTo(s, r, b), GoesOn(s, r, b, w), GoesToEnd(s, r, b, w)
    PROVE  ReadUpTo(s2, r, b) /\ GoesOn(s2, r, b, w2) /\ GoesToEnd(s2, r, b, w2)
<1> DEFINE l == Len(s)
           n == s2[Len(s2)]
           m == Len(w)
<1>1. /\ l \in Nat /\ m \in Nat /\ Len(r) \in Nat /\ Len(b) \in Nat
      /\ DOMAIN s = 1 .. l /\ DOMAIN s2 = 1 .. l + 1 /\ Len(s2) = l + 1
      /\ DOMAIN w = 1 .. m /\ DOMAIN w2 = 1 .. Len(w2) /\ Len(w2) = m + n
      /\ DOMAIN r = 1 .. Len(r) /\ DOMAIN b = 1 .. Len(b)
      /\ n \in Nat /\ n > 0 /\ l + 1 \in DOMAIN s2
  BY DEF Sizes, OneMore, ThenFrame
<1>2. \A i \in 1 .. m : w2[i] = w[i]
  BY DEF ThenFrame
<1>3. \A k \in 1 .. n : w2[m + k] = Unit(s2, l + 1, k)
  BY <1>1 DEF ThenFrame
<1>4. \A k \in 1 .. n : /\ Unit(s2, l + 1, k).frame = l + 1 /\ Unit(s2, l + 1, k).k = k
                        /\ Unit(s2, l + 1, k).n = n
  <2> SUFFICES ASSUME NEW k \in 1 .. n
               PROVE  /\ Unit(s2, l + 1, k).frame = l + 1 /\ Unit(s2, l + 1, k).k = k
                      /\ Unit(s2, l + 1, k).n = n
    OBVIOUS
  <2>1. s2[l + 1] = n
    BY <1>1
  <2> HIDE DEF l, n
  <2> QED
    BY <2>1 DEF Unit
<1>5. w2 # <<>>
  BY <1>1, EmptySeq
<1> HIDE DEF l, n, m
<1>6. ReadUpTo(s2, r, b)
  <2>1. \A i \in DOMAIN r : r[i] = Frame(i, s2[i])
    <3> SUFFICES ASSUME NEW i \in DOMAIN r PROVE r[i] = Frame(i, s2[i])
      OBVIOUS
    <3>1. i \in DOMAIN s /\ r[i] = Frame(i, s[i])
      BY <1>1 DEF ReadUpTo, l
    <3> QED
      BY <3>1 DEF OneMore
  <2>2. ASSUME b # <<>> PROVE Len(r) + 1 \in DOMAIN s
    BY <1>1, <2>2 DEF ReadUpTo, l
  <2>3. ASSUME NEW i \in DOMAIN b PROVE b[i] = Unit(s2, Len(r) + 1, i)
    <3>1. b # <<>>
      BY <1>1, <2>3, EmptySeq
    <3>2. Len(r) + 1 \in DOMAIN s
      BY <2>2, <3>1
    <3>3. Unit(s2, Len(r) + 1, i) = Unit(s, Len(r) + 1, i)
      BY <3>2, SameUnit
    <3>4. b[i] = Unit(s, Len(r) + 1, i)
      BY <2>3 DEF ReadUpTo
    <3> QED
      BY <3>3, <3>4
  <2>4. ASSUME b # <<>> PROVE Len(r) + 1 <= Len(s2) /\ Len(b) < s2[Len(r) + 1]
    <3>1. Len(r) + 1 \in DOMAIN s /\ Len(b) < s[Len(r) + 1]
      BY <2>2, <2>4 DEF ReadUpTo
    <3>2. s2[Len(r) + 1] = s[Len(r) + 1]
      BY <3>1 DEF OneMore
    <3> QED
      BY <1>1, <3>1, <3>2
  <2>5. Len(r) <= Len(s2)
    BY <1>1 DEF ReadUpTo, l
  <2> QED
    BY <2>1, <2>3, <2>4, <2>5 DEF ReadUpTo
<1>7. \A i \in DOMAIN w : w[i].frame \in DOMAIN s /\ w[i].frame \in DOMAIN s2
  <2> SUFFICES ASSUME NEW i \in DOMAIN w
               PROVE  w[i].frame \in DOMAIN s /\ w[i].frame \in DOMAIN s2
    OBVIOUS
  <2>1. w[i].frame \in DOMAIN s
    BY DEF GoesOn
  <2> QED
    BY <2>1, SameUnit
<1>8. \A i \in DOMAIN w2 :
        /\ w2[i].frame \in DOMAIN s2 /\ w2[i].k \in 1 .. s2[w2[i].frame]
        /\ w2[i] = Unit(s2, w2[i].frame, w2[i].k)
  <2> SUFFICES ASSUME NEW i \in DOMAIN w2
               PROVE  /\ w2[i].frame \in DOMAIN s2 /\ w2[i].k \in 1 .. s2[w2[i].frame]
                      /\ w2[i] = Unit(s2, w2[i].frame, w2[i].k)
    OBVIOUS
  <2>1. CASE i \in 1 .. m
    <3>1. w2[i] = w[i] /\ i \in DOMAIN w
      BY <1>1, <1>2, <2>1
    <3>2. w[i].k \in 1 .. s[w[i].frame] /\ w[i] = Unit(s, w[i].frame, w[i].k)
      BY <3>1 DEF GoesOn
    <3>3. s2[w[i].frame] = s[w[i].frame]
      BY <1>7, <3>1 DEF OneMore
    <3>4. Unit(s2, w[i].frame, w[i].k) = Unit(s, w[i].frame, w[i].k)
      BY <1>7, <3>1, SameUnit
    <3> QED
      BY <1>7, <3>1, <3>2, <3>3, <3>4
  <2>2. CASE i \notin 1 .. m
    <3> DEFINE k == i - m
    <3>1. k \in 1 .. n /\ m + k = i
      BY <1>1, <2>2
    <3>2. w2[i] = Unit(s2, l + 1, k)
      BY <1>3, <3>1
    <3>3. n = s2[l + 1]
      BY <1>1 DEF n
    <3> HIDE DEF k
    <3> QED
      BY <1>1, <1>4, <3>1, <3>2, <3>3
  <2> QED
    BY <2>1, <2>2
<1>9. w2[1] = Unit(s2, Len(r) + 1, Len(b) + 1)
  <2>1. CASE w = <<>>
    <3>1. b = <<>> /\ Len(r) = l /\ m = 0 /\ Len(b) = 0
      BY <2>1, EmptySeq DEF GoesToEnd, l, m
    <3>2. 1 \in 1 .. n /\ m + 1 = 1
      BY <1>1, <3>1
    <3>3. w2[1] = Unit(s2, l + 1, 1)
      BY <1>3, <3>2
    <3> QED
      BY <1>1, <3>1, <3>3
  <2>2. CASE w # <<>>
    <3>1. 1 \in 1 .. m
      BY <1>1, <2>2, EmptySeq DEF m
    <3>2. w2[1] = w[1] /\ w[1] = Unit(s, Len(r) + 1, Len(b) + 1)
      BY <1>2, <2>2, <3>1 DEF GoesOn
    <3>3. w[1].frame \in DOMAIN s
      BY <1>1, <1>7, <3>1
    <3>4. Len(r) + 1 \in DOMAIN s
      BY <3>2, <3>3 DEF Unit
    <3> QED
      BY <3>2, <3>4, SameUnit
  <2> QED
    BY <2>1, <2>2
<1>10. ASSUME NEW i \in 1 .. Len(w2) - 1 PROVE w2[i + 1] = After(s2, w2[i])
  <2>1. CASE i + 1 \in 1 .. m
    <3>1. i \in 1 .. m - 1 /\ i \in 1 .. m
      BY <1>1, <1>10, <2>1
    <3>2. w2[i] = w[i] /\ w2[i + 1] = w[i + 1]
      BY <1>2, <2>1, <3>1
    <3>3. w[i + 1] = After(s, w[i])
      BY <3>1 DEF GoesOn, m
    <3>4. w[i + 1].frame \in DOMAIN s
      BY <1>1, <1>7, <2>1
    <3>5. CASE w[i].k < w[i].n
      <4>1. w[i + 1] = Unit(s, w[i].frame, w[i].k + 1)
        BY <3>3, <3>5 DEF After
      <4>2. w[i].frame \in DOMAIN s
        BY <3>4, <4>1 DEF Unit
      <4>3. w[i + 1] = Unit(s2, w[i].frame, w[i].k + 1)
        BY <4>1, <4>2, SameUnit
      <4> QED
        BY <3>2, <3>5, <4>3 DEF After
    <3>6. CASE ~(w[i].k < w[i].n)
      <4>1. w[i + 1] = Unit(s, w[i].frame + 1, 1)
        BY <3>3, <3>6 DEF After
      <4>2. w[i].frame + 1 \in DOMAIN s
        BY <3>4, <4>1 DEF Unit
      <4>3. w[i + 1] = Unit(s2, w[i].frame + 1, 1)
        BY <4>1, <4>2, SameUnit
      <4> QED
        BY <3>2, <3>6, <4>3 DEF After
    <3> QED
      BY <3>5, <3>6
  <2>2. CASE i = m
    <3>1. m \in 1 .. m /\ 1 \in 1 .. n /\ w # <<>>
      BY <1>1, <1>10, <2>2, EmptySeq DEF m
    <3>2. w2[m] = Unit(s, l, s[l])
      BY <1>2, <3>1 DEF GoesToEnd, l, m
    <3>3. w2[m].frame = l /\ w2[m].k = s[l] /\ w2[m].n = s[l]
      BY <3>2 DEF Unit
    <3>4. l \in DOMAIN s
      BY <1>1, <1>2, <1>7, <3>1, <3>3
    <3>5. ~(s[l] < s[l])
      BY <3>4 DEF Sizes
    <3>6. After(s2, w2[m]) = Unit(s2, l + 1, 1)
      BY <3>3, <3>5 DEF After
    <3>7. w2[m + 1] = Unit(s2, l + 1, 1)
      BY <1>3, <3>1
    <3> QED
      BY <2>2, <3>6, <3>7
  <2>3. CASE i + 1 \notin 1 .. m /\ i # m
    <3> DEFINE k == i - m
    <3>1. k \in 1 .. n /\ k + 1 \in 1 .. n /\ m + k = i /\ m + (k + 1) = i + 1 /\ k < n
      BY <1>1, <1>10, <2>3
    <3>2. w2[m + k] = Unit(s2, l + 1, k) /\ w2[m + (k + 1)] = Unit(s2, l + 1, k + 1)
      BY <1>3, <3>1
    <3>3. w2[i] = Unit(s2, l + 1, k) /\ w2[i + 1] = Unit(s2, l + 1, k + 1)
      BY <3>1, <3>2
    <3> HIDE DEF k
    <3>4. w2[i].frame = l + 1 /\ w2[i].k = k /\ w2[i].n = n
      BY <1>4, <3>1, <3>3
    <3> QED
      BY <3>1, <3>3, <3>4 DEF After
  <2> QED
    BY <1>1, <1>10, <2>1, <2>2, <2>3
<1>11. GoesToEnd(s2, r, b, w2)
  <2>1. n \in 1 .. n
    BY <1>1
  <2>2. w2[m + n] = Unit(s2, l + 1, n)
    BY <1>3, <2>1
  <2>3. Len(w2) = m + n /\ Len(s2) = l + 1 /\ s2[Len(s2)] = n
    BY <1>1 DEF n
  <2> QED
    BY <1>5, <2>2, <2>3 DEF GoesToEnd
<1>12. GoesOn(s2, r, b, w2)
  BY <1>8, <1>9, <1>10 DEF GoesOn
<1> QED
  BY <1>6, <1>11, <1>12

-----------------------------------------------------------------------------
\* What a direction is made of.
LEMMA RowTypes ==
    ASSUME UdpTypes, NEW e \in Sides
    PROVE  /\ Other(e) \in Sides
           /\ sent[Other(e)] \in Sizes /\ flow[Other(e)] \in Seq(Units)
           /\ read[e] \in Seq(Seq(Units)) /\ buf[e] \in Seq(Units)
BY DEF UdpTypes, Other, Sides

LEMMA OtherEnd ==
    \A e \in Sides : /\ Other(e) \in Sides /\ Other(Other(e)) = e
                     /\ \A d \in Sides \ {e} : d = Other(e)
BY DEF Other, Sides

\* The reader of e takes a unit.
LEMMA FeedStep ==
    ASSUME UdpTypes, \A d \in Sides : RowOf(d), NEW e \in Sides,
           flow[Other(e)] # <<>>, Feed(e, Head(flow[Other(e)])),
           flow' = [flow EXCEPT ![Other(e)] = Tail(@)],
           sent' = sent, severed' = severed
    PROVE  UdpTypes' /\ \A d \in Sides : RowOf(d)'
<1> DEFINE s == sent[Other(e)]
           w == flow[Other(e)]
           c == Append(buf[e], Head(w))
           Took == /\ flow'[Other(e)] = Tail(w)
                   /\ \A d \in Sides \ {e} : flow'[Other(d)] = flow[Other(d)]
                                            /\ buf'[d] = buf[d] /\ read'[d] = read[d]
                   /\ buf' \in [Sides -> Seq(Units)] /\ read' \in [Sides -> Seq(Seq(Units))]
           Keeps == /\ Tail(w) \in Seq(Units) /\ ReadUpTo(s, read'[e], buf'[e])
                    /\ GoesOn(s, read'[e], buf'[e], Tail(w))
                    /\ GoesToEnd(s, read[e], buf[e], w)
                       => GoesToEnd(s, read'[e], buf'[e], Tail(w))
<1>1. /\ s \in Sizes /\ w \in Seq(Units) /\ read[e] \in Seq(Seq(Units)) /\ buf[e] \in Seq(Units)
      /\ Other(e) \in Sides
  BY RowTypes
<1>2. /\ ReadUpTo(s, read[e], buf[e]) /\ GoesOn(s, read[e], buf[e], w)
      /\ ~severed => GoesToEnd(s, read[e], buf[e], w)
  BY DEF RowOf
<1>3. /\ flow \in [Sides -> Seq(Units)] /\ buf \in [Sides -> Seq(Units)]
      /\ read \in [Sides -> Seq(Seq(Units))] /\ sent \in [Sides -> Sizes]
  BY DEF UdpTypes
<1>4. \A d \in Sides \ {e} : Other(d) \in Sides /\ Other(d) # Other(e)
  BY OtherEnd
<1>5. /\ flow'[Other(e)] = Tail(w)
      /\ \A d \in Sides \ {e} : flow'[Other(d)] = flow[Other(d)]
  BY <1>1, <1>3, <1>4
<1>6. Took /\ Keeps
  <2>1. CASE Len(c) < c[1].n
    <3>1. buf' = [buf EXCEPT ![e] = c] /\ read' = read
      BY <2>1 DEF Feed
    <3>2. /\ c \in Seq(Units) /\ Tail(w) \in Seq(Units) /\ ReadUpTo(s, read[e], c)
          /\ GoesOn(s, read[e], c, Tail(w))
          /\ GoesToEnd(s, read[e], buf[e], w) => GoesToEnd(s, read[e], c, Tail(w))
      <4> HIDE DEF s
      <4>1. w # <<>>
        OBVIOUS
      <4> HIDE DEF w
      <4> QED
        BY <1>1, <1>2, <2>1, <4>1, FeedPart
    <3> HIDE DEF c, w, s
    <3>3. buf'[e] = c /\ read'[e] = read[e] /\ \A d \in Sides \ {e} : buf'[d] = buf[d]
      BY <1>3, <3>1
    <3>4. buf' \in [Sides -> Seq(Units)] /\ read' \in [Sides -> Seq(Seq(Units))]
      BY <1>3, <3>1, <3>2
    <3> QED
      BY <1>5, <3>1, <3>2, <3>3, <3>4
  <2>2. CASE ~(Len(c) < c[1].n)
    <3> DEFINE r2 == Append(read[e], SubSeq(c, 1, c[1].n))
               b2 == Rest(c)
    <3>1. buf' = [buf EXCEPT ![e] = b2] /\ read' = [read EXCEPT ![e] = r2]
      BY <2>2 DEF Feed
    <3>2. /\ r2 \in Seq(Seq(Units)) /\ b2 \in Seq(Units) /\ Tail(w) \in Seq(Units)
          /\ ReadUpTo(s, r2, b2) /\ GoesOn(s, r2, b2, Tail(w))
          /\ GoesToEnd(s, read[e], buf[e], w) => GoesToEnd(s, r2, b2, Tail(w))
      <4>1. w # <<>> /\ Completes(read[e], buf[e], w, c, r2, b2)
        BY <2>2 DEF Completes
      <4> HIDE DEF w, s, c, r2, b2
      <4> QED
        BY <1>1, <1>2, <4>1, FeedWhole
    <3> HIDE DEF r2, b2, c, w, s
    <3>3. /\ buf'[e] = b2 /\ read'[e] = r2
          /\ \A d \in Sides \ {e} : buf'[d] = buf[d] /\ read'[d] = read[d]
      BY <1>3, <3>1
    <3>4. buf' \in [Sides -> Seq(Units)] /\ read' \in [Sides -> Seq(Seq(Units))]
      BY <1>3, <3>1, <3>2
    <3> QED
      BY <1>5, <3>2, <3>3, <3>4
  <2> QED
    BY <2>1, <2>2
<1>7. UdpTypes'
  <2>1. flow' \in [Sides -> Seq(Units)]
    BY <1>1, <1>3, <1>6
  <2> QED
    BY <1>3, <1>6, <2>1 DEF UdpTypes
<1>8. RowOf(e)'
  <2>1. sent'[Other(e)] = s /\ flow'[Other(e)] = Tail(w)
    BY <1>6
  <2> HIDE DEF w, s
  <2> QED
    BY <1>2, <1>6, <2>1 DEF RowOf
<1>9. ASSUME NEW d \in Sides \ {e} PROVE RowOf(d)'
  BY <1>6 DEF RowOf
<1> QED
  BY <1>7, <1>8, <1>9

\* A frame goes out from e.
LEMMA SendStep ==
    ASSUME UdpTypes, \A d \in Sides : RowOf(d), NEW e \in Sides, SendFrame(e),
           buf' = buf, read' = read, severed' = severed
    PROVE  UdpTypes' /\ \A d \in Sides : RowOf(d)'
<1>1. CASE severed
  BY <1>1 DEF SendFrame, UdpTypes, RowOf
<1>2. CASE ~severed
  <2> PICK n \in 1 .. 2 :
        /\ sent' = [sent EXCEPT ![e] = Append(@, n)]
        /\ flow' = [flow EXCEPT ![e] = @ \o Frame(Len(sent[e]) + 1, n)]
    BY <1>2 DEF SendFrame
  <2> DEFINE d == Other(e)
             s2 == Append(sent[e], n)
             w2 == flow[e] \o Frame(Len(sent[e]) + 1, n)
  <2>1. d \in Sides /\ Other(d) = e /\ \A f \in Sides \ {d} : f = e /\ Other(f) = d /\ d # e
    BY DEF Sides, Other
  <2>2. /\ flow \in [Sides -> Seq(Units)] /\ sent \in [Sides -> Sizes]
        /\ read \in [Sides -> Seq(Seq(Units))] /\ buf \in [Sides -> Seq(Units)]
    BY DEF UdpTypes
  <2>3. /\ s2 \in Sizes /\ w2 \in Seq(Units)
        /\ OneMore(sent[e], s2) /\ ThenFrame(s2, flow[e], w2)
    BY <2>2, SendAppends
  <2>4. sent' = [sent EXCEPT ![e] = s2] /\ flow' = [flow EXCEPT ![e] = w2]
    OBVIOUS
  <2> HIDE DEF d, s2, w2
  <2>5. /\ sent'[e] = s2 /\ flow'[e] = w2
        /\ \A f \in Sides \ {e} : sent'[f] = sent[f] /\ flow'[f] = flow[f]
    BY <2>2, <2>4
  <2>6. UdpTypes'
    BY <2>2, <2>3, <2>4 DEF UdpTypes
  <2>7. /\ ReadUpTo(sent[e], read[d], buf[d]) /\ GoesOn(sent[e], read[d], buf[d], flow[e])
        /\ GoesToEnd(sent[e], read[d], buf[d], flow[e])
    BY <1>2, <2>1 DEF RowOf
  <2>8. sent[e] \in Sizes /\ flow[e] \in Seq(Units) /\ read[d] \in Seq(Seq(Units))
        /\ buf[d] \in Seq(Units)
    BY <2>1, <2>2
  <2>9. ReadUpTo(s2, read[d], buf[d]) /\ GoesOn(s2, read[d], buf[d], w2)
        /\ GoesToEnd(s2, read[d], buf[d], w2)
    BY <2>3, <2>7, <2>8, SendRow
  <2>10. RowOf(d)'
    BY <2>1, <2>5, <2>9 DEF RowOf
  <2>11. ASSUME NEW f \in Sides \ {d} PROVE RowOf(f)'
    BY <2>1, <2>5, <2>11 DEF RowOf
  <2> QED
    BY <2>6, <2>10, <2>11
<1> QED
  BY <1>1, <1>2

\* The tunnel fails: what was under way is lost.
LEMMA CutStep ==
    ASSUME UdpTypes, \A d \in Sides : RowOf(d), severed' = TRUE,
           flow' = [e \in Sides |-> <<>>], buf' = buf, read' = read, sent' = sent
    PROVE  UdpTypes' /\ \A d \in Sides : RowOf(d)'
<1>1. UdpTypes'
  <2>1. <<>> \in Seq(Units)
    BY EmptySeq
  <2> QED
    BY <2>1 DEF UdpTypes
<1>2. ASSUME NEW d \in Sides PROVE RowOf(d)'
  <2> DEFINE w == flow'[Other(d)]
  <2>1. w = <<>>
    BY RowTypes
  <2> HIDE DEF w
  <2>2. DOMAIN w = {} /\ 1 .. Len(w) - 1 = {}
    BY <2>1
  <2>3. GoesOn(sent[Other(d)], read[d], buf[d], w)
    BY <2>1, <2>2 DEF GoesOn
  <2> QED
    BY <2>3 DEF RowOf, w
<1> QED
  BY <1>1, <1>2

LEMMA UdpStart == UdpInit => UdpInv
<1> SUFFICES ASSUME UdpInit, ~direct PROVE UdpTypes /\ \A e \in Sides : RowOf(e)
  BY DEF UdpInv
<1> DEFINE z == <<>>
<1>1. z \in Sizes /\ z \in Seq(Units) /\ z \in Seq(Seq(Units))
  BY DEF Sizes
<1>2. /\ Len(z) = 0 /\ DOMAIN z = {} /\ 1 .. Len(z) - 1 = {} /\ z = <<>>
  OBVIOUS
<1> HIDE DEF z
<1>3. /\ flow = [e \in Sides |-> z] /\ buf = [e \in Sides |-> z]
      /\ sent = [e \in Sides |-> z] /\ read = [e \in Sides |-> z]
  BY DEF UdpInit, z
<1>4. UdpTypes
  BY <1>1, <1>3 DEF UdpTypes
<1>5. ReadUpTo(z, z, z) /\ GoesOn(z, z, z, z) /\ GoesToEnd(z, z, z, z)
  BY <1>2 DEF ReadUpTo, GoesOn, GoesToEnd
<1>6. ASSUME NEW e \in Sides PROVE RowOf(e)
  BY <1>3, <1>5, OtherEnd DEF RowOf
<1> QED
  BY <1>4, <1>6

LEMMA UdpStep == UdpInv /\ [UdpNext]_udpVars => UdpInv'
<1> SUFFICES ASSUME UdpInv, [UdpNext]_udpVars, ~direct'
             PROVE  UdpTypes' /\ \A e \in Sides : RowOf(e)'
  BY DEF UdpInv
<1>1. direct' = direct
  BY DEF UdpNext, SetUp, Client, Server, Environment, Dispatch, DispatchFails, Start, Reply,
         SetUpFails, Uplink, Downlink, DirectReply, ClientStops, RunOver, DispatchFinally,
         ServerStart, ToTarget, FromTarget, ServerStops, ServerOver, AppSend, Idle, AppCloses,
         TargetSends, Sever, udpVars
<1>2. UdpTypes /\ \A e \in Sides : RowOf(e)
  BY <1>1 DEF UdpInv
<1>3. ASSUME UNCHANGED <<flow, buf, sent, read, severed>>
      PROVE  UdpTypes' /\ \A e \in Sides : RowOf(e)'
  BY <1>2, <1>3 DEF UdpTypes, RowOf
<1>4. CASE Dispatch \/ Start \/ Reply \/ SetUpFails \/ DirectReply \/ ClientStops \/ RunOver
           \/ DispatchFinally
  BY <1>3, <1>4 DEF Dispatch, Start, Reply, SetUpFails, DirectReply, ClientStops, RunOver,
                    DispatchFinally
<1>5. CASE \/ ServerStart \/ ServerStops \/ ServerOver \/ AppCloses \/ TargetSends
           \/ \E p \in Ports : AppSend(p)
           \/ \E e \in Sides : Idle(e)
  BY <1>3, <1>5 DEF ServerStart, ServerStops, ServerOver, AppCloses, TargetSends, AppSend, Idle
<1>6. CASE DispatchFails
  <2>1. UNCHANGED <<flow, buf, sent, read>> /\ (severed' = severed \/ severed' = TRUE)
    BY <1>6 DEF DispatchFails
  <2> QED
    BY <1>2, <2>1 DEF UdpTypes, RowOf
<1>7. CASE Uplink
  <2>1. buf' = buf /\ read' = read /\ severed' = severed
    BY <1>7 DEF Uplink
  <2>2. UNCHANGED <<flow, sent>> \/ SendFrame("client")
    BY <1>1, <1>7 DEF Uplink
  <2>3. "client" \in Sides
    BY DEF Sides
  <2> QED
    BY <1>2, <1>3, <2>1, <2>2, <2>3, SendStep
<1>8. CASE FromTarget
  <2>1. buf' = buf /\ read' = read /\ severed' = severed /\ SendFrame("server") /\ "server" \in Sides
    BY <1>8 DEF FromTarget, Sides
  <2> QED
    BY <1>2, <2>1, SendStep
<1>9. CASE Downlink
  <2>1. "client" \in Sides /\ Other("client") = "server"
    BY DEF Sides, Other
  <2>2. /\ flow[Other("client")] # <<>> /\ Feed("client", Head(flow[Other("client")]))
        /\ flow' = [flow EXCEPT ![Other("client")] = Tail(@)]
        /\ sent' = sent /\ severed' = severed
    BY <1>9, <2>1 DEF Downlink
  <2> QED
    BY <1>2, <2>1, <2>2, FeedStep
<1>10. CASE ToTarget
  <2>1. "server" \in Sides /\ Other("server") = "client"
    BY DEF Sides, Other
  <2>2. /\ flow[Other("server")] # <<>> /\ Feed("server", Head(flow[Other("server")]))
        /\ flow' = [flow EXCEPT ![Other("server")] = Tail(@)]
        /\ sent' = sent /\ severed' = severed
    BY <1>10, <2>1 DEF ToTarget
  <2> QED
    BY <1>2, <2>1, <2>2, FeedStep
<1>11. CASE Sever
  BY <1>2, <1>11, CutStep DEF Sever
<1>12. CASE UNCHANGED udpVars
  BY <1>3, <1>12 DEF udpVars
<1> QED
  BY <1>4, <1>5, <1>6, <1>7, <1>8, <1>9, <1>10, <1>11, <1>12
  DEF UdpNext, SetUp, Client, Server, Environment

\* However the tunnel's records cut the frames, with datagrams dropped at full
\* queues and the connection lost at any moment, each end parses the frames the
\* other has sent, whole and in order (udp_relay.py:141-168).
THEOREM FramesAreWhole == UdpSpec => []FramesWhole
<1>1. UdpInv => FramesWhole
  BY DEF UdpInv, RowOf, ReadUpTo, FramesWhole
<1> QED
  BY <1>1, UdpStart, UdpStep, PTL DEF UdpSpec
=============================================================================
