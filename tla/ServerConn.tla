----------------------------- MODULE ServerConn -----------------------------
(***************************************************************************)
(* The life of the proxy server's connections (mirage/server.py,           *)
(* handle_client) against the per-address cap, the table of active         *)
(* connections (mirage/core/stats.py) and the administrator who blocks     *)
(* addresses and kills connections (mirage/core/admin.py).                 *)
(*                                                                         *)
(* handle_client is one coroutine per connection.  A step of this module   *)
(* is what the coroutine does between two awaits; everything else (other   *)
(* connections, the administrator, the peer) may run at an await.          *)
(***************************************************************************)
EXTENDS Naturals, FiniteSets

CONSTANTS Conns,      \* connections the clients may open, one handler each
          Ips,        \* client addresses
          MaxPerIp,   \* max_conns_per_ip
          MaxBytes    \* bound on the chunks one connection relays

ASSUME ServerAssumption ==
    /\ IsFiniteSet(Conns)
    /\ MaxPerIp \in Nat \ {0}
    /\ MaxBytes \in Nat

VARIABLES
    ip,        \* the address each connection comes from
    pc,        \* where the handler of each connection is
    legs,      \* the directions of its relay that still run
    stalled,   \* those whose receiver does not read: data waits in the writer
    closing,   \* its client writer has been closed (writer.is_closing())
    gone,      \* its client has closed its end
    slots,     \* _CONN_COUNT_BY_IP
    active,    \* StatsStore.active
    blocked,   \* StatsStore.blocked
    bytes,     \* ConnInfo.bytes_up + bytes_down
    total      \* StatsStore.total_bytes_up + total_bytes_dn

vars == <<ip, pc, legs, stalled, closing, gone, slots, active, blocked, bytes, total>>

(* "hello": server_read_hello_and_decide; "addr": tunnel.recv of the target  *)
(* address; "dial": egress.open_connection; "relay" and "udp": the two       *)
(* relays; "closing": the last awaits before unregister; "fin": the last     *)
(* awaits before the outer finally.                                          *)
Stages == {"idle", "hello", "addr", "dial", "relay", "udp", "closing", "fin", "done"}

(* Stages between _acquire_ip_slot and _release_ip_slot. *)
Holding == Stages \ {"idle", "done"}

(* Stages between register and unregister. *)
Registered == {"dial", "relay", "udp", "closing"}

Directions == {"up", "down"}

HoldersOf(i) == {c \in Conns : ip[c] = i /\ pc[c] \in Holding}

-----------------------------------------------------------------------------
Init ==
    /\ ip \in [Conns -> Ips]
    /\ pc = [c \in Conns |-> "idle"]
    /\ legs = [c \in Conns |-> {}]
    /\ stalled = [c \in Conns |-> {}]
    /\ closing = [c \in Conns |-> FALSE]
    /\ gone = [c \in Conns |-> FALSE]
    /\ slots = [i \in Ips |-> 0]
    /\ active = {}
    /\ blocked = {}
    /\ bytes = [c \in Conns |-> 0]
    /\ total = 0

(* _release_ip_slot: an address whose count reaches 0 leaves the table. *)
ReleaseSlot(c) == slots' = [slots EXCEPT ![ip[c]] = @ - 1]

(* StatsStore.register and StatsStore.unregister. *)
Register(c) == active' = active \cup {c}

(* Mutant: the totals are not carried over.                                  *)
Unregister_NoTotals(c) ==
    /\ active' = active \ {c}
    /\ UNCHANGED total

Unregister(c) ==
    /\ active' = active \ {c}
    /\ total' = total + bytes[c]

(* The start of handle_client: a blocked address, and one at its cap, are    *)
(* closed without a handshake; otherwise the connection takes a slot.  There *)
(* is no await between the check and the slot.                               *)
Refuse(c) ==
    /\ pc[c] = "idle"
    /\ ip[c] \in blocked \/ slots[ip[c]] >= MaxPerIp
    /\ pc' = [pc EXCEPT ![c] = "done"]
    /\ closing' = [closing EXCEPT ![c] = TRUE]
    /\ UNCHANGED <<ip, legs, stalled, gone, slots, active, blocked, bytes, total>>

(* Mutant: the cap is compared with >.                                       *)
Admit_OffByOne(c) ==
    /\ pc[c] = "idle"
    /\ ip[c] \notin blocked
    /\ slots[ip[c]] <= MaxPerIp
    /\ slots' = [slots EXCEPT ![ip[c]] = @ + 1]
    /\ pc' = [pc EXCEPT ![c] = "hello"]
    /\ UNCHANGED <<ip, legs, stalled, closing, gone, active, blocked, bytes, total>>

Admit(c) ==
    /\ pc[c] = "idle"
    /\ ip[c] \notin blocked
    /\ slots[ip[c]] < MaxPerIp
    /\ slots' = [slots EXCEPT ![ip[c]] = @ + 1]
    /\ pc' = [pc EXCEPT ![c] = "hello"]
    /\ UNCHANGED <<ip, legs, stalled, closing, gone, active, blocked, bytes, total>>

(* The handshake succeeds, or the connection was a probe, a replay, or       *)
(* silent, and server_read_hello_and_decide has answered and closed it.      *)
HelloOk(c) ==
    /\ pc[c] = "hello"
    /\ pc' = [pc EXCEPT ![c] = "addr"]
    /\ UNCHANGED <<ip, legs, stalled, closing, gone, slots, active, blocked, bytes, total>>

HelloFail(c) ==
    /\ pc[c] = "hello"
    /\ pc' = [pc EXCEPT ![c] = "fin"]
    /\ UNCHANGED <<ip, legs, stalled, closing, gone, slots, active, blocked, bytes, total>>

(* recv of the address times out or fails; safe_close follows. *)
AddrFail(c) ==
    /\ pc[c] = "addr"
    /\ pc' = [pc EXCEPT ![c] = "fin"]
    /\ UNCHANGED <<ip, legs, stalled, closing, gone, slots, active, blocked, bytes, total>>

(* Mutant: the slot is released on the normal paths only.                    *)
AddrMalformed_NoFinally(c) ==
    /\ pc[c] = "addr"
    /\ pc' = [pc EXCEPT ![c] = "done"]
    /\ closing' \in {closing, [closing EXCEPT ![c] = TRUE]}
    /\ UNCHANGED <<ip, legs, stalled, gone, slots, active, blocked, bytes, total>>

(* unpack_address raises on an empty or truncated packet: the exception      *)
(* leaves handle_client through its finally, and whether the transport is    *)
(* then closed depends on the version of asyncio.                            *)
AddrMalformed(c) ==
    /\ pc[c] = "addr"
    /\ pc' = [pc EXCEPT ![c] = "done"]
    /\ ReleaseSlot(c)
    /\ closing' \in {closing, [closing EXCEPT ![c] = TRUE]}
    /\ UNCHANGED <<ip, legs, stalled, gone, active, blocked, bytes, total>>

(* A packet that starts with a zero byte opens a UDP tunnel, any other the   *)
(* address of a TCP target.  Both are registered at once, without another    *)
(* look at the block list.                                                   *)
AddrUdp(c) ==
    /\ pc[c] = "addr"
    /\ Register(c)
    /\ pc' = [pc EXCEPT ![c] = "udp"]
    /\ legs' = [legs EXCEPT ![c] = Directions]
    /\ UNCHANGED <<ip, stalled, closing, gone, slots, blocked, bytes, total>>

AddrTcp(c) ==
    /\ pc[c] = "addr"
    /\ Register(c)
    /\ pc' = [pc EXCEPT ![c] = "dial"]
    /\ UNCHANGED <<ip, legs, stalled, closing, gone, slots, blocked, bytes, total>>

DialOk(c) ==
    /\ pc[c] = "dial"
    /\ pc' = [pc EXCEPT ![c] = "relay"]
    /\ legs' = [legs EXCEPT ![c] = Directions]
    /\ UNCHANGED <<ip, stalled, closing, gone, slots, active, blocked, bytes, total>>

(* safe_close of the client, and only then unregister (in Finish). *)
DialFail(c) ==
    /\ pc[c] = "dial"
    /\ pc' = [pc EXCEPT ![c] = "closing"]
    /\ UNCHANGED <<ip, legs, stalled, closing, gone, slots, active, blocked, bytes, total>>

-----------------------------------------------------------------------------
(* A chunk crosses one direction of a relay and is counted.  Data buffered   *)
(* before a close can still be delivered after it.  Datagrams to a target    *)
(* never wait in a writer.                                                   *)
Waits(c) == IF pc[c] = "udp" THEN {"down"} ELSE Directions

Chunk(c, d) ==
    /\ d \in legs[c]
    /\ bytes[c] < MaxBytes
    /\ bytes' = [bytes EXCEPT ![c] = @ + 1]
    /\ \E w \in SUBSET ({d} \cap Waits(c)) : stalled' = [stalled EXCEPT ![c] = @ \cup w]
    /\ UNCHANGED <<ip, pc, legs, closing, gone, slots, active, blocked, total>>

(* The receiver reads again, and what waited for it has gone out.            *)
Drained(c, d) ==
    /\ d \in stalled[c]
    /\ stalled' = [stalled EXCEPT ![c] = @ \ {d}]
    /\ UNCHANGED <<ip, pc, legs, closing, gone, slots, active, blocked, bytes, total>>

(* The handler cannot be told that its client has gone: its up leg awaits    *)
(* drain() of a target that does not read, or its closed transport holds     *)
(* data the client does not read and comes to its end only after that.       *)
Deaf(c) == "up" \in stalled[c] \/ (closing[c] /\ "down" \in stalled[c])

(* The client's side of a relay sees the end of its stream: the peer closed, *)
(* or this side did and the transport fed EOF to the reader.                 *)
ClientEof(c) ==
    /\ "up" \in legs[c]
    /\ gone[c] \/ closing[c]
    /\ ~Deaf(c)
    /\ legs' = [legs EXCEPT ![c] = @ \ {"up"}]
    /\ UNCHANGED <<ip, pc, stalled, closing, gone, slots, active, blocked, bytes, total>>

(* Any other end of a direction: the target's EOF, a read or write error, a  *)
(* record that does not decrypt, the client's close_notify, the idle limit   *)
(* of a UDP tunnel.                                                          *)
LegEnds(c, d) ==
    /\ d \in legs[c]
    /\ legs' = [legs EXCEPT ![c] = @ \ {d}]
    /\ UNCHANGED <<ip, pc, stalled, closing, gone, slots, active, blocked, bytes, total>>

(* Mutant: the relay waits for both directions, without a grace period.      *)
RelayOver_NoGrace(c) ==
    /\ pc[c] = "relay"
    /\ legs[c] = {}
    /\ stalled' = [stalled EXCEPT ![c] = {}]
    /\ pc' = [pc EXCEPT ![c] = "closing"]
    /\ UNCHANGED <<ip, legs, closing, gone, slots, active, blocked, bytes, total>>

(* wait_both_with_grace: once one direction is over, the other one ends or   *)
(* is cancelled when the grace period is; the buffers are then drained and   *)
(* both writers closed.                                                      *)
RelayOver(c) ==
    /\ pc[c] = "relay"
    /\ legs[c] # Directions
    /\ legs' = [legs EXCEPT ![c] = {}]
    /\ stalled' = [stalled EXCEPT ![c] = {}]
    /\ pc' = [pc EXCEPT ![c] = "closing"]
    /\ UNCHANGED <<ip, closing, gone, slots, active, blocked, bytes, total>>

(* The end of the awaits of the inner finally (or of the failed dial): the   *)
(* writer is closed, the connection unregistered, the slot released by the   *)
(* outer finally, with no await in between.                                  *)
Finish(c) ==
    /\ pc[c] = "closing"
    /\ closing' = [closing EXCEPT ![c] = TRUE]
    /\ Unregister(c)
    /\ ReleaseSlot(c)
    /\ pc' = [pc EXCEPT ![c] = "done"]
    /\ UNCHANGED <<ip, legs, stalled, gone, blocked, bytes>>

(* Mutant: the UDP branch forgets to unregister.                             *)
UdpOver_NoUnregister(c) ==
    /\ pc[c] = "udp"
    /\ legs[c] # Directions
    /\ legs' = [legs EXCEPT ![c] = {}]
    /\ stalled' = [stalled EXCEPT ![c] = {}]
    /\ pc' = [pc EXCEPT ![c] = "fin"]
    /\ UNCHANGED <<ip, closing, gone, slots, active, blocked, bytes, total>>

(* A UDP tunnel stops with its first direction and is unregistered before    *)
(* the writer is closed.                                                     *)
UdpOver(c) ==
    /\ pc[c] = "udp"
    /\ legs[c] # Directions
    /\ legs' = [legs EXCEPT ![c] = {}]
    /\ stalled' = [stalled EXCEPT ![c] = {}]
    /\ Unregister(c)
    /\ pc' = [pc EXCEPT ![c] = "fin"]
    /\ UNCHANGED <<ip, closing, gone, slots, blocked, bytes>>

(* The outer finally, after safe_close of a connection that is not, or no    *)
(* longer, registered.                                                       *)
Finally(c) ==
    /\ pc[c] = "fin"
    /\ closing' = [closing EXCEPT ![c] = TRUE]
    /\ ReleaseSlot(c)
    /\ pc' = [pc EXCEPT ![c] = "done"]
    /\ UNCHANGED <<ip, legs, stalled, gone, active, blocked, bytes, total>>

-----------------------------------------------------------------------------
(* StatsStore.block: the address is refused from now on, and the writers of  *)
(* its registered connections are closed.                                    *)
Block(i) ==
    /\ i \notin blocked
    /\ blocked' = blocked \cup {i}
    /\ closing' = [c \in Conns |-> closing[c] \/ (c \in active /\ ip[c] = i)]
    /\ UNCHANGED <<ip, pc, legs, stalled, gone, slots, active, bytes, total>>

Unblock(i) ==
    /\ i \in blocked
    /\ blocked' = blocked \ {i}
    /\ UNCHANGED <<ip, pc, legs, stalled, closing, gone, slots, active, bytes, total>>

(* StatsStore.kill. *)
Kill(c) ==
    /\ c \in active
    /\ closing' = [closing EXCEPT ![c] = TRUE]
    /\ UNCHANGED <<ip, pc, legs, stalled, gone, slots, active, blocked, bytes, total>>

(* The client closes its end of a connection whose handler runs. *)
PeerClose(c) ==
    /\ pc[c] \in Holding
    /\ ~gone[c]
    /\ gone' = [gone EXCEPT ![c] = TRUE]
    /\ UNCHANGED <<ip, pc, legs, stalled, closing, slots, active, blocked, bytes, total>>

-----------------------------------------------------------------------------
Next ==
    \/ \E c \in Conns :
        \/ Refuse(c) \/ Admit(c) \/ HelloOk(c) \/ HelloFail(c)
        \/ AddrFail(c) \/ AddrMalformed(c) \/ AddrUdp(c) \/ AddrTcp(c)
        \/ DialOk(c) \/ DialFail(c) \/ ClientEof(c)
        \/ \E d \in Directions : Chunk(c, d) \/ Drained(c, d) \/ LegEnds(c, d)
        \/ RelayOver(c) \/ Finish(c) \/ UdpOver(c) \/ Finally(c)
        \/ Kill(c) \/ PeerClose(c)
    \/ \E i \in Ips : Block(i) \/ Unblock(i)

Spec == Init /\ [][Next]_vars

(* Every await of the handler ends: the hello and the address have timeouts  *)
(* (8 s, idle_timeout_sec), connect() has the operating system's, the grace  *)
(* period and safe_close have theirs, and EOF wakes a leg that awaits data   *)
(* of the client (see Deaf).  Nothing makes the peer close, a client or a    *)
(* target read, a target answer or an administrator act.                     *)
Fairness ==
    \A c \in Conns :
        /\ WF_vars(HelloOk(c) \/ HelloFail(c))
        /\ WF_vars(AddrFail(c) \/ AddrMalformed(c) \/ AddrUdp(c) \/ AddrTcp(c))
        /\ WF_vars(DialOk(c) \/ DialFail(c))
        /\ WF_vars(ClientEof(c))
        /\ WF_vars(RelayOver(c))
        /\ WF_vars(Finish(c))
        /\ WF_vars(UdpOver(c))
        /\ WF_vars(Finally(c))

FairSpec == Spec /\ Fairness

-----------------------------------------------------------------------------
(* The variables stay in their ranges; a relay runs only in its stages, and  *)
(* no address exceeds its cap (_acquire_ip_slot, server.py:68).              *)
TypeOK ==
    /\ ip \in [Conns -> Ips]
    /\ pc \in [Conns -> Stages]
    /\ legs \in [Conns -> SUBSET Directions]
    /\ stalled \in [Conns -> SUBSET Directions]
    /\ closing \in [Conns -> BOOLEAN]
    /\ gone \in [Conns -> BOOLEAN]
    /\ slots \in [Ips -> 0 .. MaxPerIp]
    /\ active \subseteq Conns
    /\ blocked \subseteq Ips
    /\ bytes \in [Conns -> Nat]
    /\ total \in Nat

(* No path through handle_client leaks a slot or gives one back twice: the   *)
(* count of an address is the number of its handlers between the slot and    *)
(* the outer finally (server.py:255-257).                                    *)
SlotsAccounted == \A i \in Ips : slots[i] = Cardinality(HoldersOf(i))

(* The table the administrator sees lists exactly the handlers between       *)
(* register and unregister, so a kill or a block reaches every one of them,  *)
(* and none that has ended stays in it (stats.py:79-94).                     *)
ActiveAccounted == active = {c \in Conns : pc[c] \in Registered}

(* The relayed chunks of some connections, each by its own number.           *)
ChunksOf(S) == {p \in S \X (1 .. MaxBytes) : p[2] <= bytes[p[1]]}

(* The traffic total of the admin page, closed connections plus active ones  *)
(* (stats.py:145-150), counts every relayed chunk exactly once: unregistering*)
(* neither loses what a connection relayed nor counts it again.              *)
BytesConserved == total + Cardinality(ChunksOf(active)) = Cardinality(ChunksOf(Conns))

(* A connection the peer or the administrator has closed is unregistered and *)
(* gives its slot back, whatever its handler was waiting for, unless again   *)
(* and again the target does not read what it is sent, or the client of a    *)
(* connection closed here does not.  Without that, a kill does not leave an  *)
(* entry behind on the admin page (server.py:207-257).                       *)
ClosedIsReaped ==
    \A c \in Conns :
        (pc[c] \in Holding /\ (gone[c] \/ closing[c])) ~> (pc[c] = "done" \/ Deaf(c))

(* README.md:147 says blocking an address closes all its connections at      *)
(* once and refuses later ones: no registered connection of a blocked        *)
(* address is open.  A handler past the check and not yet registered escapes.*)
BlockedAreClosed ==
    \A c \in active : ip[c] \in blocked => closing[c]
=============================================================================
