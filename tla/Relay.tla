-------------------------------- MODULE Relay --------------------------------
(***************************************************************************)
(* One proxied TCP connection: an application and a mirage client on one    *)
(* end, a mirage server and the target on the other, and between them the   *)
(* encrypted tunnel (mirage/core/tunnel.py, outbound.py _bidi_tunnel_relay, *)
(* server.py handle_client, utils.py wait_both_with_grace and safe_close).  *)
(*                                                                         *)
(* Each end runs two tasks: a sender leg that reads its application and     *)
(* encrypts, and a receiver leg that decrypts and writes to it.  A record   *)
(* carries one piece of the stream; its nonce is not sent, each end counts  *)
(* for itself, so the model keeps in the record the nonce it was made with. *)
(***************************************************************************)
EXTENDS Naturals, Sequences

CONSTANTS MaxPieces,   \* bound on what an application writes
          MaxFaults,   \* bound on resets of applications and of the tunnel
          Alert        \* what a close_notify record carries; not a piece

VARIABLES
    written,   \* pieces each application has written, and
    fin,       \* whether it has shut its side down
    taken,     \* pieces its sender leg has read
    sendNonce, recvNonce,
    wire,      \* records in flight, oldest first
    tfin,      \* the sending end has closed the tunnel socket
    got,       \* what the application at the far end was given
    ended,     \* that application has been sent FIN
    sl, rl,    \* sender and receiver leg of each direction
    es,        \* where each end stands in its relay function
    reset,     \* the application of each end has reset its connection
    cut,       \* the tunnel connection is gone
    faults,    \* resets of the network and of applications
    late       \* the grace period of an end ran out

relayVars == <<written, fin, taken, sendNonce, recvNonce, wire, tfin, got, ended, sl, rl, es,
              reset, cut, faults, late>>

Dirs == {"up", "down"}
Ends == {"client", "server"}
Out(e) == IF e = "client" THEN "up" ELSE "down"
In(e) == IF e = "client" THEN "down" ELSE "up"
Source(d) == IF d = "up" THEN "client" ELSE "server"
Sink(d) == IF d = "up" THEN "server" ELSE "client"

SendStates == {"read", "drain", "notify", "done"}
RecvStates == {"recv", "drain", "done"}
EndStates == {"both", "grace", "drain", "close", "close2", "closed"}
LegOver(e) == sl[Out(e)] = "done" \/ rl[In(e)] = "done"
LegsOver(e) == sl[Out(e)] = "done" /\ rl[In(e)] = "done"

Record(n, x) == [nonce |-> n, piece |-> x]
Records == [nonce : Nat, piece : Nat \cup {Alert}]

RelayInit ==
    /\ written = [d \in Dirs |-> 0]
    /\ fin = [d \in Dirs |-> FALSE]
    /\ taken = [d \in Dirs |-> 0]
    /\ sendNonce = [d \in Dirs |-> 0]
    /\ recvNonce = [d \in Dirs |-> 0]
    /\ wire = [d \in Dirs |-> <<>>]
    /\ tfin = [d \in Dirs |-> FALSE]
    /\ got = [d \in Dirs |-> <<>>]
    /\ ended = [d \in Dirs |-> FALSE]
    /\ sl = [d \in Dirs |-> "read"]
    /\ rl = [d \in Dirs |-> "recv"]
    /\ es = [e \in Ends |-> "both"]
    /\ reset = [e \in Ends |-> FALSE]
    /\ cut = FALSE
    /\ faults = 0
    /\ late = [e \in Ends |-> FALSE]

-----------------------------------------------------------------------------
(* The applications and the network.                                         *)
AppWrite(d) ==
    /\ written[d] < MaxPieces[d] /\ ~fin[d] /\ ~reset[Source(d)]
    /\ written' = [written EXCEPT ![d] = @ + 1]
    /\ UNCHANGED <<fin, taken, sendNonce, recvNonce, wire, tfin, got, ended, sl, rl, es,
                   reset, cut, faults, late>>

AppFin(d) ==
    /\ ~fin[d] /\ ~reset[Source(d)]
    /\ fin' = [fin EXCEPT ![d] = TRUE]
    /\ UNCHANGED <<written, taken, sendNonce, recvNonce, wire, tfin, got, ended, sl, rl, es,
                   reset, cut, faults, late>>

AppReset(e) ==
    /\ ~reset[e] /\ faults < MaxFaults
    /\ reset' = [reset EXCEPT ![e] = TRUE]
    /\ faults' = faults + 1
    /\ UNCHANGED <<written, fin, taken, sendNonce, recvNonce, wire, tfin, got, ended, sl, rl,
                   es, cut, late>>

Lose == /\ cut' = TRUE
        /\ wire' = [d \in Dirs |-> <<>>]

Cut ==
    /\ ~cut /\ faults < MaxFaults
    /\ Lose
    /\ faults' = faults + 1
    /\ UNCHANGED <<written, fin, taken, sendNonce, recvNonce, tfin, got, ended, sl, rl, es,
                   reset, late>>

(* What arrives at a socket that is closed is answered with a reset, which   *)
(* takes with it what the other end has not read yet.                        *)
Rst(e) ==
    /\ es[e] = "closed" /\ wire[In(e)] # <<>> /\ ~cut
    /\ Lose
    /\ UNCHANGED <<written, fin, taken, sendNonce, recvNonce, tfin, got, ended, sl, rl, es,
                   reset, faults, late>>

-----------------------------------------------------------------------------
(* Mutant of send: each record repeats the nonce of the first.               *)
SendAll_OneNonce(d, k) ==
    /\ sendNonce' = [sendNonce EXCEPT ![d] = @ + 1]
    /\ wire' = IF cut THEN wire
               ELSE [wire EXCEPT ![d] = @ \o [i \in 1 .. k |-> Record(sendNonce[d], taken[d] + i)]]

(* send: every record of the data is numbered and written before the one     *)
(* await at its end, so cancelling that await leaves no gap.                 *)
SendAll(d, k) ==
    /\ sendNonce' = [sendNonce EXCEPT ![d] = @ + k]
    /\ wire' = IF cut THEN wire
               ELSE [wire EXCEPT ![d] = @ \o [i \in 1 .. k |->
                                               Record(sendNonce[d] + i - 1, taken[d] + i)]]

(* The sender leg reads k pieces and sends them; the buffer is below the     *)
(* threshold, or it waits for it to drain.                                   *)
Forward(d) ==
    /\ sl[d] = "read" /\ ~reset[Source(d)]
    /\ \E k \in 1 .. written[d] - taken[d] :
         /\ taken' = [taken EXCEPT ![d] = @ + k]
         /\ SendAll(d, k)
    /\ sl' \in {[sl EXCEPT ![d] = s] : s \in {"read", "drain"}}
    /\ UNCHANGED <<written, fin, recvNonce, tfin, got, ended, rl, es, reset, cut, faults, late>>

SendDrained(d) ==
    /\ sl[d] = "drain" /\ ~cut
    /\ sl' = [sl EXCEPT ![d] = "read"]
    /\ UNCHANGED <<written, fin, taken, sendNonce, recvNonce, wire, tfin, got, ended, rl, es,
                   reset, cut, faults, late>>

(* The application is at its end or gone, or drain raised; the leg sends     *)
(* close_notify, unless the transport is closing, and drains once more.      *)
SendOver(d) ==
    /\ \/ sl[d] = "read" /\ reset[Source(d)]
       \/ sl[d] = "read" /\ fin[d] /\ taken[d] = written[d]
       \/ sl[d] = "drain" /\ cut
    /\ IF cut THEN UNCHANGED <<sendNonce, wire>>
       ELSE /\ sendNonce' = [sendNonce EXCEPT ![d] = @ + 1]
            /\ wire' = [wire EXCEPT ![d] = Append(@, Record(sendNonce[d], Alert))]
    /\ sl' \in {[sl EXCEPT ![d] = s] : s \in {"notify", "done"}}
    /\ UNCHANGED <<written, fin, taken, recvNonce, tfin, got, ended, rl, es, reset, cut, faults,
                   late>>

Notified(d) ==
    /\ sl[d] = "notify"
    /\ sl' = [sl EXCEPT ![d] = "done"]
    /\ UNCHANGED <<written, fin, taken, sendNonce, recvNonce, wire, tfin, got, ended, rl, es,
                   reset, cut, faults, late>>

-----------------------------------------------------------------------------
(* The receiver leg is over: it sends FIN to its application.                *)
EndReceiver(d) ==
    /\ rl' = [rl EXCEPT ![d] = "done"]
    /\ ended' = [ended EXCEPT ![d] = TRUE]

(* recv: the next record is decrypted with the next nonce and its piece is   *)
(* written to the application.                                               *)
Receive(d) ==
    /\ rl[d] = "recv" /\ wire[d] # <<>>
    /\ Head(wire[d]).nonce = recvNonce[d] /\ Head(wire[d]).piece # Alert
    /\ recvNonce' = [recvNonce EXCEPT ![d] = @ + 1]
    /\ wire' = [wire EXCEPT ![d] = Tail(@)]
    /\ got' = [got EXCEPT ![d] = IF reset[Sink(d)] THEN @ ELSE Append(@, Head(wire[d]).piece)]
    /\ rl' \in {[rl EXCEPT ![d] = s] : s \in {"recv", "drain"}}
    /\ UNCHANGED <<written, fin, taken, sendNonce, tfin, ended, sl, es, reset, cut, faults, late>>

ReceiveDrained(d) ==
    /\ rl[d] = "drain" /\ ~reset[Sink(d)]
    /\ rl' = [rl EXCEPT ![d] = "recv"]
    /\ UNCHANGED <<written, fin, taken, sendNonce, recvNonce, wire, tfin, got, ended, sl, es,
                   reset, cut, faults, late>>

(* close_notify, or a record that does not decrypt.                          *)
ReceiveAlert(d) ==
    /\ rl[d] = "recv" /\ wire[d] # <<>>
    /\ Head(wire[d]).nonce # recvNonce[d] \/ Head(wire[d]).piece = Alert
    /\ recvNonce' = [recvNonce EXCEPT ![d] = @ + 1]
    /\ wire' = [wire EXCEPT ![d] = Tail(@)]
    /\ EndReceiver(d)
    /\ UNCHANGED <<written, fin, taken, sendNonce, tfin, got, sl, es, reset, cut, faults, late>>

(* The end of the tunnel, or an application that is gone.                    *)
ReceiveFails(d) ==
    /\ \/ rl[d] = "recv" /\ wire[d] = <<>> /\ (tfin[d] \/ cut)
       \/ rl[d] = "drain" /\ reset[Sink(d)]
    /\ EndReceiver(d)
    /\ UNCHANGED <<written, fin, taken, sendNonce, recvNonce, wire, tfin, got, sl, es, reset,
                   cut, faults, late>>

-----------------------------------------------------------------------------
(* wait_both_with_grace: the first leg is over ...                           *)
FirstOver(e) ==
    /\ es[e] = "both" /\ LegOver(e)
    /\ es' = [es EXCEPT ![e] = "grace"]
    /\ UNCHANGED <<written, fin, taken, sendNonce, recvNonce, wire, tfin, got, ended, sl, rl,
                   reset, cut, faults, late>>

(* ... and so is the other one in time ...                                   *)
BothOver(e) ==
    /\ es[e] = "grace" /\ LegsOver(e)
    /\ es' = [es EXCEPT ![e] = "drain"]
    /\ UNCHANGED <<written, fin, taken, sendNonce, recvNonce, wire, tfin, got, ended, sl, rl,
                   reset, cut, faults, late>>

(* Mutant: the grace period never ends.                                      *)
GraceOver_Never(e) == es[e] = "grace" /\ LegsOver(e) /\ FALSE /\ UNCHANGED relayVars

(* ... or it is cancelled.  CancelledError is no Exception: it passes the    *)
(* handlers of both legs, so neither close_notify nor FIN follows.           *)
GraceOver(e) ==
    /\ es[e] = "grace" /\ ~LegsOver(e)
    /\ sl' = [sl EXCEPT ![Out(e)] = "done"]
    /\ rl' = [rl EXCEPT ![In(e)] = "done"]
    /\ late' = [late EXCEPT ![e] = TRUE]
    /\ es' = [es EXCEPT ![e] = "drain"]
    /\ UNCHANGED <<written, fin, taken, sendNonce, recvNonce, wire, tfin, got, ended, reset,
                   cut, faults>>

(* drain_recv: whatever has arrived is thrown away.                          *)
DrainRecv(e) ==
    /\ es[e] = "drain"
    /\ wire' = [wire EXCEPT ![In(e)] = <<>>]
    /\ es' = [es EXCEPT ![e] = "close"]
    /\ UNCHANGED <<written, fin, taken, sendNonce, recvNonce, tfin, got, ended, sl, rl, reset,
                   cut, faults, late>>

(* safe_close of the tunnel and of the application's socket: the client      *)
(* closes the tunnel first, the server the target.                           *)
CloseTunnel(e) ==
    /\ es[e] = IF e = "client" THEN "close" ELSE "close2"
    /\ es' = [es EXCEPT ![e] = IF e = "client" THEN "close2" ELSE "closed"]
    /\ tfin' = [tfin EXCEPT ![Out(e)] = TRUE]
    /\ UNCHANGED <<written, fin, taken, sendNonce, recvNonce, wire, got, ended, sl, rl, reset,
                   cut, faults, late>>

CloseLocal(e) ==
    /\ es[e] = IF e = "client" THEN "close2" ELSE "close"
    /\ es' = [es EXCEPT ![e] = IF e = "client" THEN "closed" ELSE "close2"]
    /\ ended' = [ended EXCEPT ![In(e)] = TRUE]
    /\ UNCHANGED <<written, fin, taken, sendNonce, recvNonce, wire, tfin, got, sl, rl, reset,
                   cut, faults, late>>

-----------------------------------------------------------------------------
Application(d) == AppWrite(d) \/ AppFin(d)
SendLeg(d) == Forward(d) \/ SendDrained(d) \/ SendOver(d) \/ Notified(d)
ReceiveLeg(d) == Receive(d) \/ ReceiveDrained(d) \/ ReceiveAlert(d) \/ ReceiveFails(d)
Close(e) == CloseTunnel(e) \/ CloseLocal(e)
Supervisor(e) == FirstOver(e) \/ BothOver(e) \/ GraceOver(e) \/ DrainRecv(e) \/ Close(e)

RelayNext ==
    \/ \E d \in Dirs : Application(d) \/ SendLeg(d) \/ ReceiveLeg(d)
    \/ \E e \in Ends : Supervisor(e) \/ AppReset(e) \/ Rst(e)
    \/ Cut

RelaySpec == RelayInit /\ [][RelayNext]_relayVars

(* The event loop and its timeouts: the grace period, the drain and the      *)
(* close each have a limit.  Nobody promises to write, to read or to end.    *)
RelayFairness == \A e \in Ends : WF_relayVars(Supervisor(e))

-----------------------------------------------------------------------------
(* The variables stay in their ranges.                                       *)
RelayTypeOK ==
    /\ written \in [Dirs -> Nat] /\ taken \in [Dirs -> Nat]
    /\ fin \in [Dirs -> BOOLEAN] /\ tfin \in [Dirs -> BOOLEAN] /\ ended \in [Dirs -> BOOLEAN]
    /\ sendNonce \in [Dirs -> Nat] /\ recvNonce \in [Dirs -> Nat]
    /\ wire \in [Dirs -> Seq(Records)]
    /\ got \in [Dirs -> Seq(Nat)]
    /\ sl \in [Dirs -> SendStates] /\ rl \in [Dirs -> RecvStates]
    /\ es \in [Ends -> EndStates]
    /\ reset \in [Ends -> BOOLEAN] /\ late \in [Ends -> BOOLEAN]
    /\ cut \in BOOLEAN /\ faults \in Nat

(* The relay implements a stream in each direction: no piece is lost,        *)
(* repeated or reordered, and none decrypts under another nonce, however     *)
(* cancelled drains, half-closes and closes interleave; and the receiver     *)
(* sees the end before the last piece only if the network or an application  *)
(* failed, or the two seconds of grace of an end ran out.                    *)
Broken == faults > 0 \/ \E e \in Ends : late[e]
Abstract == INSTANCE Stream WITH broken <- Broken
StreamKept == Abstract!Spec

(* Once one direction of an end is over, that end closes, whatever the       *)
(* applications and the other end do (utils.py:504-530).                     *)
RelayEnds == \A e \in Ends :
    LegOver(e) ~> es[e] = "closed"
=============================================================================
