--------------------------- MODULE MCConnections ---------------------------
(* Small instances for TLC of what happens to a connection once it is       *)
(* accepted: the server's handler, the relay of one TCP connection through  *)
(* both ends, the relay of one UDP association.  A behaviour is one of the  *)
(* three; ServerConn sees the outcome of the other two only (RelayOver,     *)
(* UdpOver).                                                                *)
EXTENDS MCServerConn, Relay, UdpRelay

VARIABLE part

(* The bound of Relay: two pieces up, none down.                             *)
Pieces == [up |-> 2, down |-> 0]

allVars == <<vars, part, relayVars, udpVars>>

ConnStep(A) == part = "conn" /\ A /\ UNCHANGED <<part, relayVars, udpVars>>
TcpStep(A) == part = "tcp" /\ A /\ UNCHANGED <<part, vars, udpVars>>
UdpStep(A) == part = "udp" /\ A /\ UNCHANGED <<part, vars, relayVars>>

(* No definition tells two addresses apart: one connection comes from this.  *)
SomeIp == CHOOSE i \in Ips : TRUE

MCInit == /\ part \in {"conn", "tcp", "udp"}
          /\ Init /\ RelayInit /\ UdpInit
          /\ part # "conn" => ip = [c \in Conns |-> SomeIp]
          /\ ip[CHOOSE c \in Conns : TRUE] = SomeIp
          /\ part # "udp" => direct

MCNext == ConnStep(Next) \/ TcpStep(RelayNext) \/ UdpStep(UdpNext)

(* The fairness of ServerConn, Relay and UdpRelay.                           *)
MCFairness ==
    /\ \A c \in Conns :
        /\ WF_allVars(ConnStep(HelloOk(c) \/ HelloFail(c)))
        /\ WF_allVars(ConnStep(AddrFail(c) \/ AddrMalformed(c) \/ AddrUdp(c) \/ AddrTcp(c)))
        /\ WF_allVars(ConnStep(DialOk(c) \/ DialFail(c)))
        /\ WF_allVars(ConnStep(ClientEof(c)))
        /\ WF_allVars(ConnStep(RelayOver(c)))
        /\ WF_allVars(ConnStep(Finish(c)))
        /\ WF_allVars(ConnStep(UdpOver(c)))
        /\ WF_allVars(ConnStep(Finally(c)))
    /\ \A e \in Ends : WF_allVars(TcpStep(Supervisor(e)))
    /\ WF_allVars(UdpStep(Start \/ Reply \/ SetUpFails))
    /\ WF_allVars(UdpStep(ClientStops)) /\ WF_allVars(UdpStep(RunOver))
    /\ WF_allVars(UdpStep(DispatchFinally)) /\ WF_allVars(UdpStep(ToTarget))
    /\ WF_allVars(UdpStep(ServerStops)) /\ WF_allVars(UdpStep(ServerOver))

MCSpec == MCInit /\ [][MCNext]_allVars /\ MCFairness
=============================================================================
