--------------------------- MODULE MCDnsServices ---------------------------
(* The two kinds of upstream of the forwarder on small instances: DNS over   *)
(* HTTPS and the pipeline of plain DNS, which lets in two queries together   *)
(* or a single one at a time.  A behaviour is one of the three.              *)
EXTENDS DohUpstream, FiniteSets

VARIABLES part, stage, turn, tx, via, fut, pending, nextTx, lock, ready, reader, tstate,
          rstate, wire, closed

udpVars == <<stage, turn, tx, via, fut, pending, nextTx, lock, ready, reader, tstate, rstate,
             wire, closed>>
allVars == <<part, dohVars, udpVars>>

(* Two tunnels for two queries and one more for what one of them has dropped *)
(* of the other.                                                             *)
Udp == INSTANCE DnsPipeline WITH
    pc <- stage, attempt <- turn, Tunnels <- {"t1", "t2", "t3"}, NumTx <- 4, MaxInflight <- 2

DohStep(A) == part = "doh" /\ A /\ UNCHANGED <<part, udpVars>>

(* No definition tells two tunnels apart: they are handed out in this order. *)
InOrder == /\ tstate["t1"] = "fresh" => tstate["t2"] = "fresh"
           /\ tstate["t2"] = "fresh" => tstate["t3"] = "fresh"
LetIn == Cardinality(Udp!Inflight) <= IF part = "single" THEN 1 ELSE 2
UdpStep(A) == /\ part \in {"udp", "single"} /\ A
              /\ UNCHANGED <<part, dohVars>> /\ InOrder' /\ LetIn'

MCInit == part \in {"doh", "udp", "single"} /\ Init /\ Udp!Init
MCNext == DohStep(Next) \/ UdpStep(Udp!Next)

(* DNS over HTTPS: the locks are handed over and the waits have their        *)
(* timeouts; and the fairness of DnsPipeline.                                *)
DohFairness ==
    \A q \in Queries :
        /\ WF_allVars(DohStep(Ready(q) \/ TakeSetupLock(q)))
        /\ WF_allVars(DohStep(SetupFail(q)))
        /\ WF_allVars(DohStep(TakeRequestLock(q)))
        /\ WF_allVars(DohStep(Send(q) \/ NoConnection(q)))
        /\ WF_allVars(DohStep(RequestFails(q)))

UdpFairness ==
    /\ \A q \in Queries :
        /\ WF_allVars(UdpStep(Udp!Enter(q)))
        /\ WF_allVars(UdpStep(Udp!SendOnLive(q) \/ Udp!TakeSetupLock(q)))
        /\ WF_allVars(UdpStep(Udp!SetupFail(q) \/ Udp!SetupTimeout(q)))
        /\ WF_allVars(UdpStep(Udp!Drained(q) \/ Udp!DrainFail(q)))
        /\ WF_allVars(UdpStep(Udp!Answered(q) \/ Udp!Failed(q) \/ Udp!Timeout(q)))
    /\ \A t \in {"t1", "t2", "t3"} :
        WF_allVars(UdpStep(Udp!ReaderStart(t) \/ Udp!ReaderFail(t) \/ Udp!ReaderCancelled(t)))

MCSpec == MCInit /\ [][MCNext]_allVars /\ DohFairness /\ UdpFairness

-----------------------------------------------------------------------------
(* DnsPipeline: every query that waits for its turn ends.                    *)
QueryEnds == Udp!QueryEnds
=============================================================================
