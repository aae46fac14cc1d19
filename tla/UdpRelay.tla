------------------------------ MODULE UdpRelay ------------------------------
(***************************************************************************)
(* One SOCKS5 UDP association: the client's dispatch and relay             *)
(* (mirage/client.py _dispatch_udp, mirage/core/udp_relay.py UDPRelay) and *)
(* the server's end of the tunnel it uses (handle_udp_tunnel).             *)
(*                                                                         *)
(* Datagrams cross the tunnel as frames with a length in front, which the   *)
(* records of the tunnel cut anywhere: a frame here is a row of units, the  *)
(* first of which tells how many there are.  Queues are bounded and drop.   *)
(***************************************************************************)
EXTENDS Naturals, Sequences

CONSTANTS Ports,       \* source ports of the application
          QueueMax,    \* _UDP_QUEUE_MAXSIZE
          MaxSent,     \* bound on the datagrams of each side
          NoPort

VARIABLES
    stage,     \* of the dispatch: "idle", "start", "reply", "run", "finally", "done"
    direct,    \* the final action leads to a direct leaf: no tunnel
    control,   \* the control connection is open
    tun,       \* the client's end of the tunnel: "none", "open", "closed"
    sock,      \* the local UDP socket: "none", "open", "closed"
    listed,    \* the association is in the connection registry
    stop,      \* the stop event of each end
    addr,      \* _socks_client_addr
    uq, dq,    \* _uplink_q of the client, downlink_q of the server
    flow,      \* units under way in each direction
    buf,       \* the FrameReader of each end
    sent,      \* frames each end has sent: their sizes; frame i has number i
    read,      \* frames each end has parsed
    told,      \* datagrams given to the application
    srv,       \* handle_udp_tunnel: "none", "run", "done"
    quiet,     \* no activity of an end for its idle timeout
    severed    \* the tunnel connection has failed

udpVars == <<stage, direct, control, tun, sock, listed, stop, addr, uq, dq, flow, buf, sent,
             read, told, srv, quiet, severed>>

Sides == {"client", "server"}
Other(e) == IF e = "client" THEN "server" ELSE "client"

(* Frame i of n units.                                                       *)
Frame(i, n) == [k \in 1 .. n |-> [frame |-> i, k |-> k, n |-> n]]

UdpInit ==
    /\ stage = "idle" /\ direct \in BOOLEAN /\ control = TRUE
    /\ tun = "none" /\ sock = "none" /\ listed = FALSE
    /\ stop = [e \in Sides |-> FALSE]
    /\ addr = NoPort /\ uq = <<>> /\ dq = <<>>
    /\ flow = [e \in Sides |-> <<>>] /\ buf = [e \in Sides |-> <<>>]
    /\ sent = [e \in Sides |-> <<>>] /\ read = [e \in Sides |-> <<>>]
    /\ told = 0 /\ srv = "none"
    /\ quiet = [e \in Sides |-> FALSE] /\ severed = FALSE

-----------------------------------------------------------------------------
(* The final action's leaf: a tunnel that took the sentinel, or direct; the  *)
(* association is registered ...                                             *)
Dispatch ==
    /\ stage = "idle"
    /\ stage' = "start" /\ listed' = TRUE
    /\ tun' = IF direct THEN "none" ELSE "open"
    /\ UNCHANGED <<direct, control, sock, stop, addr, uq, dq, flow, buf, sent, read, told, srv,
                   quiet, severed>>

(* ... or there is no tunnel, the sentinel fails, or the leaf is of another  *)
(* kind: everything is closed before anything is registered.                 *)
DispatchFails ==
    /\ stage = "idle"
    /\ stage' = "done" /\ control' = FALSE
    /\ \/ UNCHANGED <<tun, severed>>
       \/ ~direct /\ tun' = "closed" /\ severed' = TRUE
    /\ UNCHANGED <<direct, sock, listed, stop, addr, uq, dq, flow, buf, sent, read, told, srv,
                   quiet>>

(* start() binds the local socket; the reply tells the application its port. *)
Start ==
    /\ stage = "start"
    /\ sock' = "open" /\ stage' = "reply"
    /\ UNCHANGED <<direct, control, tun, listed, stop, addr, uq, dq, flow, buf, sent, read,
                   told, srv, quiet, severed>>

Reply ==
    /\ stage = "reply"
    /\ stage' = "run"
    /\ UNCHANGED <<direct, control, tun, sock, listed, stop, addr, uq, dq, flow, buf, sent,
                   read, told, srv, quiet, severed>>

(* Binding fails, the application is gone before the reply, or the direct    *)
(* socket cannot be made: run() does not clean up, so the local socket stays *)
(* as it is.                                                                 *)
SetUpFails ==
    /\ stage = "start" \/ (stage = "reply" /\ (direct \/ ~control))
    /\ stage' = "finally"
    /\ UNCHANGED <<direct, control, tun, sock, listed, stop, addr, uq, dq, flow, buf, sent,
                   read, told, srv, quiet, severed>>

(* run(): stop is set, the tasks are cancelled, the sockets closed.          *)
RunOver ==
    /\ stage = "run" /\ stop["client"]
    /\ sock' = "closed" /\ stage' = "finally"
    /\ UNCHANGED <<direct, control, tun, listed, stop, addr, uq, dq, flow, buf, sent, read,
                   told, srv, quiet, severed>>

(* Mutant: only a relay that ran gives its tunnel back.                      *)
DispatchFinally_RunOnly ==
    /\ stage = "finally"
    /\ listed' = FALSE /\ control' = FALSE /\ stage' = "done"
    /\ tun' = IF tun = "open" /\ sock = "closed" THEN "closed" ELSE tun
    /\ UNCHANGED <<direct, sock, stop, addr, uq, dq, flow, buf, sent, read, told, srv, quiet,
                   severed>>

DispatchFinally ==
    /\ stage = "finally"
    /\ listed' = FALSE /\ control' = FALSE /\ stage' = "done"
    /\ tun' = IF tun = "open" THEN "closed" ELSE tun
    /\ UNCHANGED <<direct, sock, stop, addr, uq, dq, flow, buf, sent, read, told, srv, quiet,
                   severed>>

-----------------------------------------------------------------------------
(* The application sends a datagram from one of its ports.                   *)
AppSend(p) ==
    /\ sock = "open" /\ control /\ Len(sent["client"]) + Len(uq) < MaxSent
    /\ uq' = IF Len(uq) < QueueMax THEN Append(uq, p) ELSE uq
    /\ UNCHANGED <<stage, direct, control, tun, sock, listed, stop, addr, dq, flow, buf, sent,
                   read, told, srv, quiet, severed>>

AppCloses ==
    /\ stage \notin {"idle", "done"} /\ control
    /\ control' = FALSE
    /\ UNCHANGED <<stage, direct, tun, sock, listed, stop, addr, uq, dq, flow, buf, sent, read,
                   told, srv, quiet, severed>>

(* A frame goes out whole, its records one after the other: each end has one *)
(* consumer that sends.  A tunnel that is gone sets stop.                    *)
SendFrame(e) ==
    IF severed THEN stop' = [stop EXCEPT ![e] = TRUE] /\ UNCHANGED <<flow, sent>>
    ELSE /\ \E n \in 1 .. 2 :
              /\ sent' = [sent EXCEPT ![e] = Append(@, n)]
              /\ flow' = [flow EXCEPT ![e] = @ \o Frame(Len(sent[e]) + 1, n)]
         /\ UNCHANGED stop

(* _handle_uplink: the sender becomes the address for replies; a malformed   *)
(* datagram goes no further.  Direct datagrams leave by the direct socket.   *)
Uplink ==
    /\ stage = "run" /\ uq # <<>>
    /\ uq' = Tail(uq) /\ addr' = Head(uq)
    /\ \/ UNCHANGED <<stop, flow, sent, quiet>>
       \/ /\ quiet' = [quiet EXCEPT !["client"] = FALSE]
          /\ IF direct THEN sent' = [sent EXCEPT !["client"] = Append(@, 1)]
                            /\ UNCHANGED <<stop, flow>>
                       ELSE SendFrame("client")
    /\ UNCHANGED <<stage, direct, control, tun, sock, listed, dq, buf, read, told, srv, severed>>

(* Mutant of FrameReader.frames: the frame is cut out one unit short.        *)
Rest_NoHeader(b) == SubSeq(b, b[1].n, Len(b))
Rest(b) == SubSeq(b, b[1].n + 1, Len(b))

(* FrameReader: append the chunk, take the frames that are complete.         *)
Feed(e, u) ==
    LET b == Append(buf[e], u)
    IN  IF Len(b) < b[1].n
        THEN buf' = [buf EXCEPT ![e] = b] /\ UNCHANGED read
        ELSE /\ buf' = [buf EXCEPT ![e] = Rest(b)]
             /\ read' = [read EXCEPT ![e] = Append(@, SubSeq(b, 1, b[1].n))]

(* _tunnel_to_local, one record: what completes a frame goes to the port     *)
(* that sent last.                                                           *)
Downlink ==
    /\ stage = "run" /\ tun = "open" /\ flow["server"] # <<>>
    /\ Feed("client", Head(flow["server"]))
    /\ flow' = [flow EXCEPT !["server"] = Tail(@)]
    /\ IF read' = read THEN UNCHANGED <<told, quiet>>
       ELSE /\ quiet' = [quiet EXCEPT !["client"] = FALSE]
            /\ told' = IF addr = NoPort THEN told ELSE told + 1
    /\ UNCHANGED <<stage, direct, control, tun, sock, listed, stop, addr, uq, dq, sent, srv,
                   severed>>

DirectReply ==
    /\ stage = "run" /\ direct /\ sent["client"] # <<>> /\ told < MaxSent
    /\ told' = told + 1
    /\ quiet' = [quiet EXCEPT !["client"] = FALSE]
    /\ UNCHANGED <<stage, direct, control, tun, sock, listed, stop, addr, uq, dq, flow, buf, sent,
                   read, srv, severed>>

(* The watchers: control connection, tunnel, idle time.                      *)
ClientStops ==
    /\ stage = "run" /\ ~stop["client"]
    /\ \/ ~control
       \/ tun = "open" /\ flow["server"] = <<>> /\ (severed \/ srv = "done")
       \/ quiet["client"]
    /\ stop' = [stop EXCEPT !["client"] = TRUE]
    /\ UNCHANGED <<stage, direct, control, tun, sock, listed, addr, uq, dq, flow, buf, sent, read,
                   told, srv, quiet, severed>>

-----------------------------------------------------------------------------
(* The sentinel arrives and handle_udp_tunnel makes its socket, or fails to   *)
(* and the server closes the connection.                                     *)
ServerStart ==
    /\ srv = "none" /\ tun # "none" /\ ~severed
    /\ srv' \in {"run", "done"}
    /\ UNCHANGED <<stage, direct, control, tun, sock, listed, stop, addr, uq, dq, flow, buf, sent,
                   read, told, quiet, severed>>

(* _tunnel_to_target, one record; a target that is a name is dropped.        *)
ToTarget ==
    /\ srv = "run" /\ flow["client"] # <<>>
    /\ Feed("server", Head(flow["client"]))
    /\ flow' = [flow EXCEPT !["client"] = Tail(@)]
    /\ quiet' = [quiet EXCEPT !["server"] = FALSE]
    /\ UNCHANGED <<stage, direct, control, tun, sock, listed, stop, addr, uq, dq, sent, told, srv,
                   severed>>

TargetSends ==
    /\ srv = "run" /\ read["server"] # <<>> /\ Len(sent["server"]) + Len(dq) < MaxSent
    /\ dq' = IF Len(dq) < QueueMax THEN Append(dq, "datagram") ELSE dq
    /\ UNCHANGED <<stage, direct, control, tun, sock, listed, stop, addr, uq, flow, buf, sent,
                   read, told, srv, quiet, severed>>

FromTarget ==
    /\ srv = "run" /\ dq # <<>>
    /\ dq' = Tail(dq)
    /\ quiet' = [quiet EXCEPT !["server"] = FALSE]
    /\ SendFrame("server")
    /\ UNCHANGED <<stage, direct, control, tun, sock, listed, addr, uq, buf, read, told, srv,
                   severed>>

ServerStops ==
    /\ srv = "run" /\ ~stop["server"]
    /\ \/ flow["client"] = <<>> /\ (severed \/ tun = "closed")
       \/ quiet["server"]
    /\ stop' = [stop EXCEPT !["server"] = TRUE]
    /\ UNCHANGED <<stage, direct, control, tun, sock, listed, addr, uq, dq, flow, buf, sent, read,
                   told, srv, quiet, severed>>

ServerOver ==
    /\ srv = "run" /\ stop["server"]
    /\ srv' = "done"
    /\ UNCHANGED <<stage, direct, control, tun, sock, listed, stop, addr, uq, dq, flow, buf, sent,
                   read, told, quiet, severed>>

Idle(e) ==
    /\ ~quiet[e]
    /\ quiet' = [quiet EXCEPT ![e] = TRUE]
    /\ UNCHANGED <<stage, direct, control, tun, sock, listed, stop, addr, uq, dq, flow, buf, sent,
                   read, told, srv, severed>>

Sever ==
    /\ tun = "open" /\ ~severed
    /\ severed' = TRUE /\ flow' = [e \in Sides |-> <<>>]
    /\ UNCHANGED <<stage, direct, control, tun, sock, listed, stop, addr, uq, dq, buf, sent, read,
                   told, srv, quiet>>

-----------------------------------------------------------------------------
SetUp == Dispatch \/ DispatchFails \/ Start \/ Reply \/ SetUpFails
Client == Uplink \/ Downlink \/ DirectReply \/ ClientStops \/ RunOver \/ DispatchFinally
Server == ServerStart \/ ToTarget \/ FromTarget \/ ServerStops \/ ServerOver
Environment == \/ \E p \in Ports : AppSend(p)
               \/ \E e \in Sides : Idle(e)
               \/ AppCloses \/ TargetSends \/ Sever

UdpNext == SetUp \/ Client \/ Server \/ Environment

UdpSpec == UdpInit /\ [][UdpNext]_udpVars

(* Tasks that can run do; the set-up calls return.                           *)
UdpFairness ==
    /\ WF_udpVars(Start \/ Reply \/ SetUpFails)
    /\ WF_udpVars(ClientStops) /\ WF_udpVars(RunOver) /\ WF_udpVars(DispatchFinally)
    /\ WF_udpVars(ToTarget) /\ WF_udpVars(ServerStops) /\ WF_udpVars(ServerOver)

-----------------------------------------------------------------------------
(* However the tunnel cuts the frames, each end parses exactly the frames    *)
(* the other has sent, in order and whole: its buffer never loses the frame  *)
(* boundary (udp_relay.py:141-168).                                          *)
FramesWhole ==
    \A e \in Sides : LET s == sent[Other(e)] IN
        ~direct => /\ Len(read[e]) <= Len(s)
                   /\ \A i \in DOMAIN read[e] : read[e][i] = Frame(i, s[i])

(* When the application closes its control connection or the tunnel fails,   *)
(* whichever step of the set-up or of the relay is under way, both ends come *)
(* to an end: the tunnel is closed, the association out of the registry, the *)
(* server's relay over (RFC 1928, section 7; client.py:175-268).             *)
Over == stage = "done" /\ tun # "open" /\ ~listed /\ srv # "run"
UdpEnds == ~control \/ severed ~> Over
=============================================================================
