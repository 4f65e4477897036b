------------------------------ MODULE MCServe ------------------------------
(* The connection layer of a server, for TLC: accepting, draining and shutting down (Serve), how   *)
(* one of its calls hears of the shutdown (ServerCall, under fairness), and how connections and    *)
(* datagrams from trusted proxies come in (ProxiedStream, ProxiedEndpoint, ProxyProtocol), and     *)
(* which attempts must validate their address (RetryPolicy).  They have no state in common here,   *)
(* so a behaviour is about one of them, its focus.                                                 *)
EXTENDS Serve, ProxyProtocol, RetryPolicy

CONSTANTS RPC, MaxChunk, MaxFlows, FlowTimeout, SweepInterval, MaxTime

VARIABLES focus
VARIABLES callPhase, streamSlots, requestSlots, started, finished, recorded, intercepted, returned,
          ran, completion, code, token, failure, stopped, sent, wire, shuttingDown, connectionLost,
          draining, timedOut
VARIABLES coming, whole, buf, outcome, prefix, yielded
VARIABLES now, byPeer, lastSweep, clients, received, conn, named

callVars == <<callPhase, streamSlots, requestSlots, started, finished, recorded, intercepted, returned,
              ran, completion, code, token, failure, stopped, sent, wire, shuttingDown, connectionLost,
              draining, timedOut>>
proxiedVars == <<coming, whole, buf, outcome, prefix, yielded>>
endpointVars == <<now, byPeer, lastSweep, clients, received, conn, named>>
mcVars == <<focus, vars, callVars, proxiedVars, endpointVars, retryVars>>

Data(n) == [i \in 1..n |-> [kind |-> "data", n |-> i]]
Block(n) == [i \in 1..n |-> Unit("block")]
Line == <<Unit("cr"), Unit("lf")>>

(* What a proxy sends: a header of either version, or something else, then data. *)
Arrivals ==
    {V2Signature \o <<fixed>> \o Block(fixed.len) \o Data(2) :
        fixed \in {Fixed(v, c, f, t, n, "client") :
            v \in {1, 2}, c \in {"local", "proxy", "other"}, f \in {"v4", "v6", "unix"},
            t \in {"stream", "datagram"}, n \in 0..2}}
    \cup {V1Prefix \o <<Fields(p, ok, "client")>> \o more \o Line \o Data(2) :
        p \in {"TCP4", "TCP6", "UNKNOWN", "other"}, ok \in BOOLEAN, more \in {<<>>, Block(1), Block(2)}}
    \cup {<<Unit("s1")>> \o Data(2), <<Unit("p1")>> \o Data(2), Data(2)}

(* What a proxy sends: a version 2 header, for IPv4 or IPv6 or LOCAL, one of another version or    *)
(* with too short an address, or none, and a payload whose units tell where it came from.          *)
Payload(i, n) == [u \in 1..n |-> [kind |-> "data", of |-> i, u |-> u]]
Headers == {V2Signature \o <<Fixed(2, "proxy", "v4", "datagram", 1, a), Unit("block")>> : a \in {"a", "b"}}
           \cup {V2Signature \o <<Fixed(2, "proxy", "v6", "datagram", 2, "mapped a"), Unit("block"), Unit("block")>>,
                 V2Signature \o <<Fixed(2, "local", "v4", "datagram", 0, "none")>>, <<>>,
                 V2Signature \o <<Fixed(1, "proxy", "v4", "datagram", 1, "b"), Unit("block")>>,
                 V2Signature \o <<Fixed(2, "proxy", "v6", "datagram", 1, "b"), Unit("block")>>}
Datagram(i, header, n) == [header |-> header, payload |-> Payload(i, n)]
Size(d) == Len(d.header) + Len(d.payload)
Datagrams(i) == {d \in {Datagram(i, h, n) : h \in Headers, n \in 0..3} : Size(d) <= 6}

(* One buffer: with GRO it holds several datagrams of one length, the last of them maybe shorter. *)
SingleBuffers == {<<d>> : d \in {e \in Datagrams(1) : Len(e.payload) = 1 \/ Size(e) = V2HeaderLen}}
GroBuffers ==
    {<<d, e>> : d \in {x \in Datagrams(1) : Size(x) = 6},
                e \in {x \in Datagrams(2) : Size(x) \in 1..6}}
    \cup {<<d, e, f>> : d \in {x \in Datagrams(1) : Size(x) = 6},
                        e \in {x \in Datagrams(2) : Size(x) = 6},
                        f \in {x \in Datagrams(3) : Size(x) \in 5..6}}

(* Two trusted networks, of one address written as IPv4-mapped IPv6 and of two, and an address     *)
(* outside.                                                                                        *)
Peers == {Addr("v6", 5), Addr("v4", 2), Addr("v4", 3), Addr("v6", 2)}
WrittenPrefixes == {<<Addr("v6", 5), 4>>, <<Addr("v4", 2), 1>>}

Call == INSTANCE ServerCall WITH
    phase <- callPhase, Calls <- {RPC}, Streaming <- {RPC}, Answered <- {RPC},
    StreamLimit <- 1, Others <- 1, RequestLimit <- 1, Interceptors <- 1, Finishing <- {TRUE}
Proxied == INSTANCE ProxiedStream
Udp == INSTANCE ProxiedEndpoint

NoStream == Proxied!StartWith({<<>>})
NoAttempts == RetryStart({"off"})

MCInit ==
    /\ Init /\ Call!Init /\ Udp!Init
    /\ \/ focus \in {"serve", "call", "udp"} /\ NoStream /\ NoAttempts
       \/ focus = "stream" /\ Proxied!Init /\ NoAttempts
       \/ focus = "retry" /\ RetryInit /\ NoStream

OfServe(action) ==
    focus = "serve" /\ action /\ UNCHANGED <<focus, callVars, proxiedVars, endpointVars, retryVars>>
OfCall(action) ==
    focus = "call" /\ action /\ UNCHANGED <<focus, vars, proxiedVars, endpointVars, retryVars>>
MCNext ==
    \/ OfServe(Next)
    \/ OfCall(Call!Next)
    \/ focus = "stream" /\ Proxied!Next /\ UNCHANGED <<focus, vars, callVars, endpointVars, retryVars>>
    \/ focus = "udp" /\ Udp!Next /\ UNCHANGED <<focus, vars, callVars, proxiedVars, retryVars>>
    \/ focus = "retry" /\ RetryNext /\ UNCHANGED <<focus, vars, callVars, proxiedVars, endpointVars>>
    \/ focus # "serve" /\ UNCHANGED mcVars

(* The fairness of Serve and ServerCall, each for its own behaviours. *)
MCFairness ==
    /\ WF_vars(focus = "serve" /\ Drained)
    /\ \A c \in Connections :
        /\ WF_vars(focus = "serve" /\ Reacts(c))
        /\ \A s \in Streams : WF_vars(focus = "serve" /\ StreamReacts(c, s))
    /\ WF_callVars(focus = "call" /\ Call!Reads(RPC)) /\ WF_callVars(focus = "call" /\ Call!Ends(RPC))
    /\ WF_callVars(focus = "call" /\ Call!Responds(RPC))
    /\ WF_callVars(focus = "call" /\ Call!WriteFails(RPC))
    /\ WF_callVars(focus = "call" /\ Call!DropSlots(RPC))
MCSpec == MCInit /\ [][MCNext]_mcVars /\ MCFairness

(* A PROXY header means the same however the network cuts it (proxy_protocol.rs read_header); the  *)
(* clients connections are given are those the last headers named, and Quinn reads whole payloads  *)
(* of datagrams with a valid header and no others (udp.rs Flows).                                  *)
ProxiesAreRead ==
    /\ focus = "stream" => Proxied!CutsDoNotMatter
    /\ focus = "udp" => Udp!ClientsFollowHeaders /\ Udp!PayloadsAreWhole

(* A shutdown without a timeout ends unless a peer or a handler holds a connection up (serve.rs    *)
(* drain_connections and the loops below it), and after it every call ends that is not held up by  *)
(* its authorizer or by a write (server_transport.rs, the biased selects).                         *)
ShutdownEnds ==
    /\ focus = "serve" => ShutdownReturns
    /\ focus = "call" => Call!ShutdownEndsCalls

=============================================================================
