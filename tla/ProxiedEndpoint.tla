--------------------------- MODULE ProxiedEndpoint ---------------------------
(***************************************************************************)
(* A QUIC endpoint behind UDP load balancers (udp.rs): the socket strips   *)
(* the PROXY header of every datagram a trusted proxy forwards             *)
(* (ProxiedSocket, Flows), publishes the clients they name                 *)
(* (ProxiedClients), and a connection takes its client from there          *)
(* (ProxiedPeer).  The counts of dropped datagrams are for the log alone,  *)
(* and left out.                                                           *)
(***************************************************************************)
EXTENDS ProxyProtocol, FiniteSets, Functions

CONSTANTS Peers,          \* addresses datagrams come from
          WrittenPrefixes,   \* the trusted networks as they are written: <<address, length>>
          SingleBuffers, GroBuffers,   \* what one receive may bring: datagrams of a header and a payload
          MaxFlows, FlowTimeout, SweepInterval,
          MaxTime         \* bound

VARIABLES now,
          byPeer, lastSweep,   \* Flows
          clients,             \* ProxiedClients
          received,            \* the last receive from one address, and what Quinn reads of it
          conn,                \* a connection: its remote address, ProxiedPeer::last, and (ghost) whom the
                               \* headers had named when that was looked up
          named                \* ghost: what the last valid header of each address named

endpointVars == <<now, byPeer, lastSweep, clients, received, conn, named>>

Empty == [x \in {} |-> 0]
Trusted == {NewPrefix(w[1], w[2]) : w \in WrittenPrefixes}
Nowhere == Addr("none", 0)
NoConn == [remote |-> Nowhere, peer |-> Nowhere, client |-> "none", named |-> "none"]
Nothing == [from |-> Nowhere, sent |-> <<>>, bytes |-> <<>>, stride |-> 0]

Init ==
    /\ now = 0 /\ byPeer = Empty /\ lastSweep = <<>> /\ clients = Empty
    /\ received = Nothing /\ conn = NoConn /\ named = Empty

(* Quinn reads what it received before anything else: no other step looks at it. *)
QuinnReads ==
    /\ received # Nothing /\ received' = Nothing
    /\ UNCHANGED <<now, byPeer, lastSweep, clients, conn, named>>

Tick ==
    /\ received = Nothing /\ now < MaxTime /\ now' = now + 1
    /\ UNCHANGED <<byPeer, lastSweep, clients, received, conn, named>>

-----------------------------------------------------------------------------
Bytes(d) == d.header \o d.payload
Forgotten(peer) == <<peer, "none">>
Put(f, x, v) == [y \in DOMAIN f \cup {x} |-> IF y = x THEN v ELSE f[y]]

(* The client a header names, an IPv4-mapped address as IPv4. *)
Canonical(source) == IF source = "mapped a" THEN "a" ELSE source

(* Flows::header: flows is by_peer, the changes to publish, and whether the datagram is refused. *)
Header(flows, parsed, peer) ==
    LET known == peer \in DOMAIN flows.byPeer
        client == Canonical(parsed.source)
        seen == Put(flows.byPeer, peer, [client |-> client, seen |-> now])
        changed == IF known THEN flows.byPeer[peer].client # client ELSE client # "none"
    IN  IF parsed.is # "complete" \/ (~known /\ Cardinality(DOMAIN flows.byPeer) >= MaxFlows)
        THEN [flows EXCEPT !.len = 0]
        ELSE [flows EXCEPT !.byPeer = seen, !.len = parsed.len,
                           !.changes = IF changed THEN Append(@, <<peer, client>>) ELSE @]

(* Only the last datagram may be shorter than the stride, and an empty one has nothing to keep. *)
Fits(payload, stride, last) ==
    payload > 0 /\ (stride = 0 \/ payload = stride \/ (last /\ payload < stride))

(* Flows::strip: the payloads of the datagrams with a valid header, moved together. *)
Move(acc, after, datagram, last) ==
    LET payload == SubSeq(datagram, after.len + 1, Len(datagram))
        fits == after.len # 0 /\ Fits(Len(payload), acc.stride, last)
    IN  [flows |-> after,
         bytes |-> IF fits THEN acc.bytes \o payload ELSE acc.bytes,
         stride |-> IF fits /\ acc.stride = 0 THEN Len(payload) ELSE acc.stride]
Strip(flows, buffer, peer) ==
    LET step(acc, i) == Move(acc, Header(acc.flows, ParseDatagram(Bytes(buffer[i])), peer),
                             Bytes(buffer[i]), i = Len(buffer))
    IN  FoldLeft(step, [flows |-> flows, bytes |-> <<>>, stride |-> 0],
                 [i \in DOMAIN buffer |-> i])

(* ProxiedClients::apply *)
Apply(changes) ==
    FoldLeft(LAMBDA c, change : IF change[2] = "none" THEN Restrict(c, DOMAIN c \ {change[1]})
                                ELSE Put(c, change[1], change[2]),
             clients, changes)

(* A sweep that forgets an address and leaves its client published. *)
SweepSilently(flows) ==
    IF lastSweep # <<>> /\ now - lastSweep[1] < SweepInterval THEN flows
    ELSE LET live == {p \in DOMAIN flows.byPeer : now - flows.byPeer[p].seen <= FlowTimeout}
         IN  [flows EXCEPT !.byPeer = Restrict(@, live)]
(* Flows::finish, its sweep: addresses that went quiet are forgotten, and their clients with them. *)
Sweep(flows) ==
    IF lastSweep # <<>> /\ now - lastSweep[1] < SweepInterval THEN flows
    ELSE LET live == {p \in DOMAIN flows.byPeer : now - flows.byPeer[p].seen <= FlowTimeout}
             gone == {p \in DOMAIN flows.byPeer \ live : flows.byPeer[p].client # "none"}
         IN  [flows EXCEPT !.byPeer = Restrict(@, live),
                           !.changes = @ \o SetToSeq({Forgotten(p) : p \in gone})]

(* ghost: what the last valid header of a buffer from peer names. *)
Naming(buffer) ==
    SelectSeq([i \in DOMAIN buffer |-> ParseDatagram(Bytes(buffer[i]))], LAMBDA p : p.is = "complete")
Named(peer, headers) ==
    IF headers = <<>> THEN named ELSE Put(named, peer, Canonical(Last(headers).source))

(* ProxiedSocket::poll_recv, for one buffer from peer: what Quinn reads, and Flows::finish. *)
Finish(flows) ==
    /\ byPeer' = flows.byPeer /\ clients' = Apply(flows.changes)
    /\ lastSweep' = IF lastSweep # <<>> /\ now - lastSweep[1] < SweepInterval THEN lastSweep ELSE <<now>>
Receive(peer, buffer, read, stride) ==
    received' = [from |-> peer, sent |-> buffer, bytes |-> read,
                 stride |-> IF stride = 0 THEN Len(Bytes(buffer[1])) ELSE stride]
ReceiveStripped(peer, buffer, stripped) ==
    /\ Receive(peer, buffer, stripped.bytes, stripped.stride)
    /\ Finish(Sweep(stripped.flows))
    /\ named' = Restrict(Named(peer, Naming(buffer)), DOMAIN byPeer')
    /\ UNCHANGED <<now, conn>>
PollRecv(peer, buffer) ==
    IF Trusts(Trusted, peer)
    THEN ReceiveStripped(peer, buffer, Strip([byPeer |-> byPeer, changes |-> <<>>, len |-> 0], buffer, peer))
    ELSE /\ Receive(peer, buffer, FlattenSeq([i \in DOMAIN buffer |-> Bytes(buffer[i])]), 0)
         /\ UNCHANGED <<now, byPeer, lastSweep, clients, conn, named>>

-----------------------------------------------------------------------------
(* client_of, or the address itself. *)
ClientOf(peer) == IF peer \in DOMAIN clients THEN clients[peer] ELSE "itself"
NamedBy(peer) == IF peer \in DOMAIN named /\ named[peer] # "none" THEN named[peer] ELSE "itself"

(* ProxiedPeer::new, when the handshake is complete; and the path of a connection may change. *)
Handshake(peer) ==
    /\ received = Nothing /\ conn = NoConn
    /\ conn' = [remote |-> peer, peer |-> peer, client |-> ClientOf(peer), named |-> NamedBy(peer)]
    /\ UNCHANGED <<now, byPeer, lastSweep, clients, received, named>>
Migrate(peer) ==
    /\ received = Nothing /\ conn # NoConn /\ conn.remote # peer
    /\ conn' = [conn EXCEPT !.remote = peer]
    /\ UNCHANGED <<now, byPeer, lastSweep, clients, received, named>>

(* ProxiedPeer::client_addr, as a request asks for it. *)
ClientAddr ==
    /\ received = Nothing /\ conn # NoConn /\ conn.peer # conn.remote
    /\ conn' = [conn EXCEPT !.peer = conn.remote, !.client = ClientOf(conn.remote),
                            !.named = NamedBy(conn.remote)]
    /\ UNCHANGED <<now, byPeer, lastSweep, clients, received, named>>

(* Bound: buffers of several datagrams come first only, as stripping depends on little else. *)
Received(peer) ==
    /\ received = Nothing
    /\ \/ \E b \in SingleBuffers : PollRecv(peer, b)
       \/ lastSweep = <<>> /\ now = 0 /\ conn = NoConn /\ \E b \in GroBuffers : PollRecv(peer, b)
Next ==
    \/ QuinnReads \/ Tick \/ ClientAddr
    \/ \E peer \in Peers : Handshake(peer) \/ Migrate(peer) \/ Received(peer)

-----------------------------------------------------------------------------
(* The clients connections are given are those of the addresses the socket remembers, each the one *)
(* its last valid header named: publishing only what changed, and forgetting what went quiet,      *)
(* never leaves the one table behind the other (Flows::header, finish, ProxiedClients::apply).  A  *)
(* connection keeps the client that the headers from its address named when it looked, and whom    *)
(* they name later does not move it (ProxiedPeer).                                                 *)
ClientsFollowHeaders ==
    /\ DOMAIN clients = {p \in DOMAIN byPeer : byPeer[p].client # "none"}
    /\ \A p \in DOMAIN clients : clients[p] = byPeer[p].client
    /\ \A p \in DOMAIN byPeer : byPeer[p].client = named[p]
    /\ Cardinality(DOMAIN byPeer) <= MaxFlows
    /\ conn.client = conn.named

Pieces ==
    LET n == Len(received.bytes) stride == received.stride
    IN  [k \in 1..((n + stride - 1) \div stride) |->
            SubSeq(received.bytes, (k - 1) * stride + 1, IF k * stride < n THEN k * stride ELSE n)]

(* The addresses of a network as it is written, and a whole header that its sender got right. *)
Network(w) ==
    {CanonicalAddr(a) : a \in {b \in Addresses : b.family = w[1].family /\ Masked(b, w[2]) = Masked(w[1], w[2])}}
WellFormed(header) ==
    header # <<>> /\ LET fixed == header[V2HeaderLen]
                     IN  fixed.version = 2 /\ Len(header) = V2HeaderLen + fixed.len
                         /\ (fixed.command = "proxy" => fixed.len >= BlockLen[fixed.family])

(* What Quinn cuts a receive buffer into are whole payloads, each of one datagram with a valid     *)
(* header, in the order they came, and the first such payload is always among them; what another   *)
(* address sends is not touched (ProxiedSocket::poll_recv, Flows::strip).                          *)
PayloadsAreWhole ==
    received.sent # <<>> =>
        LET sent == received.sent
            headed == {i \in DOMAIN sent : WellFormed(sent[i].header) /\ sent[i].payload # <<>>}
            trusted == \E w \in WrittenPrefixes : CanonicalAddr(received.from) \in Network(w)
        IN  IF ~trusted THEN Pieces = [i \in DOMAIN sent |-> Bytes(sent[i])]
            ELSE /\ \E at \in [DOMAIN Pieces -> headed] :
                       /\ \A k \in DOMAIN Pieces : Pieces[k] = sent[at[k]].payload
                       /\ \A k, l \in DOMAIN Pieces : k < l => at[k] < at[l]
                 /\ (headed # {} /\ received.from \in DOMAIN byPeer) => Pieces # <<>>

=============================================================================
