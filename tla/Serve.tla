------------------------------- MODULE Serve -------------------------------
(***************************************************************************)
(* The server's connection layer (serve.rs, tcp.rs, native.rs, http1.rs,   *)
(* http2.rs, http3.rs, websocket.rs): serve_sources accepts QUIC and TCP   *)
(* connections under one connection limit and runs a task for each.  The   *)
(* task shakes hands, is dispatched on its ALPN, and loops accepting       *)
(* streams under the connection's stream limit, one task per stream, until *)
(* the peer goes or the server shuts down.  Then every level drains what   *)
(* it spawned, and aborts it when the graceful shutdown timeout runs out.  *)
(*                                                                         *)
(* The shutdown is a watch channel.  A receiver that has consumed the      *)
(* change is not woken by it again, and neither is a clone made from it    *)
(* afterwards, so `seen' and `deaf' keep who still hears the shutdown.     *)
(* What a call does between its request and its end is ServerCall's.       *)
(***************************************************************************)
EXTENDS Naturals, FiniteSets

CONSTANTS
    Connections,     \* the connections that may arrive
    Streams,         \* the streams each may open
    MaxConnections,  \* max_concurrent_connections
    MaxStreams,      \* max_concurrent_streams_per_connection
    Protocols        \* the ALPNs that handshakes may negotiate

ASSUME LimitsAssumption == MaxConnections \in Nat \ {0} /\ MaxStreams \in Nat

VARIABLES
    phase,     \* where serve_sources is: "accepting", "draining" or "returned"
    task,      \* where the task of each connection is
    protocol,  \* what each connection speaks: `native' is native QUIC, QMux and an upgraded
               \* WebSocket, `session' the WebTransport loop of an HTTP/3 connection, and
               \* `upgrade' an HTTP/1.1 one whose 101 response is queued
    permits,   \* the connections that hold a connection permit
    seen,      \* the connections whose receiver consumed the shutdown
    lost,      \* the connections whose transport ended
    streams,   \* where the task of each stream is
    holding,   \* for each connection, the streams that hold a stream permit
    deaf,      \* for each connection, the calls that never hear the shutdown
    prior      \* for each connection, the requests spawned before its session

vars == <<phase, task, protocol, permits, seen, lost, streams, holding, deaf, prior>>
server == <<phase, permits>>
inside == <<streams, holding, deaf, prior>>

Waiting == {"handshake", "setup"}
Live == Waiting \cup {"serving", "head", "refusing", "joining", "leaving", "parting", "draining"}
Counted == {"heading", "reading", "running", "writing", "fallback"}
Busy == Counted \cup {"resolving", "closing"}

Init ==
    /\ phase = "accepting"
    /\ task = [c \in Connections |-> "new"]
    /\ protocol = [c \in Connections |-> "none"]
    /\ permits = {} /\ seen = {} /\ lost = {}
    /\ streams = [c \in Connections |-> [s \in Streams |-> "none"]]
    /\ holding = [c \in Connections |-> {}]
    /\ deaf = [c \in Connections |-> {}]
    /\ prior = [c \in Connections |-> {}]

Shutdown == phase # "accepting"

Go(c, there) == task' = [task EXCEPT ![c] = there]

Settled(c, ss) == \A s \in ss : streams[c][s] \notin Busy

-----------------------------------------------------------------------------
(* The end of a connection's task, however it ends: what it owns is dropped. *)

\* The stream tasks `ss' of c are aborted, and their permits dropped.
Abort(c, ss) ==
    /\ streams' = [streams EXCEPT ![c] = [s \in Streams |->
           IF s \in ss /\ @[s] \in Busy THEN "over" ELSE @[s]]]
    /\ holding' = [holding EXCEPT ![c] = @ \ ss]

Forget(c) ==
    /\ protocol' = [protocol EXCEPT ![c] = "none"]
    /\ seen' = seen \ {c} /\ lost' = lost \ {c}
    /\ deaf' = [deaf EXCEPT ![c] = {}] /\ prior' = [prior EXCEPT ![c] = {}]

EndsKeepingItsPermit(c) == Go(c, "over") /\ Forget(c) /\ UNCHANGED permits

Ends(c) == Go(c, "over") /\ Forget(c) /\ permits' = permits \ {c}

-----------------------------------------------------------------------------
(* serve_sources: the accept loop. *)

\* A connection arrives, over QUIC or TCP.  (A QUIC address that must be
\* validated first is told to come back, which changes nothing here.)
AcceptConnection(c) ==
    /\ phase = "accepting" /\ task[c] = "new"
    /\ IF Cardinality(permits) < MaxConnections
       THEN permits' = permits \cup {c} /\ Go(c, "handshake")
       ELSE permits' = permits /\ Go(c, "refused")
    /\ UNCHANGED <<phase, protocol, seen, lost, inside>>

\* The shutdown future completes, or the endpoint is closed: the TCP listener
\* is dropped and every task is told.
BeginShutdown ==
    /\ phase = "accepting" /\ phase' = "draining"
    /\ UNCHANGED <<task, protocol, permits, seen, lost, inside>>

\* drain_connections refuses what arrives meanwhile ...
RefuseWhileDraining(c) ==
    /\ phase = "draining" /\ task[c] = "new"
    /\ Go(c, "refused")
    /\ UNCHANGED <<server, protocol, seen, lost, inside>>

\* ... until every task has ended ...
Drained ==
    /\ phase = "draining" /\ \A c \in Connections : task[c] \notin Live
    /\ phase' = "returned"
    /\ UNCHANGED <<task, protocol, permits, seen, lost, inside>>

\* ... or graceful_shutdown_timeout, which may pass at any time and without
\* which none does, aborts them, and with each its streams.
DrainTimesOut ==
    /\ phase = "draining"
    /\ phase' = "returned"
    /\ task' = [c \in Connections |-> IF task[c] \in Live THEN "over" ELSE task[c]]
    /\ permits' = {}
    /\ streams' = [c \in Connections |-> [s \in Streams |->
           IF streams[c][s] \in Busy THEN "over" ELSE streams[c][s]]]
    /\ holding' = [c \in Connections |-> {}]
    /\ UNCHANGED <<protocol, seen, lost, deaf, prior>>

-----------------------------------------------------------------------------
(* A connection's task before it serves. *)

\* Where a loop that looks at the shutdown before each select goes next;
\* HTTP/1.1 and HTTP/2 only react to the change itself.
LoopTop(p) ==
    IF p \in {"http1", "http2"} \/ ~Shutdown THEN "serving"
    ELSE IF p = "session" THEN "parting" ELSE "draining"

\* The handshake completes and the connection is dispatched on its ALPN.
Handshake(c, p) ==
    /\ task[c] = "handshake"
    /\ IF p = "other" THEN Ends(c)
       ELSE /\ protocol' = [protocol EXCEPT ![c] = p]
            /\ Go(c, IF p \in {"native", "http1"} THEN LoopTop(p) ELSE "setup")
            /\ UNCHANGED <<permits, seen, lost, deaf, prior>>
    /\ UNCHANGED <<phase, streams, holding>>

SetupDone(c) ==
    /\ task[c] = "setup" /\ protocol[c] # "acme"
    /\ LET p == IF protocol[c] = "qmux" THEN "native" ELSE protocol[c]
       IN protocol' = [protocol EXCEPT ![c] = p] /\ Go(c, LoopTop(p))
    /\ UNCHANGED <<server, seen, lost, inside>>

\* A handshake or setup fails or times out; an ACME challenge has no more to it.
WaitEnds(c) ==
    /\ task[c] \in Waiting
    /\ Ends(c)
    /\ UNCHANGED <<phase, streams, holding>>

\* unless_shutting_down: these waits, and no others, end at the shutdown.
WaitAbandoned(c) ==
    /\ Shutdown /\ task[c] \in Waiting
    /\ protocol[c] \in {"none", "qmux", "http2"}
    /\ Ends(c)
    /\ UNCHANGED <<phase, streams, holding>>

-----------------------------------------------------------------------------
(* The loops that accept streams. *)

\* An HTTP/3 request first has its response head written.
Spawn(c, s, first, quiet) ==
    LET free == Cardinality(holding[c]) < MaxStreams
    IN /\ streams' = [streams EXCEPT ![c][s] = IF free THEN first ELSE "closing"]
       /\ holding' = [holding EXCEPT ![c] = IF free THEN @ \cup {s} ELSE @]
       /\ deaf' = [deaf EXCEPT ![c] = IF quiet THEN @ \cup {s} ELSE @]

\* native.rs: a bidirectional stream is an RPC.
AcceptNative(c, s) ==
    /\ task[c] = "serving" /\ protocol[c] = "native"
    /\ c \notin lost /\ streams[c][s] = "none"
    /\ Spawn(c, s, "reading", FALSE) /\ Go(c, LoopTop("native"))
    /\ UNCHANGED <<server, protocol, seen, lost, prior>>

\* http2.rs goes on accepting while it drains; a request it accepts then has a
\* receiver that has already seen the shutdown.
AcceptHttp2(c, s) ==
    /\ task[c] = "serving" /\ protocol[c] = "http2"
    /\ c \notin lost /\ streams[c][s] = "none"
    /\ \/ Cardinality(holding[c]) < MaxStreams /\ Spawn(c, s, "reading", c \in seen)
       \/ /\ Cardinality(holding[c]) >= MaxStreams
          /\ streams' = [streams EXCEPT ![c][s] = "over"]
          /\ UNCHANGED <<holding, deaf>>
    /\ UNCHANGED <<server, task, protocol, seen, lost, prior>>

\* http1.rs serves one request at a time, inside the connection's own future,
\* and without a permit.
RequestHttp1(c, s) ==
    /\ task[c] = "serving" /\ protocol[c] = "http1"
    /\ c \notin lost \cup seen /\ streams[c][s] = "none" /\ Settled(c, Streams)
    /\ streams' = [streams EXCEPT ![c][s] = "fallback"]
    /\ UNCHANGED <<server, task, protocol, seen, lost, holding, deaf, prior>>

\* websocket.rs queues an admitted upgrade, which is the last request.
Upgrade(c) ==
    /\ task[c] = "serving" /\ protocol[c] = "http1"
    /\ c \notin lost \cup seen /\ Settled(c, Streams)
    /\ protocol' = [protocol EXCEPT ![c] = "upgrade"]
    /\ UNCHANGED <<server, task, seen, lost, inside>>

Http1Ends(c) ==
    /\ task[c] = "serving"
    /\ \/ /\ protocol[c] = "upgrade" /\ c \notin lost
          /\ protocol' = [protocol EXCEPT ![c] = "native"]
          /\ Go(c, LoopTop("native")) /\ UNCHANGED <<permits, seen, lost, inside>>
       \/ /\ protocol[c] \in {"http1", "upgrade"}
          /\ c \in lost \/ (protocol[c] = "http1" /\ Settled(c, Streams))
          /\ Abort(c, Streams) /\ Ends(c)
    /\ UNCHANGED phase

\* http3.rs waits for the head of one request at a time.
AcceptHttp3(c) ==
    /\ task[c] = "serving" /\ protocol[c] = "http3" /\ c \notin lost
    /\ Go(c, "head")
    /\ UNCHANGED <<server, protocol, seen, lost, inside>>

\* A head arrives: an ordinary request, a WebTransport CONNECT that is refused
\* in the loop, or one that is admitted.
Http3Head(c, s) ==
    /\ task[c] = "head" /\ streams[c][s] = "none"
    /\ Spawn(c, s, "heading", FALSE) /\ Go(c, LoopTop("http3"))
    /\ UNCHANGED <<server, protocol, seen, lost, prior>>

Http3Connect(c) ==
    /\ task[c] = "head"
    /\ Go(c, "refusing") \/ Go(c, "joining")
    /\ UNCHANGED <<server, protocol, seen, lost, inside>>

\* The head fails or times out, or the refusal is written.
Http3Continues(c) ==
    /\ task[c] \in {"head", "refusing"}
    /\ Go(c, LoopTop("http3"))
    /\ UNCHANGED <<server, protocol, seen, lost, inside>>

\* The session begins; its stream tasks are kept apart from the requests'.
\* One that cannot be established ends the loop.
Join(c) ==
    /\ task[c] = "joining"
    /\ \/ /\ protocol' = [protocol EXCEPT ![c] = "session"]
          /\ prior' = [prior EXCEPT ![c] = {s \in Streams : streams[c][s] # "none"}]
          /\ Go(c, LoopTop("session"))
       \/ Go(c, "draining") /\ UNCHANGED <<protocol, prior>>
    /\ UNCHANGED <<server, seen, lost, streams, holding, deaf>>

\* The session tells its streams from ordinary requests in tasks of their own.
AcceptSession(c, s) ==
    /\ task[c] = "serving" /\ protocol[c] = "session"
    /\ c \notin lost /\ streams[c][s] = "none"
    /\ streams' = [streams EXCEPT ![c][s] = "resolving"]
    /\ Go(c, LoopTop("session"))
    /\ UNCHANGED <<server, protocol, seen, lost, holding, deaf, prior>>

\* Either is served; a stream of another session is reset, and one whose first
\* frame is late is dropped.
Resolve(c, s) ==
    /\ task[c] = "serving" /\ streams[c][s] = "resolving"
    /\ \/ \E first \in {"heading", "reading"} : Spawn(c, s, first, FALSE)
       \/ streams' = [streams EXCEPT ![c][s] = "over"] /\ UNCHANGED <<holding, deaf>>
    /\ Go(c, LoopTop("session"))
    /\ UNCHANGED <<server, protocol, seen, lost, prior>>

-----------------------------------------------------------------------------
(* How the loops end. *)

\* The change wakes the connection's select.  HTTP/2 sends GOAWAY and HTTP/1.1
\* turns keep-alive off, and both go on; HTTP/3 writes its GOAWAY, looking at
\* nothing else, and then leaves its loop as the others do at once.
SeesShutdown(c) ==
    /\ Shutdown /\ c \notin seen /\ task[c] \in {"serving", "head", "joining"}
    /\ seen' = seen \cup {c}
    /\ CASE protocol[c] \in {"http1", "upgrade", "http2"} -> UNCHANGED task
         [] protocol[c] = "session" -> Go(c, "parting")
         [] protocol[c] = "http3" /\ task[c] = "serving" -> Go(c, "leaving")
         [] OTHER -> Go(c, "draining")
    /\ UNCHANGED <<server, protocol, lost, inside>>

Http3Leaves(c) ==
    /\ task[c] = "leaving"
    /\ Go(c, "draining")
    /\ UNCHANGED <<server, protocol, seen, lost, inside>>

\* The transport ends: the peer closes it or goes silent.
Lose(c) ==
    /\ task[c] \in Live \ Waiting /\ c \notin lost
    /\ lost' = lost \cup {c}
    /\ UNCHANGED <<server, task, protocol, seen, inside>>

\* The accept of a native or HTTP/3 loop notices.
LoopEnds(c) ==
    /\ task[c] = "serving" /\ protocol[c] \in {"native", "http3"} /\ c \in lost
    /\ Go(c, "draining")
    /\ UNCHANGED <<server, protocol, seen, lost, inside>>

\* A session is closed by itself or with its connection.
SessionEnds(c) ==
    /\ task[c] = "serving" /\ protocol[c] = "session"
    /\ Go(c, "parting")
    /\ UNCHANGED <<server, protocol, seen, lost, inside>>

\* HTTP/2 closes after GOAWAY too, once its requests are done or its own
\* deadline has passed, and tells the requests still there.
Http2Ends(c) ==
    /\ task[c] = "serving" /\ protocol[c] = "http2"
    /\ c \in lost \cup seen
    /\ lost' = lost \cup {c} /\ Go(c, "draining")
    /\ UNCHANGED <<server, protocol, seen, inside>>

\* HTTP/1.1 past its own deadline drops the connection, response and all.
Http1TimesOut(c) ==
    /\ task[c] = "serving" /\ protocol[c] \in {"http1", "upgrade"} /\ c \in seen
    /\ Abort(c, Streams) /\ Ends(c)
    /\ UNCHANGED phase

-----------------------------------------------------------------------------
(* Draining a connection: drain_tasks on the session's tasks, then the rest. *)

\* The session's resolving tasks are aborted as its loop ends.
Part(c) ==
    LET resolving == {s \in Streams : streams[c][s] = "resolving"} IN
    /\ task[c] = "parting"
    /\ \/ Settled(c, Streams \ (prior[c] \cup resolving)) /\ Abort(c, resolving)
       \/ Abort(c, Streams \ prior[c])
    /\ Go(c, "draining")
    /\ UNCHANGED <<server, protocol, seen, lost, deaf, prior>>

Drain(c) ==
    /\ task[c] = "draining"
    /\ \/ Settled(c, Streams) /\ UNCHANGED <<streams, holding>>
       \/ Abort(c, Streams)
    /\ Ends(c)
    /\ UNCHANGED phase

-----------------------------------------------------------------------------
(* Stream tasks. *)

Move(c, s, there) == streams' = [streams EXCEPT ![c][s] = there]

DropSlot(c, s) == holding' = [holding EXCEPT ![c] = @ \ {s}]

Stay == UNCHANGED <<server, task, protocol, seen, lost, deaf, prior>>

\* The response head of an HTTP/3 request is written, or cannot be.
HeadWritten(c, s) ==
    /\ streams[c][s] = "heading"
    /\ \/ c \notin lost /\ Move(c, s, "reading") /\ UNCHANGED holding
       \/ Move(c, s, "over") /\ DropSlot(c, s)
    /\ Stay

\* The initial request is read, even in the poll that sees the shutdown; an
\* HTTP request for the fallback has none, and looks at nothing more.
ReadRequest(c, s) ==
    /\ \/ streams[c][s] = "reading" /\ Move(c, s, "running")
       \/ /\ \/ streams[c][s] = "heading"
             \/ streams[c][s] = "reading" /\ protocol[c] = "http2"
          /\ Move(c, s, "fallback")
    /\ Stay /\ UNCHANGED holding

\* The request is refused, unreadable or late, or the shutdown ends the wait:
\* the slot goes before the answer is written.
RejectRequest(c, s) ==
    /\ streams[c][s] \in {"heading", "reading"} /\ Move(c, s, "closing") /\ DropSlot(c, s)
    /\ Stay

\* A call writes messages of its response, and looks at nothing else meanwhile.
CallWrites(c, s) ==
    /\ streams[c][s] = "running" /\ Move(c, s, "writing")
    /\ Stay /\ UNCHANGED holding
CallWritten(c, s) ==
    /\ streams[c][s] = "writing"
    /\ \/ c \notin lost /\ Move(c, s, "running") /\ UNCHANGED holding
       \/ Move(c, s, "over") /\ DropSlot(c, s)
    /\ Stay

\* A call ends, and its slot goes before its status is written; or it is reset
\* or stopped, or a fallback's response has been written.
CallEnds(c, s) ==
    /\ \/ streams[c][s] = "running" /\ (Move(c, s, "closing") \/ Move(c, s, "over"))
       \/ streams[c][s] = "fallback" /\ Move(c, s, "over")
    /\ DropSlot(c, s) /\ Stay

\* The status is written, or cannot be.
Closed(c, s) ==
    /\ streams[c][s] = "closing" /\ Move(c, s, "over")
    /\ Stay /\ UNCHANGED holding

\* The shutdown resets a call that hears it, and so does the end of the
\* connection any call.
CallCut(c, s) ==
    /\ (Shutdown /\ s \notin deaf[c]) \/ c \in lost
    /\ streams[c][s] = "running" /\ Move(c, s, "over") /\ DropSlot(c, s)
    /\ Stay

-----------------------------------------------------------------------------
StreamNext(c, s) ==
    \/ AcceptNative(c, s) \/ AcceptHttp2(c, s) \/ RequestHttp1(c, s)
    \/ Http3Head(c, s) \/ AcceptSession(c, s) \/ Resolve(c, s)
    \/ HeadWritten(c, s) \/ ReadRequest(c, s) \/ RejectRequest(c, s)
    \/ CallWrites(c, s) \/ CallWritten(c, s) \/ CallEnds(c, s) \/ Closed(c, s) \/ CallCut(c, s)

ConnectionNext(c) ==
    \/ AcceptConnection(c) \/ RefuseWhileDraining(c)
    \/ \E p \in Protocols : Handshake(c, p)
    \/ SetupDone(c) \/ WaitEnds(c) \/ WaitAbandoned(c)
    \/ Upgrade(c) \/ Http1Ends(c) \/ Http1TimesOut(c)
    \/ AcceptHttp3(c) \/ Http3Connect(c) \/ Http3Continues(c) \/ Join(c)
    \/ SeesShutdown(c) \/ Http3Leaves(c) \/ Lose(c) \/ LoopEnds(c)
    \/ SessionEnds(c) \/ Http2Ends(c) \/ Part(c) \/ Drain(c)
    \/ \E s \in Streams : StreamNext(c, s)

Finished == phase = "returned" /\ UNCHANGED vars

Next ==
    \/ BeginShutdown \/ Drained \/ DrainTimesOut \/ Finished
    \/ \E c \in Connections : ConnectionNext(c)

Spec == Init /\ [][Next]_vars

\* What the server does by itself once it shuts down: it relies on its own
\* timers, such as the handshake timeout of HTTP/1.1 and ACME, and on the
\* transport to tell it of a connection's end, but not on its peers.
Reacts(c) ==
    \/ WaitAbandoned(c) \/ SeesShutdown(c) \/ LoopEnds(c)
    \/ Shutdown /\ (c \in lost \/ protocol[c] = "http1") /\ Http1Ends(c)
    \/ c \in lost /\ (Http2Ends(c) \/ Http3Leaves(c))
    \/ c \in lost /\ task[c] = "refusing" /\ Http3Continues(c)
    \/ Settled(c, {s \in Streams \ prior[c] : streams[c][s] # "resolving"}) /\ Part(c)
    \/ Settled(c, Streams) /\ Drain(c)
    \/ protocol[c] = "acme" /\ WaitEnds(c)
StreamReacts(c, s) ==
    \/ Shutdown /\ streams[c][s] = "reading" /\ RejectRequest(c, s)
    \/ c \in lost /\ (HeadWritten(c, s) \/ CallWritten(c, s) \/ Closed(c, s))
    \/ CallCut(c, s)

FairSpec ==
    /\ Spec /\ WF_vars(Drained)
    /\ \A c \in Connections :
        /\ WF_vars(Reacts(c))
        /\ \A s \in Streams : WF_vars(StreamReacts(c, s))

-----------------------------------------------------------------------------
(* Properties. *)

\* Permits are neither leaked nor given back early: whatever way a task ends,
\* the connection permits held are those of the live tasks, and a stream permit
\* is held only by a stream whose request is read or served.
PermitsFollowTasks ==
    /\ permits = {c \in Connections : task[c] \in Live}
    /\ \A c \in Connections :
        holding[c] \subseteq {s \in Streams : streams[c][s] \in Counted}

\* No stream task outlives the task of its connection, and once serve_sources
\* returns nothing it spawned is left.
NoOrphans ==
    /\ \A c \in Connections :
        (\E s \in Streams : streams[c][s] \in Busy) => task[c] \in Live
    /\ phase = "returned" => \A c \in Connections : task[c] \notin Live

\* However connections and streams come and go, neither limit is exceeded.
LimitsKept ==
    /\ Cardinality(permits) <= MaxConnections
    /\ \A c \in Connections : Cardinality(holding[c]) <= MaxStreams

\* Permits are held by the live tasks and the streams they read, within the
\* limits, and no task outlives its owner (serve.rs, tcp.rs, native.rs).
TasksAreOwned == PermitsFollowTasks /\ LimitsKept /\ NoOrphans

\* The waits that neither the shutdown nor a timer of the server ends.  A peer
\* must take what is written to it: HTTP/3's setup, GOAWAY and refusals, a
\* WebSocket's upgrade response, the head, messages and status of a response;
\* it must acknowledge HTTP/2's GOAWAY; and a handler must return that serves a
\* fallback, or a call HTTP/2 accepted after the GOAWAY.
Held(c) ==
    \/ task[c] = "setup" /\ protocol[c] = "http3"
    \/ /\ c \notin lost
       /\ \/ task[c] \in {"refusing", "leaving"}
          \/ task[c] = "serving" /\ protocol[c] \in {"http2", "upgrade"} /\ c \in seen
          \/ \E s \in Streams : \/ streams[c][s] \in {"heading", "writing", "closing"}
                                \/ streams[c][s] = "running" /\ s \in deaf[c]
    \/ \E s \in Streams : streams[c][s] = "fallback"

\* A shutdown without a timeout ends unless one connection keeps coming back to
\* a wait that is not the server's own: every loop and every other call learns
\* of it, the session of a WebSocket whose upgrade response was being written
\* when it came included, and each level waits only for those below it.
ShutdownReturns ==
    <>[](phase = "draining") => \E c \in Connections : []<>Held(c)
=============================================================================
