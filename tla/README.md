# TrevRPC: models, checks and proofs

TrevRPC is an RPC framework over QUIC, HTTP/3 and WebTransport, with TCP
fallbacks. This directory holds TLA+ models of its Rust runtime
(`trevrpc-rust/src`), the TLC configurations that check them on small
instances, and TLAPS proofs about most of its components: queue, lock-free cells,
channel and dials, connection pool, request pump, streaming and unary calls, server
calls and their metadata, server configuration, connection layer, HTTP serving,
connection metadata and compression. Line numbers refer to the
source in the same repository.

Contents: [the system](#the-system), [inventory](#inventory),
[modules](#modules), [runs](#runs), [bounds](#bounds), [fairness](#fairness),
[proofs](#proofs), [where code and docs disagree](#where-code-and-docs-disagree),
[not modelled](#not-modelled), [plan](#plan).

To check a run: `tlc -config MCServe.cfg MCServe`; to check proofs:
`tlapm ChannelProofs.tla`. `PROJECT.json` lists every run, the source lines each
definition translates, and for each property a mutation of a definition that
breaks it. The mutations are in the modules, before the definition they stand in
for, with a comment on the bug they represent.

## The system

One RPC is one bidirectional stream: the client writes `REQUEST MESSAGE*` and
ends its side, the server answers `[HEADERS] MESSAGE* STATUS` and ends its own.
Native QUIC carries it directly; QMux carries it over TLS or WebSocket; HTTP/3,
WebTransport and HTTP/2 carry it as request bodies or session streams. Messages
of methods marked unreliable may travel as QUIC datagrams beside the stream.

    caller -> RequestSender -> queue -> upload task ==stream==> request pump -> queue -> handler
    caller <- ResponseStream <- frames <- reading task <==stream== response loop <- response stream
               (Channel -> QuicPool picks the connection)   (Serve accepts it, ServerCall runs it)

On the client a `Channel` keeps one connection *generation* at a time and dials
again when it is lost. A generation over QUIC has a pool that dials more
connections under load. A streaming call has two tasks of its own, one that
uploads and one that reads ahead. On the server `serve` accepts QUIC and TCP
connections under one limit, runs a task for each, which accepts streams under
another limit and runs a task for each. A call's task selects over its handler,
the request pump's failure, the peer's STOP_SENDING and the shutdown. The calls
of a connection share its datagrams, its connection metadata and what it
negotiated of compression. Everything is tokio tasks: code between two `.await`s
runs without the task being dropped, a `select!` drops the futures of the
branches that lost, and threads interleave wherever a lock is not held.

The repository also holds independent Go, JavaScript and Kotlin runtimes. The
models are of the Rust one: it is server and client, and speaks every transport.

## Inventory

| component (source) | state it keeps | what is hard | what makes it correct | module |
| --- | --- | --- | --- | --- |
| message queue (`queue.rs`) | values, byte count, sender count, wakers | dropped futures leave wakers behind; a permit holds no space | no lost wakeup; it is a bounded FIFO | `MessageQueue`, `BoundedFifo` |
| latest cell, wake gate (`latest.rs`, `wake_gate.rs`) | version, waker, flags | lock-free: two sides interleave at every atomic | no missed change; no item stranded | `WakeUps` |
| server calls (`server_transport.rs`, `server.rs`) | slots, cancellation token, completion, accounting | a select drops the handler at any await; a dozen exits release, record and cancel by hand | slots go before the STATUS; counted once; the recorded code is the one sent; a cut-off call is cancelled | `ServerCall` |
| request pump (`request_pump.rs`) | budget, state, failure, settle reason, reader guard | the end of the body queue means "complete"; settle races failures and the dropped body | a cut-off request never looks complete; an answered one is drained; settling ends, unless the peer holds back the FIN behind its trailers | `RequestPump` |
| server stream limits (`server.rs`) | counters, idle timer, deadline, budget | timers armed by polls; two sets of counters | limits are exact; only quiet streams time out | `StreamLimits` |
| frames (`framed.rs`, `framing.rs`, `varint.rs`) | buffers of reader and writer | the transport cuts bytes anywhere | exactly the frames sent are read; a cut is never a clean end | `Framing` |
| connection layer (`serve.rs`, `tcp.rs`, `native.rs`, `http1.rs`, `http2.rs`, `http3.rs`, `websocket.rs`) | permits, task sets, who has seen the shutdown | seven protocols, three nested drains with their own timeouts, watch receivers that already consumed the change | permits follow tasks; no orphan task; shutdown returns unless a peer or a handler holds it up | `Serve` |
| proxied connections (`proxy_protocol.rs`, `udp.rs`) | bytes read past a header, flows behind load balancers, validation bucket | headers in pieces; addresses reused and swept | a header means the same however it is cut; connections are given the clients the headers named; the rate is kept | `ProxyProtocol`, `ProxiedStream`, `ProxiedEndpoint`, `RetryPolicy` |
| server configuration (`server.rs`) | options and routes that clones share | setters against calls that read at several awaits | clones are isolated; a dispatch is consistent | `ServerConfig` |
| HTTP admission and fallback (`http_admission.rs`, `fallback.rs`, `http1.rs`, `http2.rs`, `http3.rs`) | none, then a body being written | three versions decide the same question in three places | they agree; a truncated body never ends well | `HttpServing` |
| response metadata (`response.rs`) | headers and trailers that clones share | sets against the take | what was set is sent, nothing else | `ResponseMetadata` |
| channel (`client/channel.rs`) | slot (state, transport), published state, events | changes under the lock are published after it; close during a dial | nothing leaks; closed is final; a generation is established once; it reconnects | `Channel` |
| dial race (`client/race.rs`, `client/resolve.rs`) | addresses, attempts, memory of a lost race | attempts that hang; late answers; memory that is stale | a dial fails only when everything did; it connects where it can | `ChannelDial` |
| QUIC pool (`client/pool.rs`) | connections, call counts, dialing flags, watchers, load window | picks decide on stale counts; idle checks race picks; counters are not locked | never closed under a call; within its limit; no missed wakeup; an ended generation drains; calls are counted once | `QuicPool`, `PoolLoad` |
| settings (`client/channel.rs`, `serve.rs`, `quic.rs`, `qmux_conn.rs`) | configuration | setters in any order; arithmetic that saturates, and is cut to what a varint holds | what was asked for is what is dialed, waited and granted | `TransportSettings` |
| stream compression (`compression/stream.rs`, `client/replay.rs`) | kept copies, encoder, decoder, memory budgets, the decision | requests are sent before the peer agreed; a refused call is sent again; contexts must stay in step | a handler runs once; nothing undecodable is sent; nothing is lost in a replay | `StreamCompression`, `StreamContexts` |
| message compression (`compression.rs`) | dictionaries, what the connection learned | a stream starts compressing in the middle | no message is rejected; what both hold is used | `Dictionaries` |
| streaming call (`client.rs`, `client/call_end.rs`, `client/upload.rs`) | request queue, backlog, how the call ended | caller and server may both write without reading; the upload polls its control and its queue one after the other | no send hangs after the end; sends and response tell the same end | `StreamingCall` |
| response reading (`client.rs`, `response_state.rs`) | grammar state, stash, limits, timers | two futures share one stream, timers race frames | no message lost; the end tells the status; an await ends | `ResponseStream` |
| unary call (`client/call.rs`, `client/native.rs`) | options, halves of the stream | dropped or failing at any await; an upload that fails while the response is read | what was set is sent; the outcome is what the frames tell; nothing stays open | `UnaryCall` |
| datagrams (`datagram.rs`) | flows, held datagrams, ended flows, queues, the shared size | datagrams overtake their REQUEST and their STATUS; several tasks take them at once; the path's size moves; the transport refuses | never duplicated; what arrived before the end is received; stream order survives | `DatagramDemux`, `DatagramResponses` |
| connection metadata (`connection_metadata.rs`) | current set, confirmed ID, stored sets | offers and references arrive in any order | a call runs with the set it was prepared with, or fails, and only for a set that was evicted | `ConnectionMetadata` |

`PROJECT.json` lists the hazards, each at the line where it bites, with the
properties that would catch it.

## Modules

A step of a model is what a task does between two awaits, or what a method does
between lock and unlock where the lock matters; in `WakeUps` and `PoolLoad`,
which lock nothing, it is one access to an atomic. Inputs (what a
peer sends, what the network does, what a handler returns) are chosen by the
actions that take them. Names follow the source.

| module | models | state | actions |
| --- | --- | --- | --- |
| `MessageQueue` | `queue.rs` | the fields of `State`, what each task does, the wakers taken and not yet called | one per method, and per poll of its futures; `Abandon` drops a future, `Wake` calls a waker |
| `BoundedFifo` | what `queue.rs` promises | values, bytes, what was put and taken | put, take, end; `MessageQueue` implements it |
| `WakeUps` | `latest.rs`, `wake_gate.rs` | value, version, wakers, flags, where each side is | one per atomic access of either side |
| `ServerCall` | `server_transport.rs`, `server.rs`, the native accept loop, `drain_tasks` | where each call's task is, the two kinds of slot, the token, the accounting, the response the client can see | one per branch of each `select!`, guarded by the branches before it where it is biased |
| `RequestPump` | `request_pump.rs` | the client's stream, the pump, its state and failure, the body queue, the settle channel, the fate of the receive stream | steps of the three kinds of reader; the client, the handler and the call as environment |
| `StreamLimits` | `StreamTimer`, `LimitedStream`, `ServerResponseStream`, `RequestBudget` | the inner stream, counters, timer, a clock | a poll by what it finds; arrivals, skipped frames, the clock |
| `Framing` | `framed.rs`, `framing.rs`, `varint.rs` | the bytes under way, both buffers, the frame being read | batches, reads of any size, each stage of a frame, the end |
| `Serve` | `serve.rs`, `tcp.rs`, `native.rs`, `http1.rs`, `http2.rs`, `http3.rs`, `websocket.rs` | each connection's task and protocol, permits, stream tasks, and who still hears the shutdown | one per wait and exit of each protocol's loop |
| `ProxyProtocol` | `proxy_protocol.rs`, trusted networks of `tcp.rs` | none: operators | parse of both versions, network prefixes |
| `ProxiedStream` | `read_header`, `Rewound` | bytes to come, the buffer, what was yielded | read the header, read on |
| `ProxiedEndpoint` | `udp.rs` | flows, published clients, connections, a clock | a datagram, the sweep, a connection's lookup and migration |
| `RetryPolicy` | `RetryPolicy` of `udp.rs` | the token bucket, a clock, when attempts passed | an attempt, the clock |
| `ServerConfig` | `Server`'s setters and dispatch (`server.rs`, `server_transport.rs`) | states and routes with their reference counts, the handles, a call in its stages | one per setter, clone, drop, and per await of a call |
| `HttpServing` | `http_admission.rs`, `fallback.rs` and the handlers of `http1.rs`, `http2.rs`, `http3.rs`, `websocket.rs` | the request, the decision, the body being written | one per version; the frames of a fallback body |
| `ResponseMetadata` | `response.rs`, its users in `server.rs` | headers and trailers, what was taken | set, take headers, take trailers, fail |
| `Channel` | `client/channel.rs` | the slot, the watch channel, the connections, supervisor and closer | each method of `Shared` as two steps, under the lock and after it |
| `ChannelDial` | `client/race.rs`, `client/resolve.rs`, extends `Channel` | configuration, the network, the attempts, the memory of a lost race | a dial's start, delays, attempts and timeout; its end is a step of `Channel` |
| `QuicPool` | `client/pool.rs` | connections, calls, dial flags, watchers | pick, grow, wait and give up of a call; the dial's task; the watchers; loss, close, drop |
| `PoolLoad` | `Load` of `client/pool.rs` | the window, the rates, each thread's place in `record_at` | one per atomic access |
| `TransportSettings` | `ChannelConfig`, `ExponentialBackoff`, the limits in `serve.rs`, `quic.rs`, `qmux_conn.rs` | the configuration, what was asked last, what was made of it | one per setter; connect, reconnect, configure a server |
| `StreamCompression` | `compression/stream.rs`, `client/replay.rs`, `client/native.rs` | each call's two sides, what is on the wire, both memory budgets | offer, keep, park, send, answer, refuse, replay, drop |
| `StreamContexts` | encoder and decoder of `compression/stream.rs` | both contexts, the frames between them | enable, learn a dictionary, encode (whole, split, failing, not worth it), decode |
| `Dictionaries` | `compression.rs` | both configurations, what the connection learned, each call | prepare, negotiate, learn, send either way |
| `ConnectionMetadata` | `connection_metadata.rs` | the current set, confirmations, stores, the calls under way | set in its two steps, prepare, resolve, learn in its two steps |
| `StreamingCall` | `client.rs`, `client/call_end.rs`, `client/upload.rs` | sends, the request queue, upload, backlog, frames, how the call ended | a send's steps; a drop's two (Cancel, then the queue's sender); the upload's poll of its control, of its queue, and its writes; the reading task, server and caller |
| `ResponseStream` | `client.rs`, `response_state.rs` | frames, grammar state, counters, timer, stash | one poll step per frame, arming and firing of the timer |
| `UnaryCall` | `client/call.rs`, `client/native.rs`, `client.rs` | options, the request made of them, the response read, both halves | one per builder method; open, write, upload, read, drain, deadline, drop |
| `DatagramDemux` | `datagram.rs`, server's receiving side | flows, held datagrams, ended flows, queues, the network, the datagram each task took | reading task and drains, each taking a datagram and dispatching it; registration in its two steps, merging, end |
| `DatagramResponses` | `datagram.rs`, sending side, and `MergedResponses` | the link's cached size, each writer's batch, packed datagram and stream; the network; the client's buffer, queue and grammar phase | read the size, take, pack, flush, wait, write; delivery, loss, reading task and drains as above, and each poll of the merged response |

**Refinement.** `MessageQueue` maps its `State` to `BoundedFifo` (a value is put
when `push` queues it; a permit, a waker, an abandoned future are stuttering), and
`ImplementsFifo` is the abstract specification as a property: checked by `queue`,
and proved. It justifies the plain bounded queues that `RequestPump`,
`StreamingCall` and `DatagramDemux` use. The latest cell of `WakeUps` justifies the
settle channel of `RequestPump` in the same way, without a formal mapping.

**Composition.** `ChannelDial` is `Channel` with its one-step dial replaced by
the whole race: `Install` and `DialFails` are conjoined to the last step of a
dial, so every behaviour of the composition is one of `Channel` with stuttering,
which `DialImplementsChannel` proves. `ProxiedStream` and `ProxiedEndpoint` both
parse with `ProxyProtocol`. Elsewhere a neighbour is reduced to what crosses the
interface: `ServerCall` sees of `RequestPump` the failure it may report; `Serve`
sees of `ServerCall` that a call writes, that it ends and, unless it is deaf to it,
that it ends upon shutdown between two writes, which `ShutdownEndsCalls` checks of
`ServerCall` itself; `QuicPool` sees of `PoolLoad` how many connections' worth of load there is.

**MC modules.** They give constants that a `.cfg` cannot write, and put the
components of one part of the system into one run. Such components have no state
in common, so their product would only multiply states: a variable `focus`, chosen
initially, says whose behaviour it is, and the others rest in an initial state. An MC
module extends the components whose properties are also proved, so that run and
theorem speak of the same definition; the others it instantiates. Nothing is
assumed of the components at rest.

## Runs

All runs pass but the last four, which show disagreements. Only `Serve` has a next
step in every state; the other systems really stop (all calls over, channel
closed), so their configurations switch the deadlock check off, or, in `MCServe`,
let the components beside `Serve` stutter. Liveness properties cover the hangs
that matter.

| run | property | what it says |
| --- | --- | --- |
| `queue` | `NobodySleeps` | no producer sleeps while there is room or the receiver is gone, no receiver while there is a value or no sender |
| | `ImplementsFifo` | the queue is a bounded FIFO, whatever is abandoned and however permits are used |
| | `SomeSendCompletes` | while a send or reserve waits values keep getting through, its own or another's, if the receiver keeps receiving or is dropped; one of several producers may starve |
| | `NoMissedChange` | a receiver of the latest cell never sleeps over a change nor hears of the end before the last value |
| | `NoItemStranded` | a gate that skips polls never leaves an item behind it with nobody woken |
| `request_pump` | `EndIsComplete` | a request that was cut off never looks complete to its handler |
| | `AnsweredIsDrained` | a request not yet stopped when its call is answered is drained up to its bounds, except by a pump that is past its look at the answer |
| | `LimitsHold` | message and byte limits are exact; only a quiet stream is idle, only a passed deadline cancels |
| | `FramesSurvive` | exactly the known frames sent are read, whole and in order; a cut stream never looks ended |
| | `EndsInTime` | settling a pump ends, unless the peer holds back the FIN behind its trailers; a quiet stream is ended however often it is polled |
| `pool` | `NothingLeaks` | no connection stays open once close is done and the supervisor returned |
| | `FailsWhenAllDid` | a dial fails only when every address failed over every transport it was to use |
| | `GenerationsGrow` | closed is final; a generation is established once, by a younger connection |
| | `ConnectsWhereItCan` | a lost connection is replaced wherever the network allows, stale memory or not |
| | `PoolKeepsCalls` | never above the limit, never closed under a call, no call sleeps through its dial |
| | `CountedOnce` | every call is in exactly one window of the load, no window is cut short, and the rate kept is that of one of them |
| | `SettingsHold` | pool, fallback, windows and delays are what was asked for, in whatever order, at the limits of the arithmetic too |
| | `Drains` | an ended generation closes everything it dialed |
| `compression` | `StreamedOnce` | a handler runs once, and nothing waits for one that cannot decode it |
| | `ContextsAgree` | both ends' contexts stay in step through failures, splits and rejections |
| | `ReplayDelivers` | a replayed call delivers every request, once and in order |
| `client` | `HalvesAgree` | sends fail with the end the response tells; a request stream ends cleanly when it was finished, or dropped between the two polls of one `poll_next` |
| | `NothingLost` | `headers()` and `next()` lose and repeat no message, and the end tells the status |
| | `ConfiguredIsSent` | the transport is given what was set last, whoever set it |
| | `UnaryEndsWell` | the outcome is what the frames and the upload tell, and no half stays open |
| | `FuturesEnd` | no send stays blocked after the end; every await of a response ends |
| `server` | `SlotsAreAccounted` | slots are free before the peer can see the end of a call; a call is counted once, and finished with its finish functions unless its handler was dropped or its request failed |
| | `CodesAgree` | the code that is recorded is the code that was sent |
| | `InterruptedIsCancelled` | a call cut short cancels its token |
| | `ServersAreConsistent` | clones are isolated from setters; a call is dispatched under one view |
| | `HttpAgrees` | the HTTP versions agree on who serves a request; a failed body never ends well |
| | `SetIsSent` | metadata whose set succeeded is sent, and no other |
| `connection` | `RequestDatagramsOnce` | no message twice, in a call it was not sent to, or held for one that is open or over; what a drain may take and no other task has in its hand is received |
| | `ResponseDatagramsOnce` | each message is sent once, arrives at most once, stream order survives; what arrived before the STATUS is received, as above |
| | `DictionariesAgree` | no compressed message is rejected; what both hold is used |
| | `CallSeesItsSet` | a call runs with the set it was prepared with; it fails only for an evicted one |
| `serve` | `TasksAreOwned` | permits follow the live tasks; no task outlives its owner |
| | `ProxiesAreRead` | a header means the same in any pieces; clients, also of a connection that migrates, follow the headers; payloads are whole |
| | `RateIsKept` | no more attempts than the rate pass without a Retry |
| | `ShutdownEnds` | a shutdown without a timeout returns unless a connection keeps coming back to a wait for its peer or for a handler; a call ends unless its authorizer or its writes hold it up |
| `channel_observed` | `ObservesLatest`, violated | see [below](#where-code-and-docs-disagree) |
| `stream_credit` | `QmuxMirrorsQuic`, violated | see [below](#where-code-and-docs-disagree) |
| `finish_functions` | `FinishesRun`, violated | see [below](#where-code-and-docs-disagree) |
| `dropped_sender` | `DropCancels`, violated | see [below](#where-code-and-docs-disagree) |

## Bounds

Each bound is the smallest at which the cases a property is about happen.

- `queue`: two producers, limits of 2 values and 3 bytes, sizes 1 and 4, four
  values: full by count, full by bytes, overshoot, two sleeping producers. Three
  sends and three items for the cells. Everything safe here is proved without bounds.
- `request_pump`: three messages against room for one and a limit of two; lengths
  0 to 2 against a body of 3, an idle timeout of 2 and deadlines before and after
  it; frames over an integer encoding with 4 values in its first byte, so that
  lengths take one and two bytes, and reads of any size.
- `pool`: for the channel three connections (two reconnects), an IPv4 and an IPv6
  address, every policy, five networks: the second reconnect meets the memory of the
  first. For the pool two calls, two dials, two connections: two calls ask for the last place,
  and a dial starts before the one before has notified. Two threads and three
  starts for the load. Two setter calls with the
  values 0, 1 and 40, where `Top`, at which arithmetic saturates, is 40, the largest
  varint 30, and shifts go up to 3, with five attempts: a delay passes both caps,
  and a window both limits.
- `compression`: two calls of two requests, one kept request, client memory for
  two: both park, either is refused and replayed; five messages of three lengths,
  one of them above the limit, over frames of two.
- `client`: two sends, a queue of one, three responses, one frame queued and two
  read ahead: every buffer fills; every response of four frames with sizes one
  above the limit; two builder calls over two spellings of a key.
- `server`: a unary and a streaming call, one request slot, two stream slots of which
  another stream may hold one, one interceptor with a finish function: both calls
  rejected for either limit, released and reused. Two handles, one path, two changes; every request head over every
  policy; four keys that collide, are reserved or exceed the total, three sets.
- `connection`: two interchangeable flows (symmetry; the run has safety properties
  only) of two datagrams, room for one held, one ended and one queued; three
  calls over two connections, one of which keeps one set; every pair of
  dictionary configurations; two messages over three path sizes; drains of at most
  two datagrams for requests and one for responses, with another behind them.
- `serve`: two connections for one permit, two streams for one stream permit, all
  protocols; headers of both versions cut into pieces of up to 3 units; datagrams
  with valid headers, with headers of another version or too short for their family,
  and with none, from four addresses, two behind
  trusted networks of either family, room for two flows, of which one goes quiet and
  is swept; a bucket of one that would fill twice over.

## Fairness

No run assumes that a peer acts, unless it says so:

- `queue`: a woken task is polled and a taken waker is called; a receiver that
  is not dropped goes on receiving. The last is strong fairness, because a
  select may drop the `recv` future whenever another branch wins.
- `request_pump`: pump and discard task are scheduled; the clock moves, and a
  limited stream is polled, as its timer's waker makes the task do. Client,
  handler and call may stop anywhere. `EndsInTime` excepts a peer that sent trailers and
  no FIN, for which `validate_transport_end` waits.
- `pool`, channel: tasks run, timers fire, an attempt that the network lets through
  connects and another fails, as the idle timeout of QUIC and the connect
  timeout of TCP make it. The start of a dial is strongly fair: a resolver that
  is asked again and again answers some time. The network is constant after
  the first connection; channels with a `connect_timeout` are excluded from
  `ConnectsWhereItCan`, since one too short lets no dial succeed.
- `pool`, connections: tasks are scheduled, dials are bounded by their timeouts, calls end.
- `compression`: tasks are scheduled, the server decides the calls it gets.
- `client`: tasks are scheduled; a server that ended the call takes the remaining
  requests or stops them (without an end both sides may wait for ever, and
  `FuturesEnd` does not claim otherwise); what is woken is polled, and a response
  has a deadline or an idle timeout, the condition under which an await must end.
- `serve`: what the server does by itself at shutdown, with the timers it sets (the
  handshake timeout ends an ACME connection, the header timeout an idle HTTP/1.1
  one), and the transport's word that a connection is lost. No peer and no handler
  is relied upon: the waits for them are `Held`, the exceptions of `ShutdownReturns`
  (HTTP/3's setup, GOAWAY and refusals, the upgrade response of a WebSocket, HTTP/2
  after its GOAWAY, writes of a response, a fallback, a call that cannot hear the
  shutdown). The one call beside it is assumed to be scheduled and its read to end
  by its timeout; its authorizer and its writes are not assumed to end.

## Proofs

Proved for every value of the constants (any finite set of producers, calls,
connections or addresses, any limits and sizes, any number of dials, messages and
sends), from the named assumptions of the modules, which TLC evaluates on the
runs that extend them: `TasksAssumption` and `LimitsAssumption` of `MessageQueue`,
`ChannelBounds` of `Channel`, `DialAssumption` of `ChannelDial`, `PumpLimits` of
`RequestPump`, `StreamingAssumption` of `StreamingCall`, `ContextLimits` of
`StreamContexts`, `CompressionAssumption` of `StreamCompression`, `DictionaryIds`
of `Dictionaries`, `CallsAssumption` and `ServerLimits` of `ServerCall`,
`LimitsAssumption` of `Serve`, `RetryRate` of `RetryPolicy`, `PoolAssumption` of
`QuicPool`, `HandlesAssumption` and `RequestKinds` of `ServerConfig`. They say that
limits are natural numbers, positive where the code clamps them or takes a
`NonZero`, that sets of tasks, addresses and handles are finite, that a request
is of one of the four kinds of `RpcKind`, and that a resolver's answer is not
empty, which `Target::resolve` ensures. `UnaryCall`, `HttpServing` and `ResponseMetadata` need none; `CallsSeeTheirSets` takes
`MaxSets \in Nat \ {0}` as its hypothesis (`MAX_SETS` is 4).

| module | theorem | statement |
| --- | --- | --- |
| `MessageQueueProofs` | `QueueImplementsFifo` | `MessageQueue` implements `BoundedFifo` |
| | `NoLostWakeup` | no producer and no receiver sleeps through what it waits for |
| | `QueueIsBounded`, `QueueIsFifo` | values within their limit, bytes within one value of theirs; order kept, none lost or repeated |
| | `PermitsFindRoom`, `TypeCorrect` | a permit finds room though it holds none; the sender count never underflows |
| | `CallsSeeTheirSets` | a call runs with the connection metadata it was prepared with, and fails only for an evicted set |
| `RequestPumpProofs` | `EndsAreComplete` | the body queue ends only when all that was sent was delivered |
| | `AnsweredAreDrained` | a request not yet stopped when its call is answered is drained up to its bounds, whenever its body is dropped |
| | `LatestMissesNothing` | no change and no last value of the latest cell is missed, at the grain of single atomics |
| | `GateStrandsNothing` | no item is left behind a skipped poll |
| | `ServersStayConsistent` | clones are isolated from setters; a call is dispatched under one view |
| `ChannelProofs` | `ChannelLeaksNothing` | nothing stays open once close and supervisor are done |
| | `ChannelGenerationsGrow` | closed is final, generations are established once and in order |
| | `DialImplementsChannel` | `ChannelDial` implements `Channel` |
| | `DialLeaksNothing`, `DialGenerationsGrow` | so both hold with every dial opened up |
| | `DialsTryEverything` | a dial fails only when every address failed over every transport it was to use |
| | `UnaryCallsEndWell` | the outcome of a call with one response is what its frames and its upload tell, and no half of its stream stays open |
| | `CallsSendWhatIsConfigured` | the transport is given what was set last, whoever set it |
| `PoolProofs` | `PoolKeepsItsCalls` | within its limit, never closed under a call, no call sleeps through its dial |
| `StreamingCallProofs` | `TheHalvesAgree` | sends fail with the end the response tells; a dropped request ends cleanly only if dropped between the polls of one `poll_next` |
| | `ContextsStayInStep` | every message of a compressed direction is decoded as it was sent, and only an oversized one is rejected |
| `CompressionProofs` | `CompressionStreamsOnce` | a handler runs once, and nothing waits for one that cannot decode it |
| | `PeersAgreeOnDictionaries` | no compressed message is rejected; what both hold is used |
| `ServerCallProofs` | `ServerAccountsSlots` | slots are free before the peer can see the end; a call is counted once, and finished with its finish functions unless its handler was dropped or its request failed |
| | `ServerRecordsWhatItSends` | the recorded code is the one that was sent |
| | `ServerCancelsInterrupted` | a call that was cut short is cancelled |
| | `AcceptedMetadataIsSent` | metadata whose set succeeded is sent, and no other |
| `ServeProofs` | `ServeOwnsItsTasks` | permits follow the live tasks, within the limits; no task outlives its owner |
| | `RetryKeepsItsRate` | in any stretch of time no more attempts pass than the rate allows |
| | `HttpVersionsAgree` | the HTTP versions agree on who serves a request; a failed body never ends well |

Each rests on an inductive invariant, because what is to be shown is not itself
preserved by every step:

- **`MessageQueue`, `IInv`.** That a sleeping producer needs no wakeup depends on
  where its waker is. `WaitersAreKnown`: a waiting producer is about to be
  polled, has a taken waker not yet called, or is registered.
  `WakersOnlyWhenFull`: wakers are registered only while the queue is full and
  open. The step that ends this takes all wakers, which restores both at once;
  taking one would not, since a dropped future leaves its waker behind. The
  receiver has the same pair. `PermitHasRoom` needs `ReservesAlone` (only a sole
  producer reserves, which the doc of `reserve` demands and its callers satisfy),
  `Bounded` needs `PermitHasRoom`, and `SendersCounted` makes the last drop the one
  that wakes the receiver. The refinement uses `IInv` for the put of a permit.
- **`WakeUps`, `LatestInv`.** Where the sender is between value, version and
  close flag (`SenderInv`), what the receiver counts as seen (`SeenInv`), and that
  a receiver that registered has its waker in place or was woken: if it was not,
  either nothing changed or the sender is yet to wake (`WakerInv`).
- **`WakeUps`, `GateInv`.** The inner stream holds the waker only with nothing left
  to take (`InnerInv`); a closed gate is opened by that waker or by a wake under
  way (`ClosedInv`); a task that polled is registered or woken, and one that waits
  will be woken or has been (`TaskInv`).
- **`Channel`, `ChannelInv`.** At most the current connection is open, and none
  while the supervisor looks for another (`OpenInv`); the slot is closed by the
  first close and until then holds what is open (`SlotInv`); close ends what it
  took from the slot, so that nothing is open once it is done (`CloseInv`). A
  dial that ends after close is what the three need each other for.
- **`ChannelDial`, `DialInv`.** Its refinement to `Channel` needs no invariant: the
  mapping is the identity on the variables of `Channel`, the last step of a dial
  is `Install` or `DialFails`, and the others stutter. That a dial gives up last
  needs `RaceInv`: attempts that have all stopped went through every address
  (`TcpInv`, `QuicInv`), which holds because a failure starts the next attempt in
  the same step; and the minimum of connections is dialed at the only address, or
  after one connection is up.
- **`QuicPool`, `PoolInv`.** `MemberInv` ties the pool's list to the watchers, and
  each connection to at most one place in it; `CallInv` says where calls may be.
  Retiring only the idle (`RetiredIsIdle`) and waking every waiting call
  (`NoMissedDial`) are inductive with these two: a pick and an idle check both
  happen under the pool's lock, and a dial counts its notifications.
- **`RequestPump`, `PumpInv`.** Counting joins client and handler: what was sent is
  charged or unread, what is charged is delivered or queued (`CountInv`);
  `EndInv` then says that the end follows the last message. `ReasonInv` and
  `FailureInv` say which side decided how the stream ends, and `StopInv` that only a pump
  past its look at the settle channel stops the stream of an answered call.
- **`StreamingCall`, `CallInv`.** What the reader passed on is messages and, once the
  call ended, the end that was recorded (`PassedInv`), which is also what sends fail
  with (`ResultInv`); nothing follows a terminal frame but the end of the stream
  (`WireInv`), so no later end replaces the first. An upload that has yet to poll its
  control when Cancel is sent finds it (`CancelInv`).
- **`StreamContexts`, `ContextInv`.** The two contexts are equal only when nothing is
  under way, so the invariant is about the path: its frames, taken one after the
  other, lead a decoder from the receiver's point to the sender's (`InStep`, with
  the points as a witness, which every encode extends and every decode shortens).
  A frame with an empty chunk leads nowhere, which is why `ValidSender` needs the
  open frame to be below `FRAME_LIMIT`: an empty message must not end it. A sender
  that failed leads anywhere, as it never streams again. `InOrder` joins what was
  decoded, what is under way and what was sent.
- **`StreamCompression`, `CompInv`.** A handler runs only for an attempt that is not
  refused, and only a refused one is replayed (`OnceInv`); whatever may start an
  encoder belongs to an attempt whose server can decode it, or is over (`DecodeInv`).
- **`Dictionaries`, `DictInv`.** What the connection learned is exactly what both
  peers hold (`SharedInv`), and each call's tables follow from its stage
  (`CallInv`). Without a query the server is told IDs alone; that they name the same
  dictionary there follows from `SharedInv` and from one dictionary per ID.
- **`ServerCall`, `ServerInv`.** Six facts per call, each a table over its phase:
  slots (`SlotInv`), what the peer can see (`WireInv`), starts and finishes with the
  response stream's completion (`CountInv`), codes (`CodeInv`), what a call that was
  dropped or failed leaves out (`AccountInv`), cancellation (`CancelInv`). The calls
  meet only in the two slot sets, so a step of one call leaves the facts of the
  others alone (one lemma).
- **`Serve`, `ServeInv`.** A stream task that is left has its connection's task, and
  that has its permit (`OwnedInv`); the sets of permits are finite (`FiniteInv`),
  without which their cardinalities say nothing.
- **`RetryPolicy`, `RetryInv`.** What passed since any earlier attempt, together with
  what the bucket still holds, is within the rate up to the last refill (`Within`):
  the tokens that are left count as attempts to come.
- **`ConnectionMetadata`, `CallSetsInv`.** A store holds the sets that were stored last,
  in that order, and a set it does not hold any more was stored before each of them,
  of which there are `MaxSets` then (`HeldInv`); what a client takes for confirmed, or
  refers to, was stored on that connection (`KnownInv`).
- **`ServerConfig`, `ClonesInv` and `CallInv`.** What a handle reads, through the state
  and the route map it points to, is what was configured through it (`HandleInv`). A
  setter writes in place only where it counts one reference, and then no other handle
  reads what it changes; that there is always a free place to copy to is a matter of
  counting the places. A call that passed a check did so by what its own handle holds,
  which no setter can reach (`CallInv`).
- **`UnaryCall`, `UnaryInv`.** Each option is the last value given for it
  (`SettingsInv`, and `MetadataInv` for a map that is written key by key or
  replaced); the state of the response is a function of the frames read
  (`ReadInv`); the halves of the stream, and how far the upload got, follow from
  the stage (`HalvesInv`).
- **`HttpServing`, `HttpInv`.** What is left of a body has its end, if any, last
  (`BodiesInv`), so a body that fails is neither finished nor followed; what was
  answered is settled in one step, for which `AdmissionAnswers` and its neighbours say
  what each version's chain of checks returns.
- **`ResponseMetadata`, `SetsInv`.** Until it is taken, each map is what the accepted
  sets so far make (`HeldLatest`); once taken, no set of its kind is accepted
  (`TakenOnce`). A set that fails restores the value before it, or the key's absence.

The provers need a while for each obligation in a module that extends the theorems
about finite sets. Four of the proof modules therefore name the facts about sizes that
they use (`SizeFacts`, or `HasForemost` for the first of some addresses), which their
lemmas take as a hypothesis; the library is instantiated at the end, where those facts
are proved, so that the theorems have no such hypothesis.

TLC found each of them invariant on the constants of the component's run before it
was proved; for `InStep` it followed the path instead of searching for its
points, of which there are infinitely many. A proof has one step per action.

Only model-checked, and why:

- liveness (`SomeSendCompletes`, `EndsInTime`, `ConnectsWhereItCan`, `Drains`,
  `ReplayDelivers`, `FuturesEnd`, `ShutdownEnds`), which TLAPS does not prove;
- what recursive definitions and folds compute for every input, which needs
  induction over data: `FramesSurvive` (varints, batches), `ProxiesAreRead` (headers),
  `CountedOnce` and `LimitsHold` (sums over windows and over what was yielded), and
  `ResponseDatagramsOnce` (the sizes of what is packed);
- `RequestDatagramsOnce`, `NothingLost` and `SettingsHold`: they filter or fold
  sequences of any length, about which the library's theorems take an operator as a
  parameter.

## Where code and docs disagree

Four have a run.

- **`channel_observed`**: the methods of `Shared` publish the state after they
  unlock the slot, so `close` can publish between another change and its
  publication, and the watch channel then shows `Ready` or `Reconnecting` for a
  closed channel for ever (`client/channel.rs:800`; the doc at 649 says it
  "Observes the latest state").
- **`stream_credit`**: a server without a stream limit leaves Quinn's default of
  100 streams in force on QUIC, but grants the maximum on QMux (`serve.rs:349`;
  `qmux_conn.rs:38` says the QMux parameters are "mirroring its QUIC limits").
- **`finish_functions`**: a select that drops the handler drops its interceptors'
  finish functions uncalled, and so does a request that fails while the handler runs
  (`server_transport.rs:334`; `server.rs:1209` says `Finish` is "Called once when a
  call that reached an [`Interceptor`] ends"). `SlotsAreAccounted` says when they do
  run.
- **`dropped_sender`**: `poll_next` of the request stream polls its control and then
  its queue. A sender dropped between the two sends Cancel too late for the one and
  closes the queue in time for the other, so that an unfinished request ends with a
  clean FIN (`client.rs:586`; the test at 1493 expects "unfinished drop should cancel
  the request stream"). It takes two threads within one poll; `HalvesAgree` shows that
  there is no other way.

Others met while modelling, each with the source line and the line that says
otherwise, have no run; the models do what the code does:

- `queue.rs:64` (8-9): `has_room` ignores the new value's size, so a large
  message is queued behind small ones, not "alone".
- `server_transport.rs:364, 678` (348): a response that cannot be encoded ends
  cleanly without a STATUS; the unary call is recorded as OK.
- `server_transport.rs:345, 596, 639` (`serve.rs:101-102`): RPCs are cancelled
  when the shutdown begins, not drained.
- `request_pump.rs:544` (`tests/quinn_integration.rs:2575`): a body dropped
  before the answer is committed stops the request of an answered call.
- `client/pool.rs:469, 488` (15-16): after a pinned connection is lost, the one
  that takes its place may be closed as idle, below the minimum.
- `client/call_end.rs:238` (`client.rs:642-644`): sends after the upload stopped
  fail with the call's status or ResourceExhausted, not `Cancelled`.
- `client.rs:1148` (1128-1130): `headers()` of a response that is only a STATUS
  resolves at the end of the stream, not at the frame.
- `client/race.rs:277` (261): the generation's own connection is the first in
  dial order that connected, not the first to connect.
- `connection_metadata.rs:159` (19-20): delayed offers of older sets evict the
  newest.
- `datagram.rs:832` (1132), `1186` (1086-1087), `289` (250-251), `958`
  (918-919): a datagram taken and not yet dispatched misses the drain; datagrams
  that arrive during the drain are received; a refusal is forgotten if a size
  read overlaps it; a message too large for a datagram overtakes packed ones
  that are refused.
- `tcp.rs:343`, `http3.rs:67-71` (`serve.rs:481-482`): the close of an ACME
  connection and the setup of HTTP/3 do not look at the shutdown.
- `http2.rs:72` (`server_transport.rs:123-124`): HTTP/2 calls accepted after the
  GOAWAY run, and never hear the shutdown.
- `compression/stream.rs:219` (200): `decoder_cost` decodes a chunk without the
  length `decode` expects before it, so the cost is never measured and always
  `FALLBACK_DECODER_COST`.
- `serve.rs:367` (358-359): where the number of streams is not limited, the
  connection window holds one frame, not "a frame on every stream".
- `qmux_conn.rs:46` (38), `serve.rs:342`: without an idle timeout QMux has none,
  and QUIC has Quinn's default.

`CodesAgree` leaves out one case on purpose: a handler's error stream that is
overtaken by a protocol failure of its request is recorded with the one code and
answered with the other. `ShutdownEnds` excepts another: a response stream that is
always ready keeps the response loop writing, since its biased select takes a ready
message before it looks at the shutdown.

## Not modelled

`PROJECT.json` gives the reason for each component. Whole components:

- the QMux and mux adapters, errors, statuses and tracing, the channel builder:
  conversions and delegation, with no control of their own;
- connection threads: a counter per thread, held by a guard;
- congestion control: numeric heuristics over what the transport measures, of
  which a finite model would keep nothing;
- development certificates, the OpenTelemetry crate, the interop client, code
  generation, benchmarks: adapters, test programs and tools;
- the Go, JavaScript and Kotlin runtimes: separate implementations of the protocol,
  each a project of its own.

Within modelled components: protobuf and structured-field parsing (their result is
an input), zstd (it decodes what its context allows), TLS and certificates, the
batching of socket calls, `Demux::drop` and dropping the last handle of a channel
without `close`. Time is an order of events, except in `StreamLimits`,
`PoolLoad`, `ProxiedEndpoint` and `RetryPolicy`, which have a clock. Rates and
round trips are inputs of `QuicPool`. Panics appear only where the code handles
them. Atomics are sequentially consistent: the weaker orderings `latest.rs`, `wake_gate.rs` and
`pool.rs` ask for are not.

## Plan

1. **Theorems**: `RequestDatagramsOnce` and `NothingLost`, once what they filter is
   described by positions, as the stores of `ConnectionMetadata` are; `CountedOnce`
   with the sum of the windows as a ghost variable of `PoolLoad`.
2. **Refinement** of the queues in `RequestPump`, `StreamingCall` and
   `DatagramDemux` to `BoundedFifo`, and of the settle channel to the cell of
   `WakeUps`, as formal mappings.
3. **Composition** of `StreamLimits` with `RequestPump` (both sets of counters over
   one body), and of `ServerCall` with `RequestPump` in place of the failure it may
   report.
4. **Dropping without closing**: the last handle of a channel, `Demux::drop`.
5. **The Go runtime's** request and response loops, against the same properties.
