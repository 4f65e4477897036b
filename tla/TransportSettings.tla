-------------------------- MODULE TransportSettings --------------------------
(***************************************************************************)
(* What a channel's configuration and a server's options make of the       *)
(* transport: the setters of ChannelConfig and the dialer and pool they    *)
(* end in, the delays of the reconnect backoff (client/channel.rs,         *)
(* client/pool.rs), and the windows and stream credit of QUIC and QMux     *)
(* (serve.rs, quic.rs, qmux_conn.rs).                                       *)
(*                                                                         *)
(* Sizes, counts and times are numbers up to Top, at which the code's      *)
(* arithmetic saturates.                                                   *)
(***************************************************************************)
EXTENDS Naturals, Sequences, FiniteSetsExt

CONSTANTS Top,             \* u64::MAX and Duration::MAX
          VarIntMax,       \* VarInt::MAX, the largest number QUIC can express
          MaxShift,        \* the largest exponent of the backoff, which is the width of an u32 less one
          Units,           \* the jitter's resolution: ratios and random numbers are in 0..Units
          Values,          \* the numbers that are set
          MaxOps, MaxAttempt,   \* bounds
          FrameHeaderLen, CreditFactor, MaxStreamCount, DefaultWindow, \* the constants of serve.rs
          QuinnStreams     \* the streams a peer may open where Quinn is told no limit

VARIABLES config,   \* ChannelConfig
          asked,    \* ghost: the setters called, in order
          dialer,   \* what connect_to made of it, or none yet
          attempt,  \* reconnect attempts so far
          delay,    \* before the last of them
          options,  \* ServerOptions, once the server configured its transports
          limits    \* what QUIC and QMux were configured with

settingsVars == <<config, asked, dialer, attempt, delay, options, limits>>

Least(a, b) == Min({a, b})
Greatest(a, b) == Max({a, b})
Saturated(n) == Least(n, Top)
(* quic.rs varint *)
Varint(n) == Least(n, VarIntMax)

-----------------------------------------------------------------------------
(* ExponentialBackoff::new and with_jitter_ratio, whose argument may be anything. *)
NewBackoff(initial, max) ==
    [initial |-> initial, max |-> Greatest(max, initial), ratio |-> Units \div 5]
WithJitterRatio(backoff, ratio) ==
    [backoff EXCEPT !.ratio = CASE ratio = "nan" -> 0 [] ratio = "negative" -> 0
                                [] ratio = "half" -> Units \div 2 [] ratio = "more" -> Units]

(* base_delay.  A shift by the width of an u32 or more would wrap around. *)
ShiftedOne(exponent) == 2 ^ (exponent % (MaxShift + 1))
BaseDelayWrapping(backoff, n) ==
    Least(Saturated(backoff.initial * ShiftedOne(IF n = 0 THEN 0 ELSE n - 1)), backoff.max)
BaseDelay(backoff, n) ==
    LET exponent == Least(IF n = 0 THEN 0 ELSE n - 1, MaxShift)
    IN  Least(Saturated(backoff.initial * ShiftedOne(exponent)), backoff.max)

(* delay: the base, and up to the ratio of it more or less, by a number that splitmix64 draws. *)
Delay(backoff, n, random) ==
    LET base == BaseDelay(backoff, n)
        share == IF 2 * random < Units THEN Units - 2 * random ELSE 2 * random - Units
        jitter == (base * share * backoff.ratio) \div (Units * Units)
    IN  IF base = 0 \/ backoff.ratio = 0 THEN base
        ELSE Least(IF 2 * random < Units THEN base - jitter ELSE Saturated(base + jitter), backoff.max)

-----------------------------------------------------------------------------
(* ChannelConfig::new *)
NewConfig ==
    [backoff |-> NewBackoff(1, Top - 1), policy |-> "Auto", tcp |-> "none", tcpAddr |-> FALSE,
     compression |-> "valid", metadata |-> "valid", maxFrame |-> 2,
     memory |-> 2, timeout |-> <<>>, fallbackDelay |-> 1, reprobeInterval |-> 2,
     maxConns |-> 2, minConns |-> 1, idle |-> 2, callRate |-> 2, byteRate |-> 2]
NoDialer == [live |-> FALSE]
Refused == [live |-> FALSE, refused |-> TRUE]
NoLimits == [live |-> FALSE]

SettingsInit ==
    /\ config = NewConfig /\ asked = <<>> /\ dialer = NoDialer /\ attempt = 0 /\ delay = 0
    /\ options = NoLimits /\ limits = NoLimits

SetTo(name, value, after) ==
    /\ dialer = NoDialer /\ ~limits.live /\ Len(asked) < MaxOps
    /\ config' = after /\ asked' = Append(asked, [name |-> name, value |-> value])
    /\ UNCHANGED <<dialer, attempt, delay, options, limits>>

(* The setters that store what they are given. *)
SetCompression(c) == SetTo("compression", c, [config EXCEPT !.compression = c])
SetMetadata(m) == SetTo("metadata", m, [config EXCEPT !.metadata = m])
SetMemory(n) == SetTo("memory", n, [config EXCEPT !.memory = n])
SetFrameSize(n) == SetTo("maxFrame", n, [config EXCEPT !.maxFrame = n])
SetPolicy(policy) == SetTo("policy", 0, [config EXCEPT !.policy = policy])
SetRate(field, n) ==
    field \in {"idle", "callRate", "byteRate"} /\ SetTo(field, n, [config EXCEPT ![field] = n])
SetTime(field, n) ==
    /\ field \in {"fallbackDelay", "reprobeInterval", "timeout"}
    /\ SetTo(field, n, [config EXCEPT ![field] = IF field = "timeout" THEN <<n>> ELSE n])
SetBackoff(n, max, ratio) ==
    SetTo("backoff", n, [config EXCEPT !.backoff = WithJitterRatio(NewBackoff(n, max), ratio)])

(* with_max_quic_connections and with_min_quic_connections: none is one. *)
SetConns(field, n) ==
    field \in {"maxConns", "minConns"} /\ SetTo(field, n, [config EXCEPT ![field] = Greatest(n, 1)])

(* with_tcp_fallback and with_tcp_addr, and the fallback that a builder adds where there is none. *)
SetTcp == SetTo("tcp", 0, [config EXCEPT !.tcp = "own"])
SetTcpAddr == SetTo("tcpAddr", 0, [config EXCEPT !.tcpAddr = TRUE])
WithDefaultTcpFallback ==
    SetTo("default", 0, [config EXCEPT !.tcp = IF @ = "none" THEN "default" ELSE @])

(* connect_to: what is dialed with. *)
Dialed == [config EXCEPT !.maxConns = Greatest(@, config.minConns)]

(* QuicPool::new *)
Clamped(n, low, high) == Least(Greatest(n, low), high)
NewPool(d) ==
    LET max == Greatest(d.maxConns, 1)
    IN  [max |-> max, min |-> Clamped(d.minConns, 1, max), idle |-> Greatest(d.idle, 1),
         callRate |-> Greatest(d.callRate, 1), byteRate |-> Greatest(d.byteRate, 1)]

-----------------------------------------------------------------------------
(* frame_receive_window, and the windows and streams a client grants its server. *)
FrameReceiveWindow(frame) == Saturated(frame + FrameHeaderLen)
ClientQuicConfig(frame) ==
    LET window == Varint(FrameReceiveWindow(frame))
    IN  [stream |-> window, connection |-> window, streams |-> 0]

(* connect_to: dictionaries or metadata that are invalid fail it. *)
Connect ==
    /\ dialer = NoDialer /\ ~limits.live
    /\ dialer' = IF "invalid" \in {config.compression, config.metadata} THEN Refused
                 ELSE [live |-> TRUE, pool |-> NewPool(Dialed), backoff |-> Dialed.backoff,
                       tcp |-> Dialed.tcp, tcpAddr |-> Dialed.tcp # "none" /\ Dialed.tcpAddr,
                       policy |-> Dialed.policy, budget |-> Dialed.memory,
                       windows |-> ClientQuicConfig(Dialed.maxFrame), timeout |-> Dialed.timeout,
                       fallbackDelay |-> Dialed.fallbackDelay,
                       reprobeInterval |-> Dialed.reprobeInterval]
    /\ UNCHANGED <<config, asked, attempt, delay, options, limits>>

(* supervise waits before each attempt. *)
Reconnect(random) ==
    /\ dialer.live /\ attempt < MaxAttempt
    /\ attempt' = attempt + 1 /\ delay' = Delay(dialer.backoff, attempt + 1, random)
    /\ UNCHANGED <<config, asked, dialer, options, limits>>

-----------------------------------------------------------------------------
(* The server's side.  An option is <<>> where it is not set and <<n>> where it is. *)
StreamCreditLimit(streams) ==
    IF streams = <<>> THEN MaxStreamCount ELSE Least(Head(streams) * CreditFactor, MaxStreamCount)

(* connection_receive_window *)
ConnectionReceiveWindow(o, stream) ==
    LET everyStream == IF o.streams # <<>> /\ Head(o.streams) > 1
                       THEN Saturated(stream * Head(o.streams)) ELSE stream
        bound == IF o.body = <<>> THEN DefaultWindow ELSE Least(DefaultWindow, Head(o.body))
    IN  Greatest(Least(everyStream, bound), stream)

(* transport_limits: QUIC has one stream more, of the WebTransport session. *)
TransportLimits(o) ==
    LET stream == FrameReceiveWindow(o.frame)
    IN  [stream |-> stream, connection |-> ConnectionReceiveWindow(o, stream),
         streams |-> IF o.streams = <<>> THEN <<>>
                     ELSE <<Least(StreamCreditLimit(o.streams) + 1, MaxStreamCount)>>]

(* apply_transport_limits, in Server::quic_config: what is not set stays Quinn's, and so does an   *)
(* idle timeout that QUIC cannot express.                                                          *)
QuicLimits(o) ==
    LET set == TransportLimits(o)
    IN  [stream |-> Varint(set.stream), connection |-> Varint(set.connection),
         streams |-> IF set.streams = <<>> THEN QuinnStreams ELSE Varint(Head(set.streams)),
         idle |-> IF o.idle = <<Top>> THEN <<>> ELSE o.idle]
(* qmux_conn.rs server_config: no idle timeout is a timeout of zero. *)
QmuxLimits(o) ==
    LET set == TransportLimits(o)
    IN  [stream |-> set.stream, connection |-> set.connection,
         streams |-> StreamCreditLimit(o.streams),
         idle |-> IF o.idle = <<>> THEN <<0>> ELSE o.idle]

ConfigureServer(o) ==
    /\ ~limits.live /\ dialer = NoDialer /\ asked = <<>>
    /\ options' = [live |-> TRUE, of |-> o]
    /\ limits' = [live |-> TRUE, quic |-> QuicLimits(o), qmux |-> QmuxLimits(o)]
    /\ UNCHANGED <<config, asked, dialer, attempt, delay>>

-----------------------------------------------------------------------------
Optional == {<<>>} \union {<<n>> : n \in Values}

SettingsNext ==
    \/ \E n \in Values, field \in DOMAIN config :
           SetRate(field, n) \/ SetTime(field, n) \/ SetConns(field, n)
    \/ \E n, max \in Values, ratio \in {"nan", "negative", "half", "more"} : SetBackoff(n, max, ratio)
    \/ \E n \in Values : SetMemory(n) \/ SetFrameSize(n)
    \/ \E policy \in {"Auto", "QuicOnly", "TcpOnly"} : SetPolicy(policy)
    \/ \E v \in {"valid", "invalid"} : SetCompression(v) \/ SetMetadata(v)
    \/ SetTcp \/ SetTcpAddr \/ WithDefaultTcpFallback \/ Connect
    \/ \E random \in 0..Units : Reconnect(random)
    \/ \E frame \in Values, streams, body \in Optional, idle \in {<<>>, <<1>>, <<Top>>} :
           ConfigureServer([frame |-> frame, streams |-> streams, body |-> body, idle |-> idle])

SettingsSpec == SettingsInit /\ [][SettingsNext]_settingsVars

-----------------------------------------------------------------------------
(* The value a setter was last given, or the default. *)
LastAsked(name, default) ==
    LET calls == SelectSeq(asked, LAMBDA call : call.name = name)
    IN  IF calls = <<>> THEN default ELSE calls[Len(calls)].value
Asked(name) == \E i \in DOMAIN asked : asked[i].name = name

(* The pool a channel dials keeps at least the connections that were asked for and never fewer     *)
(* than one, whatever limit was set before or after; the application's own TCP fallback is never   *)
(* replaced by the default one; a channel exists only where what it was last given is valid; and   *)
(* neither a window of a client nor one of a server is so small that a frame of the size it        *)
(* accepts could not arrive, as far as QUIC can express one (ChannelConfig, connect_to,            *)
(* connection_receive_window, varint).                                                             *)
SettingsHold ==
    /\ dialer.live =>
           /\ dialer.pool.min = Greatest(1, LastAsked("minConns", 1))
           /\ dialer.pool.max = Greatest(dialer.pool.min, LastAsked("maxConns", 2))
           /\ dialer.tcp = IF Asked("tcp") THEN "own" ELSE IF Asked("default") THEN "default" ELSE "none"
           /\ {LastAsked("compression", "valid"), LastAsked("metadata", "valid")} = {"valid"}
           /\ \A window \in {dialer.windows.stream, dialer.windows.connection} :
                  window >= Least(LastAsked("maxFrame", 2) + FrameHeaderLen, VarIntMax)
    /\ limits.live =>
           \A transport \in {limits.quic, limits.qmux} :
               /\ transport.stream >= Least(options.of.frame + FrameHeaderLen, VarIntMax)
               /\ transport.connection >= transport.stream
               /\ options.of.streams # <<>> =>
                      transport.streams >= Least(Head(options.of.streams), MaxStreamCount)

(* However many attempts failed and however they were jittered, a channel waits no longer than the *)
(* backoff's maximum, and no less than the ratio allows of the delay the attempts doubled to, as   *)
(* long as they double it: neither a shift that wraps around nor an extreme delay or ratio hammers *)
(* the server or parks the channel (delay).                                                        *)
ReconnectsArePaced ==
    attempt > 0 =>
        LET backoff == dialer.backoff
            doubled == backoff.initial * 2 ^ Least(attempt - 1, MaxShift)
        IN  /\ delay <= backoff.max
            /\ delay * Units >= Least(backoff.max, doubled) * (Units - backoff.ratio)

(* The QMux transport parameters of a server mirror its QUIC limits: QUIC grants at least the      *)
(* streams that QMux does (qmux_conn.rs server_config).                                            *)
QmuxMirrorsQuic == limits.live => limits.quic.streams >= limits.qmux.streams

=============================================================================
