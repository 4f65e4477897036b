----------------------------- MODULE ChannelDial ----------------------------
(***************************************************************************)
(* The channel with the dials that it takes as single steps opened up      *)
(* (client/race.rs, client/resolve.rs): the addresses of its host are       *)
(* ordered, each transport tries them Happy Eyeballs style, QUIC races QMux *)
(* over TLS, and who won is remembered for the reprobe interval.           *)
(*                                                                         *)
(* A dial runs while the supervisor is "dialing"; it ends in the channel's *)
(* Install or DialFails, and the supervisor that sees the shutdown drops   *)
(* it.  A dropped future abandons its attempts.                            *)
(***************************************************************************)
EXTENDS Channel, Sequences, FiniteSets, Functions

CONSTANTS Ipv4, Ipv6,     \* addresses
          Answers,        \* what the resolver may return
          MinConnections, \* min_quic_connections, at least 1
          Reaches         \* what the network may let through: sets of attempts

Addresses == Ipv4 \union Ipv6
Transports == {"quic", "tcp"}
Attempts == Transports \X Addresses

ASSUME DialAssumption ==
    /\ IsFiniteSet(Addresses) /\ Addresses # {} /\ Ipv4 \intersect Ipv6 = {}
    /\ Answers \subseteq Seq(Addresses) \ {<<>>} /\ MinConnections \in Nat \ {0}
    /\ Reaches \subseteq SUBSET Attempts

VARIABLES reach,     \* the attempts that the network lets through, since the first connection
          policy,    \* TransportPolicy
          tcp,       \* the TCP fallback: "none", at the "same" addresses, or at a "fixed" one
          answer,    \* what the resolver returns, when it does
          bounded,   \* whether there is a connect_timeout
          mode,      \* what the dial in progress does: "idle", "quic", "tcp" or "race"
          quic,      \* dial_quic: its stage, the address found, its connections pending and up
          eyes,      \* the state of each transport's happy_eyeballs
          memory,    \* quic_failed_at: "none", "recent", or "old" past the reprobe interval
          up,        \* the last generation's transport, and its address (Route::addr)
          failure    \* of the last dial, if every attempt failed: its mode and the attempts

network == <<reach, policy, tcp, answer, bounded>>
race == <<mode, quic, eyes>>
remembered == <<memory, up, failure>>
dialVars == <<vars, network, race, remembered>>

-----------------------------------------------------------------------------
(* The addresses, and the order interleave gives them. *)

(* b is returned before any a. *)
Earlier(addrs, b, a) == \E i \in DOMAIN addrs : addrs[i] = b /\ \A j \in 1..i : addrs[j] # a
(* Each family keeps its order, without duplicates; they alternate, from the first address's. *)
Place(addrs, a) ==
    LET SameFamily(b) == (a \in Ipv4) = (b \in Ipv4) IN
    2 * Cardinality({b \in Range(addrs) : SameFamily(b) /\ Earlier(addrs, b, a)})
        + (IF SameFamily(addrs[1]) THEN 0 ELSE 1)
Places == [addrs \in Answers |-> [a \in Addresses |-> Place(addrs, a)]]

(* A fixed TCP address need not be one of the host's. *)
Fixed == CHOOSE a \in Addresses : TRUE
Targets(t) == IF t = "tcp" /\ tcp = "fixed" THEN {Fixed} ELSE Range(answer)

(* happy_eyeballs: which attempts run and which failed; the addresses still pending, in order. *)
Off == [live |-> {}, failed |-> {}]
Pending(e, t) == Targets(t) \ (e.live \union e.failed)
Foremost(addrs) == CHOOSE a \in addrs : \A b \in addrs : Places[answer][a] <= Places[answer][b]
StartNext(e, t) ==
    IF Pending(e, t) # {} THEN [e EXCEPT !.live = @ \union {Foremost(Pending(e, t))}] ELSE e
(* A failure that waits for the delay before it starts the next attempt. *)
AttemptFailedLast(e, t, a) == [e EXCEPT !.live = @ \ {a}, !.failed = @ \union {a}]
AttemptFailed(e, t, a) == StartNext([e EXCEPT !.live = @ \ {a}, !.failed = @ \union {a}], t)

QuicOff == [stage |-> "off", addr |-> Fixed, pending |-> 0, up |-> 0]
NoFailure == [mode |-> "idle", failed |-> {}]

Tcp == policy # "quic" /\ tcp # "none"
(* What the policy lets a dial try. *)
Allowed == {p \in Attempts :
              p[2] \in Targets(p[1]) /\ IF p[1] = "tcp" THEN Tcp ELSE policy # "tcp"}

(* connect_to: the first dial connected somewhere, by QMux only after a race with QUIC under Auto. *)
(* The network may have changed since.                                                              *)
DialInit ==
    /\ Init
    /\ reach \in Reaches /\ policy \in {"auto", "quic", "tcp"} /\ tcp \in {"none", "same", "fixed"}
    /\ answer \in Answers /\ bounded \in BOOLEAN
    /\ mode = "idle" /\ quic = QuicOff /\ eyes = [t \in Transports |-> Off]
    /\ up \in Allowed
    /\ memory = IF policy = "auto" /\ up[1] = "tcp" THEN "recent" ELSE "none"
    /\ failure = NoFailure

-----------------------------------------------------------------------------
(* dial, dial_unbounded and race. *)

(* One address goes straight to the minimum of connections; more are tried first. *)
Alone == \A a, b \in Targets("quic") : a = b
StartQuic ==
    IF Alone
    THEN [stage |-> "filling", addr |-> Foremost(Targets("quic")), pending |-> MinConnections, up |-> 0]
    ELSE [QuicOff EXCEPT !.stage = "finding"]
QuicEyes == IF Alone THEN Off ELSE StartNext(Off, "quic")
TcpEyes == StartNext(Off, "tcp")

(* A lost race that is never forgotten. *)
BeginRemembering ==
    /\ supervisor = "dialing" /\ mode = "idle"
    /\ mode' = IF policy = "tcp" \/ (Tcp /\ memory # "none") THEN "tcp"
               ELSE IF Tcp THEN "race" ELSE "quic"
    /\ quic' = IF mode' = "tcp" THEN QuicOff ELSE StartQuic
    /\ eyes' = IF mode' = "tcp" THEN [eyes EXCEPT !["tcp"] = TcpEyes]
               ELSE [eyes EXCEPT !["quic"] = QuicEyes]
    /\ failure' = NoFailure
    /\ UNCHANGED <<vars, network, memory, up>>
(* The policy, and the memory of the last race, choose what is dialed.  TcpOnly without a fallback *)
(* never connected.                                                                                 *)
Begin ==
    /\ supervisor = "dialing" /\ mode = "idle"
    /\ mode' = IF policy = "tcp" \/ (Tcp /\ memory = "recent") THEN "tcp"
               ELSE IF Tcp THEN "race" ELSE "quic"
    /\ quic' = IF mode' = "tcp" THEN QuicOff ELSE StartQuic
    /\ eyes' = IF mode' = "tcp" THEN [eyes EXCEPT !["tcp"] = TcpEyes]
               ELSE [eyes EXCEPT !["quic"] = QuicEyes]
    /\ failure' = NoFailure
    /\ UNCHANGED <<vars, network, memory, up>>

(* Target::resolve fails; a fixed address under TcpOnly needs no resolver. *)
ResolveFails ==
    /\ mode = "idle" /\ ~(policy = "tcp" /\ tcp = "fixed")
    /\ DialFails
    /\ failure' = NoFailure
    /\ UNCHANGED <<network, race, memory, up>>

FallbackDelay ==
    /\ mode = "race" /\ eyes["tcp"] = Off
    /\ eyes' = [eyes EXCEPT !["tcp"] = TcpEyes]
    /\ UNCHANGED <<vars, network, mode, quic, remembered>>

DropDial == mode' = "idle" /\ quic' = QuicOff /\ eyes' = [t \in Transports |-> Off]

ConnectTimeout ==
    /\ bounded /\ mode # "idle"
    /\ DropDial /\ DialFails /\ UNCHANGED <<network, remembered>>

(* The winner's address is the route, and of a race it is remembered who won it. *)
Connected(t, a) ==
    /\ DropDial /\ Install
    /\ up' = <<t, a>>
    /\ memory' = IF mode # "race" THEN memory ELSE IF t = "quic" THEN "none" ELSE "recent"
    /\ UNCHANGED failure

(* Every attempt of a transport failed: so does the dial, unless the other transport still runs. *)
TransportFailed(newQuic, newEyes) ==
    LET quicOver == mode = "tcp" \/ newQuic.stage = "failed"
        tcpOver == mode = "quic" \/ (newEyes["tcp"] # Off /\ newEyes["tcp"].live = {}) IN
    IF quicOver /\ tcpOver
    THEN /\ DropDial /\ DialFails
         /\ failure' = [mode |-> mode, failed |-> {p \in Attempts : p[2] \in newEyes[p[1]].failed}]
         /\ UNCHANGED <<memory, up>>
    ELSE /\ quic' = newQuic
         /\ eyes' = IF mode = "race" /\ quicOver /\ newEyes["tcp"] = Off
                    THEN [newEyes EXCEPT !["tcp"] = TcpEyes] ELSE newEyes
         /\ UNCHANGED <<vars, mode, remembered>>

-----------------------------------------------------------------------------
(* The attempts. *)

AttemptDelay(t) ==
    /\ eyes[t].live # {} /\ Pending(eyes[t], t) # {}
    /\ eyes' = [eyes EXCEPT ![t] = StartNext(@, t)]
    /\ UNCHANGED <<vars, network, mode, quic, remembered>>

TcpConnects(a) ==
    /\ a \in eyes["tcp"].live /\ <<"tcp", a>> \in reach
    /\ Connected("tcp", a) /\ UNCHANGED network

TcpFails(a) ==
    /\ a \in eyes["tcp"].live /\ <<"tcp", a>> \notin reach
    /\ TransportFailed(quic, [eyes EXCEPT !["tcp"] = AttemptFailed(@, "tcp", a)])
    /\ UNCHANGED network

QuicFails(a) ==
    /\ quic.stage = "finding" /\ a \in eyes["quic"].live /\ <<"quic", a>> \notin reach
    /\ LET newEyes == AttemptFailed(eyes["quic"], "quic", a) IN
        TransportFailed([quic EXCEPT !.stage = IF newEyes.live = {} THEN "failed" ELSE @],
                        [eyes EXCEPT !["quic"] = newEyes])
    /\ UNCHANGED network

(* The minimum is dialed when no connection is pending; one that is up is enough. *)
Filled(q, newEyes) ==
    IF q.pending > 0
    THEN quic' = q /\ eyes' = newEyes /\ UNCHANGED <<vars, mode, remembered>>
    ELSE IF q.up > 0 THEN Connected("quic", q.addr)
    ELSE TransportFailed([q EXCEPT !.stage = "failed"],
                         [newEyes EXCEPT !["quic"].failed = @ \union {q.addr}])

QuicFinds(a) ==
    /\ quic.stage = "finding" /\ a \in eyes["quic"].live /\ <<"quic", a>> \in reach
    /\ Filled([stage |-> "filling", addr |-> a, pending |-> MinConnections - 1, up |-> 1],
              [eyes EXCEPT !["quic"].live = {}])
    /\ UNCHANGED network

QuicFills ==
    /\ quic.stage = "filling" /\ <<"quic", quic.addr>> \in reach
    /\ Filled([quic EXCEPT !.pending = @ - 1, !.up = @ + 1], eyes)
    /\ UNCHANGED network
(* An address that answers does so at least once. *)
QuicFillFails ==
    /\ quic.stage = "filling" /\ (quic.pending > 1 \/ quic.up > 0 \/ <<"quic", quic.addr>> \notin reach)
    /\ Filled([quic EXCEPT !.pending = @ - 1], eyes)
    /\ UNCHANGED network

ReprobeInterval ==
    /\ memory = "recent" /\ memory' = "old"
    /\ UNCHANGED <<vars, network, race, up, failure>>

-----------------------------------------------------------------------------

(* The rest of the channel; the supervisor drops the dial in progress when it sees the shutdown. *)
ChannelSteps ==
    /\ Supervises \/ Close \/ Closes \/ \E t \in open : Lose(t)
    /\ IF supervisor = "dialing" /\ supervisor' # "dialing" THEN DropDial ELSE UNCHANGED race
    /\ UNCHANGED <<network, remembered>>

Connects == QuicFills \/ \E a \in Addresses : TcpConnects(a) \/ QuicFinds(a)
Fails == QuicFillFails \/ \E a \in Addresses : TcpFails(a) \/ QuicFails(a)
Delays == FallbackDelay \/ \E t \in Transports : AttemptDelay(t)
DialNext ==
    \/ ChannelSteps \/ Begin \/ ResolveFails \/ Connects \/ Fails \/ Delays \/ ConnectTimeout
    \/ ReprobeInterval

(* Tasks run and timers fire; a resolver asked again and again answers some time; the attempts that *)
(* the network lets through connect, and the others fail by the timeouts of QUIC and TCP.            *)
DialSpec ==
    /\ DialInit /\ [][DialNext]_dialVars
    /\ WF_dialVars(ChannelSteps /\ Supervises) /\ WF_dialVars(ChannelSteps /\ Closes)
    /\ SF_dialVars(Begin) /\ WF_dialVars(ReprobeInterval)
    /\ WF_dialVars(Connects) /\ WF_dialVars(Fails) /\ WF_dialVars(Delays)

-----------------------------------------------------------------------------

(* A dial fails, other than by its timeout or for want of addresses, only when every address failed *)
(* over every transport it was to use: no failure, of either transport, in either order, ends it     *)
(* early (Dialer::race, happy_eyeballs).                                                              *)
FailsWhenAllDid ==
    \A t \in Transports : failure.mode \in {t, "race"} =>
        {a \in Addresses : <<t, a>> \in failure.failed} = Targets(t)

(* A lost connection is replaced wherever an address answers over a transport the policy allows,    *)
(* though the network is not the one the channel first connected on and what it remembers of it is    *)
(* stale, unless the channel is closed (supervise, dial_unbounded); a connect_timeout may be too      *)
(* short, and the bound on dials ends the model.                                                      *)
ConnectsWhereItCan ==
    (slot.phase = "Reconnecting" /\ Allowed \intersect reach # {} /\ ~bounded)
        ~> (slot.phase # "Reconnecting" \/ dialed = MaxDials)
=============================================================================
