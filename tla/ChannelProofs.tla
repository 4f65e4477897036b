--------------------------- MODULE ChannelProofs ----------------------------
(***************************************************************************)
(* That a channel leaks no connection and that its generations grow, for   *)
(* any number of losses, dials and attempts; that the channel with its     *)
(* dials opened up implements the one that takes them as steps; and that   *)
(* no dial gives up early, for any addresses and answers of the resolver.  *)
(* And of the calls with one response made over it: that they send what    *)
(* was set last, and end as their frames tell, for any number of both.     *)
(***************************************************************************)
EXTENDS ChannelDial, UnaryCall, TLAPS

States == [phase : {"Ready", "Reconnecting", "Closed"}, generation : Nat, attempt : Nat]

TypeOK ==
    /\ slot \in States
    /\ transport \in Nat /\ taken \in Nat /\ dialed \in Nat /\ current \in Nat
    /\ generation \in Nat /\ attempt \in Nat
    /\ supervisor \in {"watching", "lost", "attempting", "attempted", "sleeping", "dialing",
                       "installed", "returned"}
    /\ closer \in {"idle", "publishing", "stopping", "done"}

(* Only the connection the supervisor watches can be open, and none while it looks for another. *)
OpenInv ==
    /\ open \subseteq {current} /\ current <= dialed
    /\ supervisor \in {"lost", "attempting", "attempted", "sleeping", "dialing"} => open = {}

(* The slot is closed by the first close, and holds the open connection until then. *)
SlotInv ==
    /\ closer # "idle" <=> slot.phase = "Closed"
    /\ closer = "idle" => transport = current \/ open = {}

(* close ends the connection it took; what is installed after it is none. *)
CloseInv ==
    /\ closer \in {"publishing", "stopping"} => taken = current \/ open = {}
    /\ closer = "done" => open = {}

ChannelInv == TypeOK /\ OpenInv /\ SlotInv /\ CloseInv

-----------------------------------------------------------------------------
(* The first connection is the one watched, in the slot, and open. *)
LEMMA ChannelInitial == Init => ChannelInv
  BY ChannelBounds DEF Init, ChannelInv, TypeOK, OpenInv, SlotInv, CloseInv, States, Established

(* No step changes a type: a state is changed field by field, or replaced by another. *)
LEMMA ChannelTypes ==
    ASSUME TypeOK, [Next]_vars
    PROVE  TypeOK'
<1> USE ChannelBounds DEF TypeOK, States
<1>1. CASE BeginReconnect
  <2>1. CASE slot.phase = "Closed"
    BY <1>1, <2>1, Zenon DEF BeginReconnect, closing, shared
  <2>2. CASE slot.phase # "Closed"
    <3>1. slot' = [slot EXCEPT !.phase = "Reconnecting", !.attempt = 1] /\ generation' = slot.generation
      BY <1>1, <2>2, Zenon DEF BeginReconnect, ChangeSlot
    <3>2. slot' \in States /\ generation' \in Nat
      BY <3>1, Zenon
    <3> QED
      BY <1>1, <2>2, <3>2 DEF BeginReconnect, closing
  <2> QED
    BY <2>1, <2>2, Zenon
<1>2. CASE PublishLost \/ PublishAttempt \/ Awake \/ PublishInstall \/ SeesShutdown
  BY <1>2, Zenon
     DEF PublishLost, PublishAttempt, Awake, PublishInstall, SeesShutdown, shared, locals, closing
<1>3. CASE ReconnectAttempt
  BY <1>3, Zenon DEF ReconnectAttempt, ChangeSlot, locals, closing
<1>4. CASE Install
  BY <1>4 DEF Install, ChangeSlot, closing, shared
<1>5. CASE DialFails
  BY <1>5 DEF DialFails, shared, closing
<1>6. CASE Close
  BY <1>6, Zenon DEF Close, ChangeSlot, locals
<1>7. CASE Closes
  BY <1>7, Zenon DEF Closes, PublishClosed, CloseTransport, shared, locals
<1>8. CASE \E t \in open : Lose(t)
  BY <1>8, Zenon DEF Lose, shared, locals, closing
<1>9. CASE UNCHANGED vars
  BY <1>9, Zenon DEF vars, shared, locals, closing
<1> QED
  BY <1>1, <1>2, <1>3, <1>4, <1>5, <1>6, <1>7, <1>8, <1>9, Zenon DEF Next, Supervises, Dials

(* Every step keeps what is open where close or the supervisor will find it. *)
LEMMA ChannelStep ==
    ASSUME ChannelInv, [Next]_vars
    PROVE  ChannelInv'
<1> USE DEF ChannelInv, OpenInv, SlotInv, CloseInv
<1>0. TypeOK'
  BY ChannelTypes, Zenon
<1>1. CASE BeginReconnect
  BY <1>0, <1>1, ZenonT(30) DEF BeginReconnect, ChangeSlot, published, closing, shared, TypeOK, States
<1>2. CASE PublishLost \/ PublishAttempt \/ Awake \/ PublishInstall
  BY <1>0, <1>2, Zenon
     DEF PublishLost, PublishAttempt, Awake, PublishInstall, shared, locals, closing, TypeOK
<1>3. CASE SeesShutdown
  BY <1>0, <1>3, Zenon DEF SeesShutdown, shared, locals, closing, TypeOK
<1>4. CASE ReconnectAttempt
  BY <1>0, <1>4, Zenon DEF ReconnectAttempt, ChangeSlot, locals, closing, TypeOK, States
<1>5. CASE Install
  <2>1. open = {} /\ dialed' = dialed + 1 /\ UNCHANGED <<closer, taken>>
    BY <1>5, Zenon DEF Install, closing
  <2>2. CASE slot.phase # "Reconnecting" \/ slot.generation # generation
    <3>1. UNCHANGED <<slot, transport, open, current>> /\ supervisor' = "returned"
      BY <1>5, <2>2, Zenon DEF Install, shared
    <3> QED
      BY <1>0, <2>1, <3>1 DEF TypeOK
  <2>3. CASE slot.phase = "Reconnecting" /\ slot.generation = generation
    <3>1. /\ slot'.phase = "Ready" /\ supervisor' = "installed"
          /\ open' = {current'} /\ transport' = current' /\ current' = dialed'
      BY <1>5, <2>1, <2>3 DEF Install, ChangeSlot
    <3>2. closer = "idle"
      BY <2>3, Zenon
    <3> QED
      BY <1>0, <2>1, <3>1, <3>2 DEF TypeOK
  <2> QED
    BY <2>2, <2>3, Zenon
<1>6. CASE DialFails
  BY <1>0, <1>6, Zenon DEF DialFails, shared, closing, TypeOK
<1>7. CASE Close
  BY <1>0, <1>7, Zenon DEF Close, ChangeSlot, locals, TypeOK, States
<1>8. CASE Closes
  BY <1>0, <1>8, Zenon DEF Closes, PublishClosed, CloseTransport, shared, locals, TypeOK
<1>9. CASE \E t \in open : Lose(t)
  BY <1>0, <1>9, Zenon DEF Lose, shared, locals, closing, TypeOK
<1>10. CASE UNCHANGED vars
  BY <1>0, <1>10, Zenon DEF vars, shared, locals, closing
<1> QED
  BY <1>1, <1>2, <1>3, <1>4, <1>5, <1>6, <1>7, <1>8, <1>9, <1>10, Zenon DEF Next, Supervises, Dials

(* The invariant holds in every behaviour of a channel. *)
THEOREM ChannelInductive == Spec => []ChannelInv
  BY ChannelInitial, ChannelStep, PTL DEF Spec

(* Whenever close is done, before or after the supervisor hears of it, nothing is open: a dial    *)
(* that completes later closes its own connection (close, install).                               *)
THEOREM ChannelLeaksNothing == Spec => []NothingLeaks
<1>1. ChannelInv => NothingLeaks
  BY Zenon DEF ChannelInv, CloseInv, NothingLeaks
<1> QED
  BY <1>1, ChannelInductive, PTL

(* Closed is final and a generation is established once, by a younger connection (install). *)
THEOREM ChannelGenerationsGrow == Spec => GenerationsGrow
<1> DEFINE Grows ==
      /\ slot.phase = "Closed" => slot'.phase = "Closed"
      /\ slot'.generation # slot.generation =>
            /\ slot'.generation = slot.generation + 1
            /\ slot.phase = "Reconnecting" /\ slot'.phase = "Ready"
            /\ transport' > current
<1>1. ASSUME ChannelInv, [Next]_vars PROVE [Grows]_vars
  <2> SUFFICES ASSUME Next PROVE Grows
    BY <1>1, Zenon
  <2> USE <1>1 DEF ChannelInv, TypeOK, States
  <2>1. CASE BeginReconnect
    BY <2>1, Zenon DEF BeginReconnect, ChangeSlot, shared
  <2>2. CASE ReconnectAttempt
    BY <2>2, Zenon DEF ReconnectAttempt, ChangeSlot
  <2>3. CASE Install
    BY <2>3 DEF Install, ChangeSlot, shared, OpenInv
  <2>4. CASE Close
    BY <2>4, Zenon DEF Close, ChangeSlot
  <2>5. CASE UNCHANGED slot
    BY <2>5, Zenon
  <2>6. CASE PublishLost \/ PublishAttempt \/ Awake \/ PublishInstall \/ SeesShutdown \/ DialFails
             \/ Closes \/ \E t \in open : Lose(t)
    BY <2>5, <2>6, Zenon DEF PublishLost, PublishAttempt, Awake, PublishInstall, SeesShutdown, DialFails,
                      Closes, PublishClosed, CloseTransport, Lose, shared
  <2> QED
    BY <2>1, <2>2, <2>3, <2>4, <2>6, Zenon DEF Next, Supervises, Dials
<1> QED
  BY <1>1, ChannelInductive, PTL DEF Spec, GenerationsGrow

-----------------------------------------------------------------------------
(* A dial that fails leaves the channel as it is, or fails for it. *)
LEMMA FailedDials ==
    ASSUME NEW newQuic, NEW newEyes, TransportFailed(newQuic, newEyes)
    PROVE  [Next]_vars
  BY Zenon DEF TransportFailed, Next, Dials

(* So does one more connection of the minimum, or it is installed. *)
LEMMA FilledDials ==
    ASSUME NEW q, NEW newEyes, Filled(q, newEyes)
    PROVE  [Next]_vars
<1>1. CASE Connected("quic", q.addr)
  BY <1>1, Zenon DEF Connected, Next, Dials
<1> QED
  BY <1>1, FailedDials, Zenon DEF Filled

(* Every step of a dial is one of the channel, or none that the channel sees. *)
LEMMA DialSteps == [DialNext]_dialVars => [Next]_vars
<1> SUFFICES ASSUME [DialNext]_dialVars PROVE [Next]_vars
  BY Zenon
<1>1. CASE ChannelSteps
  BY <1>1, Zenon DEF ChannelSteps, Next
<1>2. CASE Begin \/ Delays \/ ReprobeInterval \/ UNCHANGED dialVars
  BY <1>2, Zenon DEF Begin, Delays, FallbackDelay, AttemptDelay, ReprobeInterval, dialVars
<1>3. CASE ResolveFails \/ ConnectTimeout
  BY <1>3, Zenon DEF ResolveFails, ConnectTimeout, Next, Dials
<1>4. CASE Connects
  <2>1. ASSUME NEW a \in Addresses, TcpConnects(a) PROVE [Next]_vars
    BY <2>1, Zenon DEF TcpConnects, Connected, Next, Dials
  <2> QED
    BY <1>4, <2>1, FilledDials, Zenon DEF Connects, QuicFills, QuicFinds
<1>5. CASE Fails
  BY <1>5, FilledDials, FailedDials, Zenon DEF Fails, QuicFillFails, TcpFails, QuicFails
<1> QED
  BY <1>1, <1>2, <1>3, <1>4, <1>5, Zenon DEF DialNext

(* The channel with the race, the addresses and the attempts of its dials implements the one whose *)
(* dials are single steps: they end in install or reconnect_failed, or are dropped (supervise).    *)
THEOREM DialImplementsChannel == DialSpec => Spec
<1>1. DialInit => Init
  BY Zenon DEF DialInit
<1> QED
  BY <1>1, DialSteps, PTL DEF DialSpec, Spec

(* However its dials race, a closed channel whose supervisor returned has no open connection. *)
THEOREM DialLeaksNothing == DialSpec => []NothingLeaks
  BY DialImplementsChannel, ChannelLeaksNothing, PTL

(* However its dials race, closed is final and a generation is established once. *)
THEOREM DialGenerationsGrow == DialSpec => GenerationsGrow
  BY DialImplementsChannel, ChannelGenerationsGrow, PTL

-----------------------------------------------------------------------------
(* What a dial has tried. *)

Eyes == [live : SUBSET Addresses, failed : SUBSET Addresses]
Quics == [stage : {"off", "finding", "filling", "failed"}, addr : Addresses, pending : Nat, up : Nat]

DialTypeOK ==
    /\ answer \in Answers /\ tcp \in {"none", "same", "fixed"}
    /\ mode \in {"idle", "quic", "tcp", "race"}
    /\ quic \in Quics /\ eyes \in [Transports -> Eyes]

(* Attempts over TCP that have all stopped went through every address. *)
TcpInv(e) ==
    /\ e.live \union e.failed \subseteq Targets("tcp")
    /\ e.live = {} => e.failed \in {{}, Targets("tcp")}
    /\ mode \in {"idle", "quic"} => e = Off

(* So did those over QUIC that failed; the minimum is dialed at an address that answered, or at the *)
(* only one.                                                                                         *)
QuicInv(q, e) ==
    /\ e.live \union e.failed \subseteq Targets("quic")
    /\ q.stage = "filling" /\ q.up = 0 => Targets("quic") = {q.addr}
    /\ q.stage = "failed" => e.failed = Targets("quic")
    /\ mode \in {"idle", "tcp"} => q = QuicOff
    /\ mode = "idle" => e = Off

RaceInv ==
    /\ TcpInv(eyes["tcp"]) /\ QuicInv(quic, eyes["quic"])
    /\ quic.stage = "filling" => quic.pending > 0
DialInv == DialTypeOK /\ RaceInv /\ FailsWhenAllDid

(* There is an address to dial. *)
LEMMA TargetsAreAddresses ==
    ASSUME DialTypeOK, NEW t \in Transports
    PROVE  Targets(t) \subseteq Addresses /\ Targets(t) # {}
<1>1. Fixed \in Addresses
  BY DialAssumption, Zenon DEF Fixed
<1>2. answer \in Seq(Addresses) /\ answer # <<>>
  BY DialAssumption, Zenon DEF DialTypeOK
<1>3. 1 \in DOMAIN answer /\ \A i \in DOMAIN answer : answer[i] \in Addresses
  BY <1>2
<1>4. Range(answer) \subseteq Addresses /\ Range(answer) # {}
  BY <1>3, Zenon DEF Range
<1> QED
  BY <1>1, <1>4, Zenon DEF Targets

(* Of any addresses that are looked up, one comes first. *)
HasForemost == \A S \in SUBSET Addresses : S # {} => Foremost(S) \in S

(* Starting the next attempt adds one, unless every address was tried. *)
LEMMA Starting ==
    ASSUME DialTypeOK, HasForemost, NEW t \in Transports, NEW e \in Eyes, e.live \union e.failed \subseteq Targets(t)
    PROVE  /\ StartNext(e, t) \in Eyes
           /\ StartNext(e, t).live \union StartNext(e, t).failed \subseteq Targets(t)
           /\ StartNext(e, t).failed = e.failed
           /\ e.live \subseteq StartNext(e, t).live
           /\ StartNext(e, t).live = {} => e.live = {} /\ e.failed = Targets(t)
<1>1. CASE Pending(e, t) = {}
  BY <1>1, Zenon DEF StartNext, Pending
<1>2. CASE Pending(e, t) # {}
  <2> DEFINE a == Foremost(Pending(e, t))
  <2>1. a \in Targets(t) /\ a \in Addresses
    BY <1>2, TargetsAreAddresses, Zenon DEF HasForemost, Pending
  <2>2. StartNext(e, t) = [e EXCEPT !.live = @ \union {a}]
    BY <1>2, Zenon DEF StartNext
  <2> HIDE DEF a
  <2> QED
    BY <2>1, <2>2, Zenon DEF Eyes
<1> QED
  BY <1>1, <1>2, Zenon

(* A failure starts the next attempt; the last to fail leaves every address tried. *)
LEMMA Failing ==
    ASSUME DialTypeOK, HasForemost, NEW t \in Transports, NEW e \in Eyes, e.live \union e.failed \subseteq Targets(t),
           NEW a \in e.live
    PROVE  /\ AttemptFailed(e, t, a) \in Eyes
           /\ AttemptFailed(e, t, a).live \union AttemptFailed(e, t, a).failed \subseteq Targets(t)
           /\ AttemptFailed(e, t, a).live = {} => AttemptFailed(e, t, a).failed = Targets(t)
<1> DEFINE f == [e EXCEPT !.live = @ \ {a}, !.failed = @ \union {a}]
<1>1. f \in Eyes /\ f.live \union f.failed \subseteq Targets(t)
  BY Zenon DEF Eyes
<1>2. AttemptFailed(e, t, a) = StartNext(f, t)
  BY Zenon DEF AttemptFailed
<1> HIDE DEF f
<1> QED
  BY <1>1, <1>2, Starting

(* A dial that ends, or is dropped, leaves nothing behind. *)
LEMMA Dropping ==
    ASSUME DialTypeOK, DropDial, UNCHANGED network
    PROVE  DialTypeOK' /\ RaceInv'
<1>1. Fixed \in Addresses /\ Off \in Eyes
  BY DialAssumption, Zenon DEF Fixed, Off, Eyes
<1>2. QuicOff \in Quics /\ QuicOff.stage = "off"
  BY <1>1, Zenon DEF QuicOff, Quics
<1>3. eyes'["tcp"] = Off /\ eyes'["quic"] = Off /\ quic' = QuicOff /\ mode' = "idle"
  BY Zenon DEF DropDial, Transports
<1>4. DialTypeOK'
  BY <1>1, <1>2, Zenon DEF DialTypeOK, DropDial, network
<1>5. Off.live = {} /\ Off.failed = {}
  BY Zenon DEF Off
<1>6. TcpInv(eyes["tcp"])' /\ QuicInv(quic, eyes["quic"])'
  BY <1>2, <1>3, <1>5, Zenon DEF TcpInv, QuicInv
<1> QED
  BY <1>2, <1>3, <1>4, <1>6, Zenon DEF RaceInv

(* What failed last stays so until the next dial. *)
LEMMA SameFailure ==
    ASSUME FailsWhenAllDid, UNCHANGED network, failure' = failure \/ failure' = NoFailure
    PROVE  FailsWhenAllDid'
<1>1. \A t : Targets(t)' = Targets(t)
  BY Zenon DEF Targets, network
<1>2. CASE failure' = failure
  BY <1>1, <1>2, Zenon DEF FailsWhenAllDid
<1>3. CASE failure' = NoFailure
  BY <1>3, Zenon DEF FailsWhenAllDid, NoFailure, Transports
<1> QED
  BY <1>2, <1>3, Zenon

(* A step that changes only the state of the race, to one that keeps the invariant. *)
LEMMA Racing ==
    ASSUME DialInv, UNCHANGED <<network, mode, failure>>, quic' \in Quics, eyes' \in [Transports -> Eyes],
           TcpInv(eyes'["tcp"]), QuicInv(quic', eyes'["quic"]), quic'.stage = "filling" => quic'.pending > 0
    PROVE  DialInv'
<1>1. \A t : Targets(t)' = Targets(t)
  BY Zenon DEF Targets, network
<1>2. DialTypeOK'
  BY Zenon DEF DialInv, DialTypeOK, network
<1>3. RaceInv'
  BY <1>1, Zenon DEF RaceInv, TcpInv, QuicInv
<1>4. FailsWhenAllDid'
  BY SameFailure, Zenon DEF DialInv
<1> QED
  BY <1>2, <1>3, <1>4, Zenon DEF DialInv

(* The dial fails only if both transports, or the only one, went through every address. *)
LEMMA TransportFails ==
    ASSUME DialInv, HasForemost, mode # "idle", NEW q \in Quics, NEW e \in [Transports -> Eyes], TcpInv(e["tcp"]),
           QuicInv(q, e["quic"]), q.stage = "filling" => q.pending > 0, TransportFailed(q, e),
                  UNCHANGED network
    PROVE  DialInv'
<1> DEFINE quicOver == mode = "tcp" \/ q.stage = "failed"
           tcpOver == mode = "quic" \/ (e["tcp"] # Off /\ e["tcp"].live = {})
<1>0. "tcp" \in Transports /\ "quic" \in Transports /\ \A t \in Transports : t \in {"tcp", "quic"}
  BY Zenon DEF Transports
<1>1. CASE quicOver /\ tcpOver
  <2>1. DropDial /\ failure' = [mode |-> mode, failed |-> {p \in Attempts : p[2] \in e[p[1]].failed}]
    BY <1>1, Zenon DEF TransportFailed
  <2>2. DialTypeOK' /\ RaceInv'
    BY <2>1, Dropping, Zenon DEF DialInv
  <2>3. \A t : Targets(t)' = Targets(t)
    BY Zenon DEF Targets, network
  <2>4. ASSUME NEW t \in Transports
        PROVE  {a \in Addresses : <<t, a>> \in failure'.failed} = e[t].failed
    <3>1. e[t].failed \subseteq Addresses
      BY Zenon DEF Eyes
    <3> QED
      BY <2>1, <3>1, Zenon DEF Attempts
  <2>5. mode \in {"tcp", "race"} => e["tcp"].failed = Targets("tcp")
    <3>1. e["tcp"] \in Eyes
      BY <1>0, Zenon
    <3>2. e["tcp"].live = {} /\ e["tcp"].failed = {} => e["tcp"] = Off
      BY <3>1, Zenon DEF Eyes, Off
    <3> QED
      BY <1>1, <3>2, Zenon DEF TcpInv
  <2>6. mode \in {"quic", "race"} => e["quic"].failed = Targets("quic")
    BY <1>1, Zenon DEF QuicInv
  <2>7. failure'.mode = mode
    BY <2>1, Zenon
  <2>8. FailsWhenAllDid'
    BY <1>0, <2>3, <2>4, <2>5, <2>6, <2>7, Zenon DEF FailsWhenAllDid
  <2> QED
    BY <2>2, <2>8, Zenon DEF DialInv
<1>2. CASE ~(quicOver /\ tcpOver)
  <2>1. quic' = q /\ UNCHANGED <<mode, failure>>
    BY <1>2, Zenon DEF TransportFailed, remembered
  <2>2. CASE eyes' = e
    BY <2>1, <2>2, Racing, Zenon
  <2>3. CASE mode = "race" /\ eyes' = [e EXCEPT !["tcp"] = TcpEyes]
    <3>1. Off \in Eyes /\ Off.live = {} /\ Off.failed = {}
      BY Zenon DEF Off, Eyes
    <3>2. /\ TcpEyes \in Eyes /\ TcpEyes.live \union TcpEyes.failed \subseteq Targets("tcp")
          /\ TcpEyes.live # {}
      BY <1>0, <3>1, Starting, TargetsAreAddresses, SMTT(30) DEF TcpEyes, DialInv
    <3>3. TcpInv(TcpEyes)
      BY <2>3, <3>2, Zenon DEF TcpInv
    <3>4. eyes' \in [Transports -> Eyes] /\ eyes'["tcp"] = TcpEyes /\ eyes'["quic"] = e["quic"]
      BY <1>0, <2>3, <3>2, Zenon
    <3> QED
      BY <2>1, <3>3, <3>4, Racing, Zenon
  <2> QED
    BY <1>2, <2>2, <2>3, Zenon DEF TransportFailed
<1> QED
  BY <1>1, <1>2, Zenon

(* One connection of the minimum more, or fewer: at an address that answered it fails no dial. *)
LEMMA Filling ==
    ASSUME DialInv, HasForemost, mode \in {"quic", "race"}, NEW q \in Quics, q.stage = "filling",
           NEW e \in [Transports -> Eyes], e["tcp"] = eyes["tcp"], QuicInv(q, e["quic"]),
           Filled(q, e), UNCHANGED network
    PROVE  DialInv'
<1>0. TcpInv(e["tcp"])
  BY Zenon DEF DialInv, RaceInv
<1>1. CASE q.pending > 0
  <2>1. quic' = q /\ eyes' = e /\ UNCHANGED <<mode, failure>>
    BY <1>1, Zenon DEF Filled, remembered
  <2> QED
    BY <1>0, <1>1, <2>1, Racing, Zenon
<1>2. CASE ~(q.pending > 0) /\ q.up > 0
  <2>1. DropDial /\ failure' = failure
    BY <1>2, Zenon DEF Filled, Connected
  <2> QED
    BY <2>1, Dropping, SameFailure, Zenon DEF DialInv
<1>3. CASE ~(q.pending > 0) /\ ~(q.up > 0)
  <2> DEFINE f == [q EXCEPT !.stage = "failed"]
             g == [e EXCEPT !["quic"].failed = @ \union {q.addr}]
  <2>1. TransportFailed(f, g)
    BY <1>3, Zenon DEF Filled
  <2>2. "tcp" \in Transports /\ "quic" \in Transports
    BY Zenon DEF Transports
  <2>3. q.addr \in Addresses /\ q.up \in Nat
    BY Zenon DEF Quics
  <2>4. f \in Quics /\ f.stage = "failed"
    BY Zenon DEF Quics
  <2>5. g["tcp"] = e["tcp"]
    BY <2>2, Zenon
  <2>6. g["quic"].failed = e["quic"].failed \union {q.addr} /\ g["quic"].live = e["quic"].live
    BY <2>2, Zenon DEF Eyes
  <2>7. g \in [Transports -> Eyes]
    BY <2>2, <2>3, Zenon DEF Eyes
  <2>8. Targets("quic") = {q.addr}
    BY <1>3, <2>3 DEF QuicInv
  <2> HIDE DEF f, g
  <2>9. QuicInv(f, g["quic"])
    BY <2>4, <2>6, <2>8, Zenon DEF QuicInv
  <2> QED
    BY <1>0, <2>1, <2>4, <2>5, <2>7, <2>9, TransportFails, Zenon
<1> QED
  BY <1>1, <1>2, <1>3, Zenon

(* Every step of a dial keeps the invariant. *)
LEMMA DialStep ==
    ASSUME DialInv, HasForemost, [DialNext]_dialVars
    PROVE  DialInv'
<1>0. /\ "tcp" \in Transports /\ "quic" \in Transports
      /\ Off \in Eyes /\ Off.live = {} /\ Off.failed = {}
      /\ eyes["tcp"] \in Eyes /\ eyes["quic"] \in Eyes
      /\ DialTypeOK /\ TcpInv(eyes["tcp"]) /\ QuicInv(quic, eyes["quic"])
  BY Zenon DEF Transports, Off, Eyes, DialInv, RaceInv, DialTypeOK
<1>1. CASE ChannelSteps
  <2>1. UNCHANGED network /\ failure' = failure
    BY <1>1, Zenon DEF ChannelSteps, remembered
  <2>2. CASE DropDial
    BY <1>0, <2>1, <2>2, Dropping, SameFailure, Zenon DEF DialInv
  <2>3. CASE UNCHANGED race
    BY <1>0, <2>1, <2>3, Racing, Zenon DEF race, DialInv, DialTypeOK, RaceInv
  <2> QED
    BY <1>1, <2>2, <2>3, Zenon DEF ChannelSteps
<1>2. CASE Begin
  <2>1. /\ UNCHANGED network /\ failure' = NoFailure /\ mode' \in {"quic", "tcp", "race"}
        /\ eyes["tcp"] = Off /\ eyes["quic"] = Off
    BY <1>0, <1>2, Zenon DEF Begin, TcpInv, QuicInv
  <2>2. FailsWhenAllDid' /\ \A t : Targets(t)' = Targets(t)
    BY <2>1, SameFailure, Zenon DEF DialInv, Targets, network
  <2>3. CASE mode' = "tcp"
    <3>1. quic' = QuicOff /\ eyes' = [eyes EXCEPT !["tcp"] = TcpEyes]
      BY <1>2, <2>3, Zenon DEF Begin
    <3>2. quic' = quic
      BY <1>0, <1>2, <3>1, Zenon DEF Begin, QuicInv
    <3>3. /\ TcpEyes \in Eyes /\ TcpEyes.live \union TcpEyes.failed \subseteq Targets("tcp")
          /\ TcpEyes.live # {}
      BY <1>0, Starting, TargetsAreAddresses DEF TcpEyes
    <3>4. eyes' \in [Transports -> Eyes] /\ eyes'["tcp"] = TcpEyes /\ eyes'["quic"] = Off
      BY <1>0, <2>1, <3>1, <3>3, Zenon DEF DialTypeOK
    <3>5. TcpInv(eyes["tcp"])'
      BY <2>2, <2>3, <3>3, <3>4, Zenon DEF TcpInv
    <3>6. QuicInv(quic, eyes["quic"])' /\ quic'.stage = "off"
      BY <1>0, <2>2, <2>3, <3>1, <3>4, Zenon DEF QuicInv, QuicOff
    <3>7. DialTypeOK'
      BY <1>0, <2>1, <3>2, <3>4, Zenon DEF DialTypeOK, network
    <3> QED
      BY <2>2, <3>5, <3>6, <3>7, Zenon DEF DialInv, RaceInv
  <2>4. CASE mode' \in {"quic", "race"}
    <3>1. quic' = StartQuic /\ eyes' = [eyes EXCEPT !["quic"] = QuicEyes]
      BY <1>2, <2>4, Zenon DEF Begin
    <3>2. Foremost(Targets("quic")) \in Targets("quic") /\ Targets("quic") \subseteq Addresses
      BY <1>0, TargetsAreAddresses, Zenon DEF HasForemost
    <3>3. QuicEyes \in Eyes /\ QuicEyes.live \union QuicEyes.failed \subseteq Targets("quic")
      BY <1>0, Starting, Zenon DEF QuicEyes
    <3>4. eyes' \in [Transports -> Eyes] /\ eyes'["quic"] = QuicEyes /\ eyes'["tcp"] = Off
      BY <1>0, <2>1, <3>1, <3>3, Zenon DEF DialTypeOK
    <3>5. /\ StartQuic \in Quics /\ StartQuic.stage \in {"finding", "filling"}
          /\ StartQuic.stage = "filling" => StartQuic.pending > 0 /\ Targets("quic") = {StartQuic.addr}
      <4>1. CASE Alone
        <5> DEFINE a == Foremost(Targets("quic"))
        <5>1. StartQuic = [stage |-> "filling", addr |-> a, pending |-> MinConnections, up |-> 0]
          BY <4>1, Zenon DEF StartQuic
        <5>2. Targets("quic") = {a}
          BY <3>2, <4>1, Zenon DEF Alone
        <5>3. a \in Addresses /\ MinConnections \in Nat /\ MinConnections > 0
          BY <3>2, DialAssumption
        <5> HIDE DEF a
        <5> QED
          BY <5>1, <5>2, <5>3, Zenon DEF Quics
      <4>2. CASE ~Alone
        <5>1. Fixed \in Addresses
          BY DialAssumption, Zenon DEF Fixed
        <5>2. StartQuic = [stage |-> "finding", addr |-> Fixed, pending |-> 0, up |-> 0]
          BY <4>2, Zenon DEF StartQuic, QuicOff
        <5> QED
          BY <5>1, <5>2, Zenon DEF Quics
      <4> QED
        BY <4>1, <4>2, Zenon
    <3>6. TcpInv(eyes["tcp"])'
      BY <1>0, <3>4, Zenon DEF TcpInv
    <3>7. QuicInv(quic, eyes["quic"])'
      BY <2>2, <2>4, <3>1, <3>3, <3>4, <3>5, Zenon DEF QuicInv
    <3>8. DialTypeOK'
      BY <1>0, <2>1, <2>4, <3>1, <3>4, <3>5, Zenon DEF DialTypeOK, network
    <3> QED
      BY <2>2, <3>1, <3>5, <3>6, <3>7, <3>8, Zenon DEF DialInv, RaceInv
  <2> QED
    BY <2>1, <2>3, <2>4, Zenon
<1>3. CASE ResolveFails
  <2>1. UNCHANGED <<network, race>> /\ failure' = NoFailure
    BY <1>3, Zenon DEF ResolveFails
  <2>2. DialTypeOK' /\ RaceInv'
    BY <2>1, SMTT(30) DEF DialInv, DialTypeOK, RaceInv, TcpInv, QuicInv, Targets, network, race
  <2> QED
    BY <2>1, <2>2, SameFailure, Zenon DEF DialInv
<1>4. ASSUME NEW a \in Addresses, TcpConnects(a) PROVE DialInv'
  <2>1. DropDial /\ UNCHANGED network /\ failure' = failure
    BY <1>4, Zenon DEF TcpConnects, Connected
  <2> QED
    BY <1>0, <2>1, Dropping, SameFailure, Zenon DEF DialInv
<1>5. ASSUME NEW a \in Addresses, QuicFinds(a) PROVE DialInv'
  <2> DEFINE q == [stage |-> "filling", addr |-> a, pending |-> MinConnections - 1, up |-> 1]
             e == [eyes EXCEPT !["quic"].live = {}]
  <2>1. Filled(q, e) /\ UNCHANGED network /\ quic.stage = "finding"
    BY <1>5, Zenon DEF QuicFinds
  <2>2. mode \in {"quic", "race"}
    BY <1>0, <2>1 DEF DialTypeOK, QuicInv, QuicOff
  <2>3. MinConnections - 1 \in Nat
    BY DialAssumption
  <2>4. q \in Quics /\ q.stage = "filling" /\ q.up = 1
    BY <2>3, Zenon DEF Quics
  <2>5. e["tcp"] = eyes["tcp"]
    BY <1>0
  <2>6. e["quic"].live = {} /\ e["quic"].failed = eyes["quic"].failed
    BY <1>0, Zenon DEF DialTypeOK, Eyes
  <2>7. e \in [Transports -> Eyes]
    BY <1>0, Zenon DEF DialTypeOK, Eyes
  <2> HIDE DEF q, e
  <2>8. QuicInv(q, e["quic"])
    BY <1>0, <2>2, <2>4, <2>6, SMTT(30) DEF QuicInv
  <2> QED
    BY <2>1, <2>2, <2>4, <2>5, <2>7, <2>8, Filling, Zenon
<1>6. CASE QuicFills
  <2> DEFINE q == [quic EXCEPT !.pending = @ - 1, !.up = @ + 1]
  <2>1. Filled(q, eyes) /\ UNCHANGED network /\ quic.stage = "filling"
    BY <1>6, Zenon DEF QuicFills
  <2>2. mode \in {"quic", "race"}
    BY <1>0, <2>1 DEF DialTypeOK, QuicInv, QuicOff
  <2>3. quic.pending - 1 \in Nat /\ quic.up + 1 \in Nat /\ quic.up + 1 # 0
    BY <1>0, <2>1 DEF DialInv, RaceInv, DialTypeOK, Quics
  <2>4. q \in Quics /\ q.stage = "filling" /\ q.up = quic.up + 1
    BY <1>0, <2>1, <2>3, Zenon DEF DialTypeOK, Quics
  <2> HIDE DEF q
  <2>5. QuicInv(q, eyes["quic"])
    BY <1>0, <2>2, <2>3, <2>4, Zenon DEF QuicInv
  <2> QED
    BY <1>0, <2>1, <2>2, <2>4, <2>5, Filling, Zenon DEF DialTypeOK
<1>7. CASE QuicFillFails
  <2> DEFINE q == [quic EXCEPT !.pending = @ - 1]
  <2>1. Filled(q, eyes) /\ UNCHANGED network /\ quic.stage = "filling"
    BY <1>7, Zenon DEF QuicFillFails
  <2>2. mode \in {"quic", "race"}
    BY <1>0, <2>1 DEF DialTypeOK, QuicInv, QuicOff
  <2>3. quic.pending - 1 \in Nat
    BY <1>0, <2>1 DEF DialInv, RaceInv, DialTypeOK, Quics
  <2>4. q \in Quics /\ q.stage = "filling" /\ q.up = quic.up /\ q.addr = quic.addr
    BY <1>0, <2>1, <2>3, Zenon DEF DialTypeOK, Quics
  <2> HIDE DEF q
  <2>5. QuicInv(q, eyes["quic"])
    BY <1>0, <2>1, <2>2, <2>4, Zenon DEF QuicInv
  <2> QED
    BY <1>0, <2>1, <2>2, <2>4, <2>5, Filling, Zenon DEF DialTypeOK
<1>8. ASSUME NEW a \in Addresses, TcpFails(a) PROVE DialInv'
  <2> DEFINE f == AttemptFailed(eyes["tcp"], "tcp", a)
             e == [eyes EXCEPT !["tcp"] = f]
  <2>1. TransportFailed(quic, e) /\ UNCHANGED network /\ a \in eyes["tcp"].live
    BY <1>8, Zenon DEF TcpFails
  <2>2. mode \in {"tcp", "race"}
    BY <1>0, <2>1, Zenon DEF DialTypeOK, TcpInv
  <2>3. /\ f \in Eyes /\ f.live \union f.failed \subseteq Targets("tcp")
        /\ f.live = {} => f.failed = Targets("tcp")
    BY <1>0, <2>1, Failing, Zenon DEF TcpInv
  <2> HIDE DEF f
  <2>4. e \in [Transports -> Eyes] /\ e["tcp"] = f /\ e["quic"] = eyes["quic"]
    BY <1>0, <2>3, Zenon DEF DialTypeOK
  <2>5. TcpInv(e["tcp"])
    BY <2>2, <2>3, <2>4, Zenon DEF TcpInv
  <2> HIDE DEF e
  <2> QED
    BY <1>0, <2>1, <2>2, <2>4, <2>5, TransportFails, Zenon DEF DialInv, RaceInv, DialTypeOK
<1>9. ASSUME NEW a \in Addresses, QuicFails(a) PROVE DialInv'
  <2> DEFINE f == AttemptFailed(eyes["quic"], "quic", a)
             e == [eyes EXCEPT !["quic"] = f]
             q == [quic EXCEPT !.stage = IF f.live = {} THEN "failed" ELSE @]
  <2>1. TransportFailed(q, e) /\ UNCHANGED network /\ a \in eyes["quic"].live /\ quic.stage = "finding"
    BY <1>9, Zenon DEF QuicFails
  <2>2. mode \in {"quic", "race"}
    BY <1>0, <2>1 DEF DialTypeOK, QuicInv, QuicOff
  <2>3. /\ f \in Eyes /\ f.live \union f.failed \subseteq Targets("quic")
        /\ f.live = {} => f.failed = Targets("quic")
    BY <1>0, <2>1, Failing, Zenon DEF QuicInv
  <2> HIDE DEF f
  <2>4. e \in [Transports -> Eyes] /\ e["quic"] = f /\ e["tcp"] = eyes["tcp"]
    BY <1>0, <2>3, Zenon DEF DialTypeOK
  <2>5. q \in Quics /\ q.stage = IF f.live = {} THEN "failed" ELSE "finding"
    BY <1>0, <2>1, Zenon DEF DialTypeOK, Quics
  <2> HIDE DEF e, q
  <2>6. QuicInv(q, e["quic"])
    BY <2>2, <2>3, <2>4, <2>5, Zenon DEF QuicInv
  <2> QED
    BY <1>0, <2>1, <2>2, <2>4, <2>5, <2>6, TransportFails, Zenon
<1>10. CASE FallbackDelay
  <2>1. /\ eyes' = [eyes EXCEPT !["tcp"] = TcpEyes] /\ mode = "race"
        /\ UNCHANGED <<network, mode, quic, failure>>
    BY <1>10, Zenon DEF FallbackDelay, remembered
  <2>2. TcpEyes \in Eyes /\ TcpEyes.live \union TcpEyes.failed \subseteq Targets("tcp") /\ TcpEyes.live # {}
    BY <1>0, Starting, TargetsAreAddresses, SMTT(30) DEF TcpEyes
  <2>3. eyes' \in [Transports -> Eyes] /\ eyes'["tcp"] = TcpEyes /\ eyes'["quic"] = eyes["quic"]
    BY <1>0, <2>1, <2>2, Zenon DEF DialTypeOK
  <2>4. TcpInv(TcpEyes)
    BY <2>1, <2>2, Zenon DEF TcpInv
  <2> QED
    BY <1>0, <2>1, <2>3, <2>4, Racing, Zenon DEF DialInv, RaceInv, DialTypeOK
<1>11. ASSUME NEW t \in Transports, AttemptDelay(t) PROVE DialInv'
  <2> DEFINE f == StartNext(eyes[t], t)
  <2>1. /\ eyes' = [eyes EXCEPT ![t] = f] /\ eyes[t].live # {} /\ t \in {"tcp", "quic"}
        /\ UNCHANGED <<network, mode, quic, failure>>
    BY <1>11, Zenon DEF AttemptDelay, remembered, Transports
  <2>2. eyes[t] \in Eyes /\ eyes[t].live \union eyes[t].failed \subseteq Targets(t)
    BY <1>0, <2>1, Zenon DEF TcpInv, QuicInv
  <2>3. /\ f \in Eyes /\ f.live \union f.failed \subseteq Targets(t)
        /\ f.live # {} /\ f.failed = eyes[t].failed
    BY <1>0, <2>1, <2>2, Starting, Zenon
  <2> HIDE DEF f
  <2>4. eyes' \in [Transports -> Eyes]
    BY <1>0, <2>1, <2>3, Zenon DEF DialTypeOK
  <2>5. CASE t = "tcp"
    <3>1. eyes'["tcp"] = f /\ eyes'["quic"] = eyes["quic"]
      BY <1>0, <2>1, <2>5, Zenon DEF DialTypeOK
    <3>2. TcpInv(f)
      BY <1>0, <2>1, <2>3, <2>5, Zenon DEF TcpInv
    <3> QED
      BY <1>0, <2>1, <2>4, <3>1, <3>2, Racing, Zenon DEF DialInv, RaceInv, DialTypeOK
  <2>6. CASE t = "quic"
    <3>1. eyes'["quic"] = f /\ eyes'["tcp"] = eyes["tcp"]
      BY <1>0, <2>1, <2>6, Zenon DEF DialTypeOK
    <3>2. QuicInv(quic, f)
      BY <1>0, <2>1, <2>3, <2>6, Zenon DEF QuicInv
    <3> QED
      BY <1>0, <2>1, <2>4, <3>1, <3>2, Racing, Zenon DEF DialInv, RaceInv, DialTypeOK
  <2> QED
    BY <2>1, <2>5, <2>6, Zenon
<1>12. CASE ConnectTimeout
  <2>1. DropDial /\ UNCHANGED network /\ failure' = failure
    BY <1>12, Zenon DEF ConnectTimeout, remembered
  <2> QED
    BY <1>0, <2>1, Dropping, SameFailure, Zenon DEF DialInv
<1>13. CASE ReprobeInterval \/ UNCHANGED dialVars
  <2>1. UNCHANGED <<network, race, failure>>
    BY <1>13, Zenon DEF ReprobeInterval, dialVars, remembered
  <2> QED
    BY <1>0, <2>1, Racing, Zenon DEF race, DialInv, DialTypeOK, RaceInv
<1> QED
  BY <1>1, <1>2, <1>3, <1>4, <1>5, <1>6, <1>7, <1>8, <1>9, <1>10, <1>11, <1>12, <1>13, Zenon
     DEF DialNext, Connects, Fails, Delays

(* Before the first dial. *)
LEMMA DialInitial ==
    ASSUME DialInit
    PROVE  DialInv
<1>1. Fixed \in Addresses /\ Off \in Eyes /\ Off.live = {} /\ Off.failed = {}
  BY DialAssumption, Zenon DEF Fixed, Off, Eyes
<1>2. QuicOff \in Quics /\ QuicOff.stage = "off"
  BY <1>1, Zenon DEF QuicOff, Quics
<1>3. DialTypeOK
  BY <1>1, <1>2, Zenon DEF DialInit, DialTypeOK
<1>4. eyes["tcp"] = Off /\ eyes["quic"] = Off /\ quic = QuicOff
  BY Zenon DEF DialInit, Transports
<1>5. RaceInv
  BY <1>1, <1>2, <1>4, Zenon DEF RaceInv, TcpInv, QuicInv
<1>6. FailsWhenAllDid
  BY Zenon DEF DialInit, FailsWhenAllDid, NoFailure, Transports
<1> QED
  BY <1>3, <1>5, <1>6, Zenon DEF DialInv

-----------------------------------------------------------------------------
(* UnaryCall. *)

(* What was set on a call, and what the call holds of it. *)
OpNames == {"timeout", "maxBody", "unreliable", "metadata", "map", "attach"}
HasLast(set, name) ==
    LET at == {i \in DOMAIN set : set[i].name = name}
    IN  at # {} => \E i \in at : \A j \in at : j <= i
Values == {"none", "zero", "short", "tooLong", "responses", 3} \cup Keys
Ops == {op \in [name : OpNames, value : Values] : op.name = "unreliable" => op.value \in Directions}
OpsInv == ops \in Seq(Ops) /\ \A name \in OpNames : HasLast(ops, name)

CallFields == {"shape", "options", "default", "types", "stream", "compress"}
OptionFields == {"timeout", "unreliable", "metadata", "maxBody"}
SettingsInv ==
    /\ DOMAIN call = CallFields /\ DOMAIN call.options = OptionFields
    /\ call.options.maxBody \in {2, 3}
    /\ call.options.timeout = LastIn(ops, "timeout", "none")
    /\ call.options.unreliable = LastIn(ops, "unreliable", "unset")
    /\ call.default = LastIn(ops, "attach", "none") /\ call.stream = call.default
    /\ call.types = (LastIn(ops, "attach", "unset") # "unset") /\ call.compress = call.types

(* Each key that was set is in place, or was set again, or its map was replaced; and only a whole  *)
(* map puts a key in upper case.                                                                   *)
OpKey(op) == IF op.name = "map" THEN op.value ELSE Lower(op.value)
SetAgain(set, i) ==
    \E j \in (i + 1)..Len(set) :
        \/ set[j].name = "map"
        \/ set[j].name = "metadata" /\ Lower(set[j].value) = Lower(set[i].value)
InPlace(set, metadata) ==
    \A i \in DOMAIN set : set[i].name \in {"metadata", "map"} =>
        \/ SetAgain(set, i)
        \/ OpKey(set[i]) \in DOMAIN metadata /\ metadata[OpKey(set[i])] = i
FromMap(set, metadata) ==
    \A k \in DOMAIN metadata : Lower(k) # k =>
        \E i \in DOMAIN set : set[i].name = "map" /\ set[i].value = k
MetadataInv == InPlace(ops, call.options.metadata) /\ FromMap(ops, call.options.metadata)

SentInv ==
    /\ stage = "building" => sent = NotSent /\ outcome = "none"
    /\ outcome = "invalid" =>
           call.options.timeout = "tooLong" \/ ~ValidMetadata(call.options.metadata)
    /\ sent # NotSent =>
           /\ sent.timeout = TimeoutNanos(call.options.timeout)
           /\ sent.metadata = call.options.metadata /\ ValidMetadata(call.options.metadata)
           /\ sent.types = call.types /\ sent.compress = call.compress
           /\ IF sent.kind = "unary" THEN sent.unreliable = "none" /\ sent.stream = "none"
              ELSE sent.unreliable = IntoParts /\ sent.stream = call.stream

(* The frames read so far: HEADERS at most once, and first, then messages. *)
BeforeStatus(s, n) == \A i \in 1..n : s[i] \in MessageFrames \/ (i = 1 /\ s[i] = "headers")
MessagesIn(s, n) == IF n > 0 /\ s[1] = "headers" THEN n - 1 ELSE n
CountedTo(s, r, n) ==
    /\ BeforeStatus(s, n) /\ r.count = MessagesIn(s, n)
    /\ r.count > 0 => /\ r.decodes = (s[n] # "badMessage")
                      /\ r.size = IF s[n] = "bigMessage" THEN 3 ELSE 1
Stages == {"building", "opening", "writing", "reading", "draining", "done"}
RespFields == {"first", "headers", "count", "size", "decodes", "pending"}
ReadInv ==
    /\ stage \in Stages /\ read \in Seq(Frames) /\ DOMAIN resp = RespFields
    /\ stage # "done" => outcome = "none"
    /\ stage \in {"building", "opening", "writing"} => read = <<>> /\ resp = NoResponse
    /\ stage = "reading" =>
           /\ resp.first = (read = <<>>) /\ resp.pending = "none" /\ CountedTo(read, resp, Len(read))
    /\ stage = "draining" =>
           /\ Len(read) > 0 /\ read[Len(read)] \in {"ok", "error"}
           /\ resp.pending = read[Len(read)] /\ CountedTo(read, resp, Len(read) - 1)
    /\ stage = "done" => OutcomeIsRead

(* What was read, as the outcome tells it. *)
OneMessage(s, m) ==
    \/ Len(s) = 3 /\ s[1] = m /\ s[2] = "ok" /\ s[3] = "end"
    \/ Len(s) = 4 /\ s[1] = "headers" /\ s[2] = m /\ s[3] = "ok" /\ s[4] = "end"
OnlyError(s) ==
    \/ Len(s) = 2 /\ s[1] = "error" /\ s[2] = "end"
    \/ Len(s) = 3 /\ s[1] = "headers" /\ s[2] = "error" /\ s[3] = "end"
EndsIn(s, status) ==
    /\ Len(s) >= 2 /\ s[Len(s) - 1] = status /\ s[Len(s)] = "end"
    /\ \A i \in 1..(Len(s) - 2) : s[i] \in MessageFrames \cup {"headers"}
Tells(s, how, most, upload) ==
    /\ how = "ok" <=> /\ upload # "failed"
                      /\ OneMessage(s, "message") \/ (most >= 3 /\ OneMessage(s, "bigMessage"))
    /\ how = "status" => EndsIn(s, "error")
    /\ how = "upload" => upload = "failed" /\ EndsIn(s, "ok")
    /\ how \in {"internal", "upload"} => ~OnlyError(s)

(* The halves of the stream at each stage. *)
HalvesInv ==
    /\ stage \in {"building", "opening"} => sendHalf = "none" /\ recvHalf = "none"
    /\ stage = "writing" => sendHalf = "open" /\ recvHalf = "open" /\ call.shape = "unary"
    /\ stage \in {"reading", "draining"} =>
           /\ recvHalf = "open" /\ (stage = "draining" => sendHalf # "open")
           /\ \/ call.shape = "unary" /\ sendHalf = "finished"
              \/ call.shape = "sendAll" /\ sendHalf \in {"open", "finished", "failed", "reset"}
    /\ NothingLeftOpen

UnaryInv == OpsInv /\ SettingsInv /\ MetadataInv /\ SentInv /\ ReadInv /\ HalvesInv

-----------------------------------------------------------------------------
(* A value that is set is the last one of its name, and stays the last one of the other names. *)
LEMMA LastOfAppend ==
    ASSUME NEW set \in Seq(Ops), NEW op \in Ops, NEW name, HasLast(set, name)
    PROVE  /\ HasLast(Append(set, op), name)
           /\ \A otherwise : LastIn(Append(set, op), name, otherwise) =
                  IF op.name = name THEN op.value ELSE LastIn(set, name, otherwise)
<1> DEFINE longer == Append(set, op)
           before == {i \in DOMAIN set : set[i].name = name}
           after == {i \in DOMAIN longer : longer[i].name = name}
<1>1. /\ Len(set) \in Nat /\ DOMAIN set = 1..Len(set) /\ DOMAIN longer = 1..(Len(set) + 1)
      /\ longer[Len(set) + 1] = op /\ \A i \in 1..Len(set) : longer[i] = set[i]
  OBVIOUS
<1> HIDE DEF longer
<1>2. CASE op.name = name
  <2>1. Len(set) + 1 \in after /\ \A j \in after : j <= Len(set) + 1
    BY <1>1, <1>2
  <2>2. \A i \in after : (\A j \in after : j <= i) => i = Len(set) + 1
    BY <1>1, <2>1
  <2>3. (CHOOSE i \in after : \A j \in after : j <= i) = Len(set) + 1
    BY <2>1, <2>2, Zenon
  <2>4. HasLast(longer, name)
    BY <2>1, Zenon DEF HasLast
  <2>5. ASSUME NEW otherwise PROVE LastIn(longer, name, otherwise) = op.value
    BY <1>1, <2>1, <2>3, Zenon DEF LastIn
  <2> QED
    BY <1>2, <2>4, <2>5, Zenon DEF longer
<1>3. CASE op.name # name
  <2>1. after = before
    BY <1>1, <1>3
  <2>2. CASE before = {}
    BY <1>3, <2>1, <2>2, Zenon DEF HasLast, LastIn, longer
  <2>3. CASE before # {}
    <3> DEFINE last == CHOOSE i \in before : \A j \in before : j <= i
    <3>1. last \in before
      BY <2>3, Zenon DEF HasLast
    <3>2. longer[last] = set[last]
      BY <1>1, <3>1, Zenon
    <3>3. HasLast(longer, name)
      BY <2>1, Zenon DEF HasLast
    <3>4. ASSUME NEW otherwise PROVE LastIn(longer, name, otherwise) = LastIn(set, name, otherwise)
      <4>1. LastIn(set, name, otherwise) = set[last].value
        BY <2>3, Zenon DEF LastIn
      <4>2. LastIn(longer, name, otherwise) =
                IF after = {} THEN otherwise
                ELSE longer[CHOOSE i \in after : \A j \in after : j <= i].value
        BY Zenon DEF LastIn
      <4>3. (CHOOSE i \in after : \A j \in after : j <= i) = last
        BY <2>1, Zenon
      <4> QED
        BY <2>1, <2>3, <3>2, <4>1, <4>2, <4>3, Zenon
    <3> QED
      BY <1>3, <3>3, <3>4, Zenon DEF longer
  <2> QED
    BY <2>2, <2>3, Zenon
<1> QED
  BY <1>2, <1>3, Zenon

(* Setting a value forgets no key: those set before stay in place, or are set again. *)
LEMMA AppendKeepsKeys ==
    ASSUME NEW set \in Seq(Ops), NEW op \in Ops, NEW i \in DOMAIN set
    PROVE  /\ i \in DOMAIN Append(set, op) /\ Append(set, op)[i] = set[i] /\ i < Len(set) + 1
           /\ SetAgain(set, i) => SetAgain(Append(set, op), i)
           /\ op.name = "map" => SetAgain(Append(set, op), i)
           /\ op.name = "metadata" /\ Lower(op.value) = Lower(set[i].value)
                  => SetAgain(Append(set, op), i)
<1> DEFINE longer == Append(set, op)
<1>1. /\ Len(set) \in Nat /\ DOMAIN set = 1..Len(set) /\ Len(longer) = Len(set) + 1
      /\ longer[Len(set) + 1] = op /\ \A j \in 1..Len(set) : longer[j] = set[j]
      /\ DOMAIN longer = 1..(Len(set) + 1)
  OBVIOUS
<1> HIDE DEF longer
<1>2. Len(set) + 1 \in (i + 1)..Len(longer)
  BY <1>1
<1>3. SetAgain(set, i) => SetAgain(longer, i)
  BY <1>1 DEF SetAgain
<1>4. op.name = "map" => SetAgain(longer, i)
  BY <1>1, <1>2, Zenon DEF SetAgain
<1>5. op.name = "metadata" /\ Lower(op.value) = Lower(set[i].value) => SetAgain(longer, i)
  BY <1>1, <1>2, Zenon DEF SetAgain
<1> QED
  BY <1>1, <1>3, <1>4, <1>5 DEF longer

LEMMA AppendKeeps ==
    ASSUME NEW set \in Seq(Ops), NEW op \in Ops, NEW metadata,
           InPlace(set, metadata), FromMap(set, metadata)
    PROVE  /\ op.name \notin {"metadata", "map"} => InPlace(Append(set, op), metadata)
           /\ FromMap(Append(set, op), metadata)
<1> DEFINE longer == Append(set, op)
<1>1. /\ Len(set) \in Nat /\ DOMAIN set = 1..Len(set) /\ longer[Len(set) + 1] = op
      /\ DOMAIN longer = 1..(Len(set) + 1)
  OBVIOUS
<1>2. ASSUME op.name \notin {"metadata", "map"}, NEW i \in DOMAIN longer,
             longer[i].name \in {"metadata", "map"}
      PROVE  \/ SetAgain(longer, i)
             \/ OpKey(longer[i]) \in DOMAIN metadata /\ metadata[OpKey(longer[i])] = i
  <2>1. i \in DOMAIN set
    BY <1>1, <1>2
  <2>2. longer[i] = set[i] /\ (SetAgain(set, i) => SetAgain(longer, i))
    BY <2>1, AppendKeepsKeys, Zenon
  <2> QED
    BY <1>2, <2>1, <2>2, Zenon DEF InPlace
<1>3. ASSUME NEW k \in DOMAIN metadata, Lower(k) # k
      PROVE  \E i \in DOMAIN longer : longer[i].name = "map" /\ longer[i].value = k
  <2>1. PICK i \in DOMAIN set : set[i].name = "map" /\ set[i].value = k
    BY <1>3, Zenon DEF FromMap
  <2>2. i \in DOMAIN longer /\ longer[i] = set[i]
    BY AppendKeepsKeys, Zenon
  <2> QED
    BY <2>1, <2>2, Zenon
<1> QED
  BY <1>2, <1>3, Zenon DEF InPlace, FromMap

(* with_metadata: the key is in place, and the others stay. *)
LEMMA WithKey ==
    ASSUME NEW set \in Seq(Ops), NEW op \in Ops, op.name = "metadata", NEW metadata,
           InPlace(set, metadata), FromMap(set, metadata)
    PROVE  LET more == [k \in DOMAIN metadata \cup {Lower(op.value)} |->
                           IF k = Lower(op.value) THEN Len(set) + 1 ELSE metadata[k]]
           IN  InPlace(Append(set, op), more) /\ FromMap(Append(set, op), more)
<1> DEFINE longer == Append(set, op)
           key == Lower(op.value)
           more == [k \in DOMAIN metadata \cup {key} |->
                       IF k = key THEN Len(set) + 1 ELSE metadata[k]]
<1>1. /\ Len(set) \in Nat /\ DOMAIN set = 1..Len(set) /\ longer[Len(set) + 1] = op
      /\ DOMAIN longer = 1..(Len(set) + 1)
  OBVIOUS
<1>2. Lower(key) = key /\ OpKey(op) = key
  BY Zenon DEF Lower, OpKey
<1>3. ASSUME NEW i \in DOMAIN longer, longer[i].name \in {"metadata", "map"}
      PROVE  \/ SetAgain(longer, i)
             \/ OpKey(longer[i]) \in DOMAIN more /\ more[OpKey(longer[i])] = i
  <2>1. CASE i = Len(set) + 1
    BY <1>1, <1>2, <2>1, Zenon
  <2>2. CASE i # Len(set) + 1
    <3>1. i \in DOMAIN set
      BY <1>1, <2>2
    <3>2. /\ longer[i] = set[i] /\ (SetAgain(set, i) => SetAgain(longer, i))
          /\ Lower(op.value) = Lower(set[i].value) => SetAgain(longer, i)
      BY <3>1, AppendKeepsKeys, Zenon
    <3>3. \/ SetAgain(set, i)
          \/ OpKey(set[i]) \in DOMAIN metadata /\ metadata[OpKey(set[i])] = i
      BY <1>3, <3>1, <3>2, Zenon DEF InPlace
    <3>4. OpKey(set[i]) = key => Lower(set[i].value) = key
      BY <1>2, Zenon DEF OpKey
    <3> QED
      BY <3>2, <3>3, <3>4, Zenon
  <2> QED
    BY <2>1, <2>2, Zenon
<1>4. FromMap(longer, metadata)
  BY AppendKeeps, Zenon
<1>5. FromMap(longer, more)
  BY <1>2, <1>4, Zenon DEF FromMap
<1> QED
  BY <1>3, <1>5, Zenon DEF InPlace

(* with_metadata_map: the map replaces what was set. *)
LEMMA WithMap ==
    ASSUME NEW set \in Seq(Ops), NEW op \in Ops, op.name = "map"
    PROVE  LET more == [k \in {op.value} |-> Len(set) + 1]
           IN  InPlace(Append(set, op), more) /\ FromMap(Append(set, op), more)
<1> DEFINE longer == Append(set, op)
           more == [k \in {op.value} |-> Len(set) + 1]
<1>1. /\ Len(set) \in Nat /\ DOMAIN set = 1..Len(set) /\ longer[Len(set) + 1] = op
      /\ DOMAIN longer = 1..(Len(set) + 1)
  OBVIOUS
<1>2. ASSUME NEW i \in DOMAIN longer
      PROVE  SetAgain(longer, i) \/ (OpKey(longer[i]) \in DOMAIN more /\ more[OpKey(longer[i])] = i)
  <2>1. CASE i = Len(set) + 1
    BY <1>1, <2>1, Zenon DEF OpKey
  <2>2. CASE i # Len(set) + 1
    <3>1. i \in DOMAIN set
      BY <1>1, <2>2
    <3> QED
      BY <3>1, AppendKeepsKeys, Zenon
  <2> QED
    BY <2>1, <2>2, Zenon
<1>3. FromMap(longer, more)
  BY <1>1 DEF FromMap
<1> QED
  BY <1>2, <1>3, Zenon DEF InPlace

(* What is set on a call that is being built is all that changes. *)
LEMMA SetKeepsRest ==
    ASSUME UnaryInv, NEW op \in Ops, NEW after, Set(op.name, op.value, after)
    PROVE  /\ ops' = Append(ops, op) /\ call' = after /\ OpsInv'
           /\ stage = "building" /\ SentInv' /\ ReadInv' /\ HalvesInv'
<1>1. /\ stage = "building" /\ call' = after /\ ops' = Append(ops, Op(op.name, op.value))
      /\ UNCHANGED <<stage, sent, read, resp, sendHalf, recvHalf, outcome>>
  BY Zenon DEF Set
<1>2. Op(op.name, op.value) = op
  BY Zenon DEF Op, Ops
<1>3. OpsInv'
  <2>1. ops \in Seq(Ops) /\ \A name \in OpNames : HasLast(ops, name)
    BY Zenon DEF UnaryInv, OpsInv
  <2>2. Append(ops, op) \in Seq(Ops)
    BY <2>1
  <2> QED
    BY <1>1, <1>2, <2>1, <2>2, LastOfAppend, Zenon DEF OpsInv
<1>4. SentInv'
  BY <1>1, Zenon DEF UnaryInv, SentInv
<1>5. ReadInv'
  BY <1>1, Zenon DEF UnaryInv, ReadInv, Stages
<1>6. HalvesInv'
  BY <1>1, Zenon DEF UnaryInv, HalvesInv, NothingLeftOpen
<1> QED
  BY <1>1, <1>2, <1>3, <1>4, <1>5, <1>6, Zenon

(* What is set last is what the call holds. *)
LEMMA SetKeepsSettings ==
    ASSUME UnaryInv, NEW op \in Ops, ops' = Append(ops, op),
           DOMAIN call' = CallFields, DOMAIN call'.options = OptionFields,
           call'.options.maxBody \in {2, 3},
           call'.options.timeout = IF op.name = "timeout" THEN op.value ELSE call.options.timeout,
           call'.options.unreliable =
               IF op.name = "unreliable" THEN op.value ELSE call.options.unreliable,
           call'.default = IF op.name = "attach" THEN op.value ELSE call.default,
           call'.stream = call'.default,
           call'.types = IF op.name = "attach" THEN TRUE ELSE call.types,
           call'.compress = call'.types, op.name = "attach" => op.value # "unset"
    PROVE  SettingsInv'
<1>1. ops \in Seq(Ops) /\ \A name \in OpNames : HasLast(ops, name)
  BY Zenon DEF UnaryInv, OpsInv
<1>2. ASSUME NEW name \in OpNames, NEW otherwise
      PROVE  LastIn(ops', name, otherwise) =
                 IF op.name = name THEN op.value ELSE LastIn(ops, name, otherwise)
  <2>1. HasLast(ops, name)
    BY <1>1, Zenon
  <2>2. \A o : LastIn(Append(ops, op), name, o) =
            IF op.name = name THEN op.value ELSE LastIn(ops, name, o)
    BY <1>1, <2>1, LastOfAppend
  <2> QED
    BY <2>2, Zenon
<1>3. {"timeout", "unreliable", "attach"} \subseteq OpNames
  BY Zenon DEF OpNames
<1>4. SettingsInv
  BY Zenon DEF UnaryInv
<1>5. call'.types = (LastIn(ops', "attach", "unset") # "unset")
  BY <1>2, <1>3, <1>4, ZenonT(30) DEF SettingsInv
<1> QED
  BY <1>2, <1>3, <1>4, <1>5, ZenonT(30) DEF SettingsInv

(* Setting anything on a call keeps the invariant. *)
LEMMA BuildStep ==
    ASSUME UnaryInv,
           \/ \E timeout \in {"none", "zero", "short", "tooLong"} : WithTimeout(timeout)
           \/ WithMaxBody(3)
           \/ \E d \in Directions : WithUnreliable(d) \/ Attach(d)
           \/ \E key \in Keys : WithMetadata(key) \/ WithMetadataMap(key)
    PROVE  UnaryInv'
<1>0. /\ SettingsInv /\ MetadataInv /\ ops \in Seq(Ops)
  BY Zenon DEF UnaryInv, OpsInv
<1> DEFINE options == call.options
           metadata == options.metadata
<1>1. ASSUME NEW op \in Ops, op.name \notin {"metadata", "map"}, ops' = Append(ops, op),
             call'.options.metadata = metadata
      PROVE  MetadataInv'
  BY <1>0, <1>1, AppendKeeps, Zenon DEF MetadataInv
<1>2. ASSUME NEW timeout \in {"none", "zero", "short", "tooLong"}, WithTimeout(timeout)
      PROVE  UnaryInv'
  <2> DEFINE op == [name |-> "timeout", value |-> timeout]
  <2>1. op \in Ops
    BY Zenon DEF Ops, OpNames, Values
  <2>2. Set(op.name, op.value, [call EXCEPT !.options.timeout = timeout])
    BY <1>2, Zenon DEF WithTimeout
  <2>3. /\ call' = [call EXCEPT !.options.timeout = timeout] /\ ops' = Append(ops, op)
        /\ OpsInv' /\ SentInv' /\ ReadInv' /\ HalvesInv'
    BY <2>1, <2>2, SetKeepsRest, Zenon
  <2>4. SettingsInv'
    BY <1>0, <2>1, <2>3, SetKeepsSettings, Zenon DEF SettingsInv, CallFields, OptionFields
  <2>5. call'.options.metadata = metadata
    BY <1>0, <2>3, Zenon DEF SettingsInv, CallFields, OptionFields
  <2>6. MetadataInv'
    BY <1>1, <2>1, <2>3, <2>5, Zenon
  <2> QED
    BY <2>3, <2>4, <2>6, Zenon DEF UnaryInv
<1>3. ASSUME WithMaxBody(3) PROVE UnaryInv'
  <2> DEFINE op == [name |-> "maxBody", value |-> 3]
  <2>1. op \in Ops
    BY Zenon DEF Ops, OpNames, Values
  <2>2. Set(op.name, op.value, [call EXCEPT !.options.maxBody = 3])
    BY <1>3, Zenon DEF WithMaxBody
  <2>3. /\ call' = [call EXCEPT !.options.maxBody = 3] /\ ops' = Append(ops, op)
        /\ OpsInv' /\ SentInv' /\ ReadInv' /\ HalvesInv'
    BY <2>1, <2>2, SetKeepsRest, Zenon
  <2>4. SettingsInv'
    BY <1>0, <2>1, <2>3, SetKeepsSettings, Zenon DEF SettingsInv, CallFields, OptionFields
  <2>5. call'.options.metadata = metadata
    BY <1>0, <2>3, Zenon DEF SettingsInv, CallFields, OptionFields
  <2>6. MetadataInv'
    BY <1>1, <2>1, <2>3, <2>5, Zenon
  <2> QED
    BY <2>3, <2>4, <2>6, Zenon DEF UnaryInv
<1>4. ASSUME NEW d \in Directions, WithUnreliable(d) PROVE UnaryInv'
  <2> DEFINE op == [name |-> "unreliable", value |-> d]
  <2>1. op \in Ops
    BY Zenon DEF Ops, OpNames, Values, Directions
  <2>2. Set(op.name, op.value, [call EXCEPT !.options.unreliable = d])
    BY <1>4, Zenon DEF WithUnreliable
  <2>3. /\ call' = [call EXCEPT !.options.unreliable = d] /\ ops' = Append(ops, op)
        /\ OpsInv' /\ SentInv' /\ ReadInv' /\ HalvesInv'
    BY <2>1, <2>2, SetKeepsRest, Zenon
  <2>4. SettingsInv'
    BY <1>0, <2>1, <2>3, SetKeepsSettings, Zenon DEF SettingsInv, CallFields, OptionFields
  <2>5. call'.options.metadata = metadata
    BY <1>0, <2>3, Zenon DEF SettingsInv, CallFields, OptionFields
  <2>6. MetadataInv'
    BY <1>1, <2>1, <2>3, <2>5, Zenon
  <2> QED
    BY <2>3, <2>4, <2>6, Zenon DEF UnaryInv
<1>5. ASSUME NEW d \in Directions, Attach(d) PROVE UnaryInv'
  <2> DEFINE op == [name |-> "attach", value |-> d]
             after == [call EXCEPT !.default = d, !.types = TRUE, !.stream = d, !.compress = TRUE]
  <2>1. op \in Ops /\ d # "unset"
    BY Zenon DEF Ops, OpNames, Values, Directions
  <2>2. Set(op.name, op.value, after)
    BY <1>5, Zenon DEF Attach
  <2>3. /\ call' = after /\ ops' = Append(ops, op)
        /\ OpsInv' /\ SentInv' /\ ReadInv' /\ HalvesInv'
    BY <2>1, <2>2, SetKeepsRest, Zenon
  <2>4. SettingsInv'
    BY <1>0, <2>1, <2>3, SetKeepsSettings, Zenon DEF SettingsInv, CallFields, OptionFields
  <2>5. call'.options.metadata = metadata
    BY <1>0, <2>3, Zenon DEF SettingsInv, CallFields, OptionFields
  <2>6. MetadataInv'
    BY <1>1, <2>1, <2>3, <2>5, Zenon
  <2> QED
    BY <2>3, <2>4, <2>6, Zenon DEF UnaryInv
<1>6. ASSUME NEW key \in Keys, WithMetadata(key) PROVE UnaryInv'
  <2> DEFINE op == [name |-> "metadata", value |-> key]
             more == [k \in DOMAIN metadata \cup {Lower(key)} |->
                         IF k = Lower(key) THEN Len(ops) + 1 ELSE metadata[k]]
  <2>1. op \in Ops
    BY Zenon DEF Ops, OpNames, Values
  <2>2. Set(op.name, op.value, [call EXCEPT !.options.metadata = more])
    BY <1>6, Zenon DEF WithMetadata
  <2>3. /\ call' = [call EXCEPT !.options.metadata = more] /\ ops' = Append(ops, op)
        /\ OpsInv' /\ SentInv' /\ ReadInv' /\ HalvesInv'
    BY <2>1, <2>2, SetKeepsRest, Zenon
  <2>4. InPlace(Append(ops, op), more) /\ FromMap(Append(ops, op), more)
    BY <1>0, <2>1, WithKey, Zenon DEF MetadataInv
  <2> HIDE DEF more
  <2>5. SettingsInv'
    BY <1>0, <2>1, <2>3, SetKeepsSettings, Zenon DEF SettingsInv, CallFields, OptionFields
  <2>6. call'.options.metadata = more
    BY <1>0, <2>3, Zenon DEF SettingsInv, CallFields, OptionFields
  <2>7. MetadataInv'
    BY <2>3, <2>4, <2>6, Zenon DEF MetadataInv
  <2> QED
    BY <2>3, <2>5, <2>7, Zenon DEF UnaryInv
<1>7. ASSUME NEW key \in Keys, WithMetadataMap(key) PROVE UnaryInv'
  <2> DEFINE op == [name |-> "map", value |-> key]
             more == [k \in {key} |-> Len(ops) + 1]
  <2>1. op \in Ops
    BY Zenon DEF Ops, OpNames, Values
  <2>2. Set(op.name, op.value, [call EXCEPT !.options.metadata = more])
    BY <1>7, Zenon DEF WithMetadataMap
  <2>3. /\ call' = [call EXCEPT !.options.metadata = more] /\ ops' = Append(ops, op)
        /\ OpsInv' /\ SentInv' /\ ReadInv' /\ HalvesInv'
    BY <2>1, <2>2, SetKeepsRest, Zenon
  <2>4. InPlace(Append(ops, op), more) /\ FromMap(Append(ops, op), more)
    BY <1>0, <2>1, WithMap, Zenon
  <2> HIDE DEF more
  <2>5. SettingsInv'
    BY <1>0, <2>1, <2>3, SetKeepsSettings, Zenon DEF SettingsInv, CallFields, OptionFields
  <2>6. call'.options.metadata = more
    BY <1>0, <2>3, Zenon DEF SettingsInv, CallFields, OptionFields
  <2>7. MetadataInv'
    BY <2>3, <2>4, <2>6, Zenon DEF MetadataInv
  <2> QED
    BY <2>3, <2>5, <2>7, Zenon DEF UnaryInv
<1> QED
  BY <1>2, <1>3, <1>4, <1>5, <1>6, <1>7, Zenon

(* What is not building leaves the settings alone. *)
LEMMA SettingsFrame ==
    ASSUME UnaryInv, call' = call, ops' = ops
    PROVE  OpsInv' /\ SettingsInv' /\ MetadataInv'
BY Zenon DEF UnaryInv, OpsInv, SettingsInv, MetadataInv

(* send_all, and the checks before anything is opened. *)
LEMMA PrepareStep ==
    ASSUME UnaryInv, SendAll \/ AwaitUnary \/ AwaitStreaming
    PROVE  UnaryInv'
<1>0. /\ OpsInv /\ SettingsInv /\ MetadataInv /\ SentInv /\ ReadInv /\ HalvesInv
  BY Zenon DEF UnaryInv
<1>1. ASSUME SendAll PROVE UnaryInv'
  <2>1. /\ stage = "building" /\ call' = [call EXCEPT !.shape = "sendAll"]
        /\ UNCHANGED <<ops, stage, sent, read, resp, sendHalf, recvHalf, outcome>>
    BY <1>1, Zenon DEF SendAll
  <2>2. /\ call'.options = call.options /\ call'.default = call.default /\ call'.types = call.types
        /\ call'.stream = call.stream /\ call'.compress = call.compress /\ DOMAIN call' = CallFields
    BY <1>0, <2>1, Zenon DEF SettingsInv, CallFields
  <2>3. OpsInv' /\ MetadataInv' /\ SettingsInv'
    BY <1>0, <2>1, <2>2, Zenon DEF OpsInv, MetadataInv, SettingsInv
  <2>4. SentInv'
    BY <1>0, <2>1, Zenon DEF SentInv
  <2>5. ReadInv'
    BY <1>0, <2>1, Zenon DEF ReadInv
  <2>6. HalvesInv'
    BY <1>0, <2>1, Zenon DEF HalvesInv, NothingLeftOpen
  <2> QED
    BY <2>3, <2>4, <2>5, <2>6, Zenon DEF UnaryInv
<1>2. ASSUME NEW info, Prepare(info), DOMAIN info = DOMAIN NotSent,
             info.types = call.types, info.compress = call.compress,
             IF call.shape = "unary" THEN info.unreliable = "none" /\ info.stream = "none"
             ELSE info.unreliable = IntoParts /\ info.stream = call.stream
      PROVE  UnaryInv'
  <2> DEFINE bad == ~ValidMetadata(call.options.metadata) \/ call.options.timeout = "tooLong"
             filled == [info EXCEPT !.timeout = TimeoutNanos(call.options.timeout),
                                    !.metadata = call.options.metadata, !.kind = call.shape]
  <2>1. /\ stage = "building" /\ UNCHANGED <<call, ops, read, resp, sendHalf, recvHalf>>
        /\ IF bad THEN stage' = "done" /\ outcome' = "invalid" /\ sent' = sent
           ELSE stage' = "opening" /\ outcome' = outcome /\ sent' = filled
    BY <1>2, Zenon DEF Prepare, End
  <2>2. /\ filled.timeout = TimeoutNanos(call.options.timeout)
        /\ filled.metadata = call.options.metadata /\ filled.kind = call.shape
        /\ filled.types = info.types /\ filled.compress = info.compress
        /\ filled.unreliable = info.unreliable /\ filled.stream = info.stream
    BY <1>2, Zenon DEF NotSent
  <2> HIDE DEF filled
  <2>3. stage = "building" /\ sent = NotSent /\ outcome = "none" /\ read = <<>> /\ resp = NoResponse
    BY <1>0, <2>1, Zenon DEF SentInv, ReadInv
  <2>4. SentInv'
    <3>1. CASE bad
      BY <2>1, <2>3, <3>1, Zenon DEF SentInv, ValidMetadata
    <3>2. CASE ~bad
      BY <1>2, <2>1, <2>2, <2>3, <3>2, Zenon DEF SentInv, IntoParts, ValidMetadata
    <3> QED
      BY <3>1, <3>2, Zenon
  <2>5. ReadInv'
    BY <1>0, <2>1, <2>3, Zenon DEF ReadInv, Stages, OutcomeIsRead
  <2>6. HalvesInv'
    BY <1>0, <2>1, Zenon DEF HalvesInv, NothingLeftOpen
  <2> QED
    BY <2>1, <2>4, <2>5, <2>6, SettingsFrame, Zenon DEF UnaryInv
<1>3. ASSUME AwaitUnary PROVE UnaryInv'
  <2> DEFINE info == [NotSent EXCEPT !.types = call.types, !.compress = call.compress]
  <2>1. call.shape = "unary" /\ Prepare(info)
    BY <1>3, Zenon DEF AwaitUnary
  <2>2. /\ DOMAIN info = DOMAIN NotSent /\ info.types = call.types /\ info.compress = call.compress
        /\ info.unreliable = "none" /\ info.stream = "none"
    BY Zenon DEF NotSent
  <2> QED
    BY <1>2, <2>1, <2>2, Zenon
<1>4. ASSUME AwaitStreaming PROVE UnaryInv'
  <2> DEFINE info == [NotSent EXCEPT !.types = call.types, !.compress = call.compress,
                                     !.unreliable = IntoParts, !.stream = call.stream]
  <2>1. call.shape # "unary" /\ Prepare(info)
    BY <1>4, Zenon DEF AwaitStreaming
  <2>2. /\ DOMAIN info = DOMAIN NotSent /\ info.types = call.types /\ info.compress = call.compress
        /\ info.unreliable = IntoParts /\ info.stream = call.stream
    BY Zenon DEF NotSent
  <2> QED
    BY <1>2, <2>1, <2>2, Zenon
<1> QED
  BY <1>1, <1>3, <1>4, Zenon

(* The last two elements of a sequence. *)
LEMMA LastTwo ==
    ASSUME NEW s \in Seq(Frames), NEW status, Len(s) >= 2, s[Len(s) - 1] = status, s[Len(s)] = "end"
    PROVE  SubSeq(s, Len(s) - 1, Len(s)) = <<status, "end">>
<1> DEFINE t == SubSeq(s, Len(s) - 1, Len(s))
<1>1. Len(s) \in Nat /\ Len(s) - 1 \in 1..Len(s) /\ Len(s) \in 1..Len(s)
  OBVIOUS
<1>2. t \in Seq(Frames) /\ Len(t) = 2
  BY <1>1
<1>3. t[1] = status /\ t[2] = "end"
  BY <1>1
<1> HIDE DEF t
<1>4. t = <<status, "end">>
  BY <1>2, <1>3
<1> QED
  BY <1>4, Zenon DEF t

(* The outcome that is told of the frames by their places is the one told of the sequence. *)
LEMMA TellsOutcome ==
    ASSUME NEW s \in Seq(Frames), read' = s, stage' = "done",
           call'.options.maxBody \in {2, 3}, Tells(s, outcome', call'.options.maxBody, sendHalf')
    PROVE  OutcomeIsRead'
<1> DEFINE one(m) == {<<m, "ok", "end">>, <<"headers", m, "ok", "end">>}
           whole == {<<"error", "end">>, <<"headers", "error", "end">>}
           most == call'.options.maxBody
<1>1. \A m : s \in one(m) <=> OneMessage(s, m)
  <2> TAKE m
  <2>1. s = <<m, "ok", "end">> <=> Len(s) = 3 /\ s[1] = m /\ s[2] = "ok" /\ s[3] = "end"
    OBVIOUS
  <2>2. s = <<"headers", m, "ok", "end">> <=>
            Len(s) = 4 /\ s[1] = "headers" /\ s[2] = m /\ s[3] = "ok" /\ s[4] = "end"
    OBVIOUS
  <2> QED
    BY <2>1, <2>2, Zenon DEF OneMessage
<1>2. s \in whole <=> OnlyError(s)
  <2>1. s = <<"error", "end">> <=> Len(s) = 2 /\ s[1] = "error" /\ s[2] = "end"
    OBVIOUS
  <2>2. s = <<"headers", "error", "end">> <=>
            Len(s) = 3 /\ s[1] = "headers" /\ s[2] = "error" /\ s[3] = "end"
    OBVIOUS
  <2> QED
    BY <2>1, <2>2, Zenon DEF OnlyError
<1>3. /\ outcome' = "ok" <=> /\ sendHalf' # "failed"
                             /\ OneMessage(s, "message") \/ (most >= 3 /\ OneMessage(s, "bigMessage"))
      /\ outcome' = "status" => EndsIn(s, "error")
      /\ outcome' = "upload" => sendHalf' = "failed" /\ EndsIn(s, "ok")
      /\ outcome' \in {"internal", "upload"} => ~OnlyError(s)
  BY Zenon DEF Tells
<1>4. most < 3 <=> ~(most >= 3)
  OBVIOUS
<1>5. outcome' = "ok" <=> /\ sendHalf' # "failed"
                          /\ s \in one("message") \cup (IF most < 3 THEN {} ELSE one("bigMessage"))
  <2> HIDE DEF one, most
  <2>1. s \in one("message") \cup (IF most < 3 THEN {} ELSE one("bigMessage")) <=>
            OneMessage(s, "message") \/ (most >= 3 /\ OneMessage(s, "bigMessage"))
    BY <1>1, <1>4, Zenon
  <2> QED
    BY <1>3, <2>1, Zenon
<1>6. ASSUME NEW status, EndsIn(s, status)
      PROVE  /\ Len(s) >= 2 /\ SubSeq(s, Len(s) - 1, Len(s)) = <<status, "end">>
             /\ \A i \in 1..(Len(s) - 2) : s[i] \in MessageFrames \cup {"headers"}
  BY <1>6, LastTwo, Zenon DEF EndsIn
<1>7. outcome' \in {"internal", "upload"} => s \notin whole
  BY <1>2, <1>3, Zenon
<1> QED
  BY <1>3, <1>5, <1>6, <1>7, ZenonT(30) DEF OutcomeIsRead

(* A call that fails was not told the end of the stream. *)
LEMMA FailTells ==
    ASSUME NEW s \in Seq(Frames), Len(s) > 0 => s[Len(s)] # "end", NEW how, NEW most,
           NEW upload, how \notin {"ok", "status", "upload"}
    PROVE  Tells(s, how, most, upload)
BY DEF Tells, OneMessage, OnlyError

(* UnaryResponse::finish, of frames that ended without a status, and of a status and the end. *)
LEMMA EndTells ==
    ASSUME NEW s \in Seq(Frames), Len(s) >= 1, s[Len(s)] = "end", NEW most, NEW upload,
           \A i \in 1..(Len(s) - 1) : s[i] \in MessageFrames \cup {"headers"}
    PROVE  Tells(s, "internal", most, upload)
<1>1. Len(s) >= 2 => s[Len(s) - 1] \notin {"ok", "error"}
  BY DEF MessageFrames
<1> QED
  BY <1>1 DEF Tells, OneMessage, OnlyError

LEMMA StatusTells ==
    ASSUME ReadInv, stage = "draining", call.options.maxBody \in {2, 3}
    PROVE  Tells(Append(read, "end"), Finished, call.options.maxBody, sendHalf)
<1> DEFINE n == Len(read)
           s == Append(read, "end")
           most == call.options.maxBody
<1>1. /\ read \in Seq(Frames) /\ n \in Nat /\ n > 0 /\ read[n] \in {"ok", "error"}
      /\ resp.pending = read[n] /\ BeforeStatus(read, n - 1) /\ resp.count = MessagesIn(read, n - 1)
      /\ resp.count > 0 => /\ resp.decodes = (read[n - 1] # "badMessage")
                           /\ resp.size = IF read[n - 1] = "bigMessage" THEN 3 ELSE 1
  BY DEF ReadInv, CountedTo
<1>2. /\ s \in Seq(Frames) /\ Len(s) = n + 1 /\ s[n + 1] = "end"
      /\ \A i \in 1..n : s[i] = read[i]
  BY <1>1 DEF Frames
<1> HIDE DEF s
<1>3. \A i \in 1..(n - 1) : s[i] \in MessageFrames \cup {"headers"}
  BY <1>1, <1>2, SMTT(30) DEF BeforeStatus
<1>4. CASE read[n] = "error"
  <2>1. EndsIn(s, "error") /\ ~OneMessage(s, "message") /\ ~OneMessage(s, "bigMessage")
    BY <1>1, <1>2, <1>3, <1>4 DEF EndsIn, OneMessage
  <2>2. Tells(s, "status", most, sendHalf)
    BY <2>1, Zenon DEF Tells
  <2>3. Finished = "status"
    BY <1>1, <1>4, Zenon DEF Finished
  <2> QED
    BY <2>2, <2>3, Zenon DEF s
<1>5. CASE read[n] = "ok"
  <2>0. /\ n > 1 /\ read[1] = "headers" => resp.count = n - 2
        /\ ~(n > 1 /\ read[1] = "headers") => resp.count = n - 1
    BY <1>1 DEF MessagesIn
  <2>1. ~OnlyError(s)
    BY <1>1, <1>2, <1>5 DEF OnlyError
  <2>2. ASSUME resp.count # 1, NEW m \in MessageFrames PROVE ~OneMessage(s, m)
    BY <1>1, <1>2, <2>0, <2>2 DEF OneMessage, MessageFrames
  <2>3. ASSUME resp.count = 1
        PROVE  /\ n >= 2 /\ read[n - 1] \in MessageFrames
               /\ \A m \in MessageFrames : OneMessage(s, m) <=> m = read[n - 1]
               /\ resp.decodes = (read[n - 1] # "badMessage")
               /\ resp.size = IF read[n - 1] = "bigMessage" THEN 3 ELSE 1
    <3>1. (n = 2 /\ read[1] # "headers") \/ (n = 3 /\ read[1] = "headers")
      <4>1. n \in Nat /\ n > 0
        BY <1>1, Zenon
      <4>2. CASE n > 1 /\ read[1] = "headers"
        BY <2>0, <2>3, <4>1, <4>2
      <4>3. CASE ~(n > 1 /\ read[1] = "headers")
        <5>1. n - 1 = 1
          BY <2>0, <2>3, <4>3, Zenon
        <5>2. n = 2
          BY <4>1, <5>1
        <5>3. n > 1
          BY <5>2
        <5> QED
          BY <4>3, <5>2, <5>3, Zenon
      <4> QED
        BY <4>2, <4>3, Zenon
    <3>2. read[n - 1] \in MessageFrames
      <4>1. CASE n = 2 /\ read[1] # "headers"
        BY <1>1, <4>1 DEF BeforeStatus
      <4>2. CASE n = 3
        BY <1>1, <4>2 DEF BeforeStatus
      <4> QED
        BY <3>1, <4>1, <4>2, Zenon
    <3>3. \A m \in MessageFrames : OneMessage(s, m) <=> m = read[n - 1]
      BY <1>1, <1>2, <1>5, <3>1, <3>2, SMTT(30) DEF OneMessage, MessageFrames
    <3> QED
      BY <1>1, <2>3, <3>1, <3>2, <3>3, SMTT(30)
  <2>4. {"message", "bigMessage"} \subseteq MessageFrames
    BY Zenon DEF MessageFrames
  <2>9. CASE sendHalf = "failed"
    <3>1. EndsIn(s, "ok")
      BY <1>1, <1>2, <1>3, <1>5 DEF EndsIn
    <3>2. Tells(s, "upload", most, sendHalf)
      BY <2>1, <2>9, <3>1, Zenon DEF Tells
    <3>3. Finished = "upload"
      BY <1>1, <1>5, <2>9, Zenon DEF Finished
    <3> QED
      BY <3>2, <3>3, Zenon DEF s
  <2>5. CASE sendHalf # "failed" /\ resp.count # 1
    <3>1. Tells(s, "internal", most, sendHalf)
      BY <2>1, <2>2, <2>4, <2>5, Zenon DEF Tells
    <3>2. Finished = "internal"
      BY <1>1, <1>5, <2>5, Zenon DEF Finished
    <3> QED
      BY <3>1, <3>2, Zenon DEF s
  <2>6. CASE sendHalf # "failed" /\ resp.count = 1 /\ resp.size > most
    <3>1. Tells(s, "tooLarge", most, sendHalf)
      BY <2>3, <2>4, <2>6 DEF Tells
    <3>2. Finished = "tooLarge"
      BY <1>1, <1>5, <2>6, Zenon DEF Finished
    <3> QED
      BY <3>1, <3>2, Zenon DEF s
  <2>7. CASE sendHalf # "failed" /\ resp.count = 1 /\ ~(resp.size > most) /\ ~resp.decodes
    <3>1. Tells(s, "internal", most, sendHalf)
      BY <2>1, <2>3, <2>4, <2>7, Zenon DEF Tells
    <3>2. Finished = "internal"
      BY <1>1, <1>5, <2>7, Zenon DEF Finished
    <3> QED
      BY <3>1, <3>2, Zenon DEF s
  <2>8. CASE sendHalf # "failed" /\ resp.count = 1 /\ ~(resp.size > most) /\ resp.decodes
    <3>1. read[n - 1] \in {"message", "bigMessage"} /\ (read[n - 1] = "bigMessage" => most >= 3)
      <4>1. read[n - 1] # "badMessage"
        BY <2>3, <2>8, Zenon
      <4> QED
        BY <2>3, <2>8, <4>1 DEF MessageFrames
    <3>2. Tells(s, "ok", most, sendHalf)
      BY <2>3, <2>4, <2>8, <3>1, Zenon DEF Tells
    <3>3. Finished = "ok"
      BY <1>1, <1>5, <2>8, Zenon DEF Finished
    <3> QED
      BY <3>2, <3>3, Zenon DEF s
  <2> QED
    BY <2>5, <2>6, <2>7, <2>8, <2>9, Zenon
<1> QED
  BY <1>1, <1>4, <1>5, Zenon

(* Opening the stream, writing the request, and what ends a call at an await. *)
LEMMA OpenStep ==
    ASSUME UnaryInv,
           \/ \E ok \in BOOLEAN : OpenStream(ok) \/ WriteRequest(ok) \/ UploadEnds(ok)
           \/ Deadline \/ DropCall
    PROVE  UnaryInv'
<1>0. OpsInv /\ SettingsInv /\ MetadataInv /\ SentInv /\ ReadInv /\ HalvesInv
  BY Zenon DEF UnaryInv
<1>1. ASSUME NEW how \in {"transport", "deadline", "dropped"}, stage \in Reading, Fail(how),
             UNCHANGED <<read, resp>>
      PROVE  UnaryInv'
  <2>1. /\ stage' = "done" /\ outcome' = how /\ UNCHANGED <<call, ops, sent, read, resp>>
        /\ DropStream
    BY <1>1, Zenon DEF Fail, End
  <2>2. /\ read \in Seq(Frames) /\ DOMAIN resp = RespFields
        /\ Len(read) > 0 => read[Len(read)] # "end"
    <3>1. read \in Seq(Frames) /\ DOMAIN resp = RespFields
      BY <1>0, Zenon DEF ReadInv
    <3>2. CASE stage \in {"opening", "writing"}
      BY <1>0, <3>1, <3>2 DEF ReadInv
    <3>3. CASE stage = "reading"
      BY <1>0, <3>1, <3>3 DEF ReadInv, CountedTo, BeforeStatus, MessageFrames
    <3>4. CASE stage = "draining"
      BY <1>0, <3>1, <3>4, Zenon DEF ReadInv
    <3> QED
      BY <1>1, <3>1, <3>2, <3>3, <3>4, Zenon DEF Reading
  <2>3. Tells(read, outcome', call.options.maxBody, sendHalf')
    BY <2>1, <2>2, FailTells, Zenon
  <2>4. OutcomeIsRead'
    BY <1>0, <2>1, <2>2, <2>3, TellsOutcome, Zenon DEF SettingsInv
  <2>5. ReadInv'
    BY <2>1, <2>2, <2>4, Zenon DEF ReadInv, Stages
  <2>6. SentInv'
    BY <1>0, <1>1, <2>1, Zenon DEF SentInv, IntoParts
  <2>7. HalvesInv'
    BY <1>0, <1>1, <2>1, Zenon DEF HalvesInv, NothingLeftOpen, Reading, DropStream
  <2> QED
    BY <2>1, <2>5, <2>6, <2>7, SettingsFrame, Zenon DEF UnaryInv
<1>2. ASSUME stage \in {"opening", "writing"}, stage' = "reading", UNCHANGED <<outcome, read, resp>>
      PROVE  ReadInv'
  <2>1. read' = <<>> /\ resp' = NoResponse /\ outcome' = "none" /\ stage' = "reading"
    BY <1>0, <1>2, Zenon DEF ReadInv
  <2>2. /\ DOMAIN NoResponse = RespFields /\ NoResponse.first = TRUE
        /\ NoResponse.pending = "none" /\ NoResponse.count = 0
    BY Zenon DEF NoResponse, RespFields
  <2>3. resp'.first = (read' = <<>>)
    BY <2>1, <2>2, Zenon
  <2>4. CountedTo(read', resp', Len(read'))
    BY <2>1, <2>2 DEF CountedTo, BeforeStatus, MessagesIn
  <2>5. read' \in Seq(Frames)
    BY <2>1
  <2> QED
    BY <2>1, <2>2, <2>3, <2>4, <2>5, Zenon DEF ReadInv, Stages
<1>3. ASSUME OpenStream(TRUE) \/ WriteRequest(TRUE) \/ UploadEnds(TRUE) \/ UploadEnds(FALSE)
      PROVE  UnaryInv'
  <2>1. UNCHANGED <<call, ops, sent, outcome, read, resp>>
    BY <1>3, Zenon DEF OpenStream, WriteRequest, UploadEnds
  <2>2. stage \notin {"building", "done"} /\ stage' \notin {"building", "done"}
    BY <1>3, Zenon DEF OpenStream, WriteRequest, UploadEnds
  <2>3. ReadInv'
    <3>1. CASE OpenStream(TRUE) /\ call.shape = "unary"
      <4>1. stage = "opening" /\ stage' = "writing"
        BY <3>1, Zenon DEF OpenStream
      <4> QED
        BY <1>0, <2>1, <4>1, Zenon DEF ReadInv, Stages
    <3>2. CASE (OpenStream(TRUE) /\ call.shape # "unary") \/ WriteRequest(TRUE)
      <4>1. stage \in {"opening", "writing"} /\ stage' = "reading"
        BY <3>2, Zenon DEF OpenStream, WriteRequest
      <4> QED
        BY <1>2, <2>1, <4>1, Zenon
    <3>3. CASE UploadEnds(TRUE) \/ UploadEnds(FALSE)
      <4>1. stage = "reading" /\ stage' = "reading"
        BY <3>3, Zenon DEF UploadEnds
      <4> QED
        BY <1>0, <2>1, <4>1, Zenon DEF ReadInv, Stages
    <3> QED
      BY <1>3, <3>1, <3>2, <3>3, Zenon
  <2>4. SentInv'
    BY <1>0, <2>1, <2>2, Zenon DEF SentInv, IntoParts
  <2>5. HalvesInv'
    BY <1>0, <1>3, <2>1, Zenon DEF HalvesInv, NothingLeftOpen, OpenStream, WriteRequest, UploadEnds
  <2> QED
    BY <2>1, <2>3, <2>4, <2>5, SettingsFrame, Zenon DEF UnaryInv
<1>4. ASSUME OpenStream(FALSE) \/ WriteRequest(FALSE) PROVE UnaryInv'
  <2>1. stage \in Reading /\ Fail("transport") /\ UNCHANGED <<read, resp>>
    BY <1>4, Zenon DEF OpenStream, WriteRequest, Reading
  <2> QED
    BY <1>1, <2>1, Zenon
<1>5. ASSUME Deadline \/ DropCall PROVE UnaryInv'
  BY <1>1, <1>5, Zenon DEF Deadline, DropCall
<1> QED
  BY <1>3, <1>4, <1>5, Zenon

(* A frame that is counted: HEADERS in the first place, or a message. *)
LEMMA CountFrame ==
    ASSUME ReadInv, stage = "reading", NEW frame, frame \in MessageFrames \/ (resp.first /\ frame = "headers"),
           read' = Append(read, frame),
           resp'.count = IF frame = "headers" THEN resp.count ELSE resp.count + 1,
           frame # "headers" => /\ resp'.decodes = (frame # "badMessage")
                                /\ resp'.size = IF frame = "bigMessage" THEN 3 ELSE 1
    PROVE  CountedTo(read', resp', Len(read'))
<1> DEFINE n == Len(read)
<1>1. /\ read \in Seq(Frames) /\ resp.first = (read = <<>>) /\ BeforeStatus(read, n)
      /\ resp.count = MessagesIn(read, n)
  BY Zenon DEF ReadInv, CountedTo
<1>2. /\ n \in Nat /\ Len(read') = n + 1 /\ read'[n + 1] = frame
      /\ \A i \in 1..n : read'[i] = read[i]
  BY <1>1
<1>3. frame = "headers" => n = 0
  <2>1. frame = "headers" => read = <<>>
    BY <1>1, Zenon DEF MessageFrames
  <2> QED
    BY <2>1
<1>4. BeforeStatus(read', n + 1)
  BY <1>1, <1>2, <1>3 DEF BeforeStatus
<1>5. CASE frame = "headers"
  <2>1. MessagesIn(read', n + 1) = 0 /\ resp.count = 0
    BY <1>1, <1>2, <1>3, <1>5 DEF MessagesIn
  <2> QED
    BY <1>2, <1>4, <1>5, <2>1 DEF CountedTo
<1>6. CASE frame # "headers"
  <2>1. MessagesIn(read', n + 1) = MessagesIn(read, n) + 1
    <3>1. CASE n = 0
      BY <1>2, <1>6, <3>1 DEF MessagesIn
    <3>2. CASE n > 0
      BY <1>2, <1>6, <3>2 DEF MessagesIn
    <3> QED
      BY <1>2, <3>1, <3>2
  <2>2. resp'.decodes = (read'[n + 1] # "badMessage")
    BY <1>2, <1>6, Zenon
  <2> QED
    BY <1>1, <1>2, <1>4, <1>6, <2>1, <2>2 DEF CountedTo
<1> QED
  BY <1>5, <1>6, Zenon

(* A call ended by what was read: the end of the stream, or a frame that is wrong. *)
LEMMA EndStep ==
    ASSUME UnaryInv, stage \in {"reading", "draining"}, NEW frame \in Frames,
           read' = Append(read, frame), stage' = "done", UNCHANGED <<call, ops, sent, resp>>,
           outcome' # "invalid", Tells(read', outcome', call.options.maxBody, sendHalf'),
           \/ SettleUpload /\ recvHalf' = "ended"
           \/ SettleUpload /\ recvHalf' = "dropped" /\ call.shape # "unary"
           \/ DropStream
    PROVE  UnaryInv'
<1>0. OpsInv /\ SettingsInv /\ MetadataInv /\ SentInv /\ ReadInv /\ HalvesInv
  BY Zenon DEF UnaryInv
<1>1. read' \in Seq(Frames) /\ DOMAIN resp' = RespFields
  BY <1>0 DEF ReadInv
<1>2. OutcomeIsRead'
  BY <1>0, <1>1, TellsOutcome, Zenon DEF SettingsInv
<1>3. ReadInv'
  BY <1>1, <1>2, Zenon DEF ReadInv, Stages
<1>4. SentInv'
  BY <1>0, Zenon DEF SentInv, IntoParts
<1>5. HalvesInv'
  BY <1>0, Zenon DEF HalvesInv, NothingLeftOpen, DropStream, SettleUpload
<1> QED
  BY <1>3, <1>4, <1>5, SettingsFrame, Zenon DEF UnaryInv

(* A frame after which the call goes on. *)
LEMMA GoOn ==
    ASSUME UnaryInv, stage = "reading", stage' \in {"reading", "draining"}, ReadInv',
           UNCHANGED <<call, ops, sent, recvHalf, outcome>>,
           (stage' = "reading" /\ sendHalf' = sendHalf) \/ SettleUpload
    PROVE  UnaryInv'
<1>0. OpsInv /\ SettingsInv /\ MetadataInv /\ SentInv /\ ReadInv /\ HalvesInv
  BY Zenon DEF UnaryInv
<1>1. SentInv'
  BY <1>0, Zenon DEF SentInv, IntoParts
<1>2. HalvesInv'
  BY <1>0, Zenon DEF HalvesInv, NothingLeftOpen, SettleUpload
<1> QED
  BY <1>1, <1>2, SettingsFrame, Zenon DEF UnaryInv

(* read_response_frame and UnaryResponse::accept. *)
LEMMA ReadStep ==
    ASSUME UnaryInv, NEW frame \in Frames, ReadFrame(frame)
    PROVE  UnaryInv'
<1> DEFINE most == call.options.maxBody
<1>0. /\ ReadInv /\ stage = "reading" /\ read' = Append(read, frame) /\ read \in Seq(Frames)
      /\ outcome = "none" /\ DOMAIN resp = RespFields /\ resp.pending = "none"
      /\ CountedTo(read, resp, Len(read)) /\ resp.first = (read = <<>>)
  BY Zenon DEF UnaryInv, ReadFrame, ReadInv
<1>1. /\ read' \in Seq(Frames) /\ Len(read) \in Nat /\ Len(read') = Len(read) + 1
      /\ read'[Len(read) + 1] = frame /\ \A i \in 1..Len(read) : read'[i] = read[i]
  BY <1>0
<1>2. ASSUME NEW how \in {"transport", "internal"}, frame # "end", resp' = resp,
             Fail(how) \/ LoseStream(how)
      PROVE  UnaryInv'
  <2>1. Tells(read', how, most, sendHalf')
    BY <1>1, <1>2, FailTells, Zenon
  <2>2. /\ stage' = "done" /\ outcome' = how /\ UNCHANGED <<call, ops, sent, resp>>
        /\ DropStream \/ (SettleUpload /\ recvHalf' = "dropped" /\ call.shape # "unary")
    BY <1>2, Zenon DEF Fail, End, LoseStream
  <2>3. outcome' # "invalid" /\ stage \in {"reading", "draining"}
    BY <1>0, <2>2, Zenon
  <2> QED
    BY <1>0, <2>1, <2>2, <2>3, EndStep, Zenon
<1>3. CASE frame = "lost"
  BY <1>2, <1>3, Zenon DEF ReadFrame
<1>4. CASE frame = "end"
  <2>1. Finish
    BY <1>4, Zenon DEF ReadFrame
  <2>2. /\ stage' = "done" /\ outcome' = Finished /\ recvHalf' = "ended" /\ SettleUpload
        /\ UNCHANGED <<call, ops, sent, resp>>
    BY <2>1, Zenon DEF Finish, End
  <2>3. Finished = "internal"
    BY <1>0, Zenon DEF Finished
  <2>4. \A i \in 1..(Len(read') - 1) : read'[i] \in MessageFrames \cup {"headers"}
    BY <1>0, <1>1 DEF CountedTo, BeforeStatus
  <2>5. Tells(read', "internal", most, sendHalf')
    BY <1>1, <1>4, <2>4, EndTells
  <2>6. outcome' # "invalid" /\ stage \in {"reading", "draining"}
    BY <1>0, <2>2, <2>3, Zenon
  <2> QED
    BY <1>0, <2>2, <2>3, <2>5, <2>6, EndStep, Zenon
<1>5. CASE frame \notin {"lost", "end"}
  <2>1. Accept(frame)
    BY <1>5, Zenon DEF ReadFrame
  <2>2. ASSUME Goes(resp'), DOMAIN resp' = RespFields, resp'.first = FALSE, resp'.pending = "none",
               CountedTo(read', resp', Len(read'))
        PROVE  UnaryInv'
    <3>1. UNCHANGED <<call, ops, stage, sent, sendHalf, recvHalf, outcome>>
      BY <2>2, Zenon DEF Goes
    <3>2. read' # <<>>
      BY <1>1
    <3>3. resp'.first = (read' = <<>>)
      BY <2>2, <3>2, Zenon
    <3>4. ReadInv'
      BY <1>0, <1>1, <2>2, <3>1, <3>3, Zenon DEF ReadInv, Stages
    <3>5. stage' \in {"reading", "draining"}
      BY <1>0, <3>1, Zenon
    <3> QED
      BY <1>0, <3>1, <3>4, <3>5, GoOn, Zenon
  <2>3. CASE frame \in {"headers", "badHeaders"}
    <3>1. CASE resp.first /\ frame = "headers"
      <4>1. Goes([resp EXCEPT !.first = FALSE, !.headers = TRUE])
        BY <2>1, <2>3, <3>1, Zenon DEF Accept
      <4>2. resp' = [resp EXCEPT !.first = FALSE, !.headers = TRUE] /\ Goes(resp')
        BY <4>1, Zenon DEF Goes
      <4>3. /\ DOMAIN resp' = RespFields /\ resp'.first = FALSE /\ resp'.pending = "none"
            /\ resp'.count = resp.count
        BY <1>0, <4>2, Zenon DEF RespFields
      <4>4. CountedTo(read', resp', Len(read'))
        BY <1>0, <3>1, <4>3, CountFrame, Zenon
      <4> QED
        BY <2>2, <4>2, <4>3, <4>4, Zenon
    <3>2. CASE ~(resp.first /\ frame = "headers")
      BY <1>2, <1>5, <2>1, <2>3, <3>2, Zenon DEF Accept
    <3> QED
      BY <3>1, <3>2, Zenon
  <2>4. CASE frame \in MessageFrames
    <3> DEFINE wrong == \/ call.shape = "unary" /\ resp.count = 1
                        \/ call.shape = "sendAll" /\ (TooBig(frame) \/ frame = "badMessage")
               more == [resp EXCEPT !.first = FALSE, !.count = @ + 1, !.decodes = frame # "badMessage",
                                    !.size = IF frame = "bigMessage" THEN 3 ELSE 1]
    <3>0. frame \notin {"headers", "badHeaders"}
      BY <2>4, Zenon DEF MessageFrames
    <3>1. IF wrong THEN Fail("internal") /\ resp' = resp ELSE Goes(more)
      BY <2>1, <2>4, <3>0, Zenon DEF Accept
    <3>2. CASE wrong
      BY <1>2, <1>5, <3>1, <3>2, Zenon
    <3>3. CASE ~wrong
      <4>1. resp' = more /\ Goes(resp')
        BY <3>1, <3>3, Zenon DEF Goes
      <4>2. /\ DOMAIN resp' = RespFields /\ resp'.first = FALSE /\ resp'.pending = "none"
            /\ resp'.count = resp.count + 1 /\ resp'.decodes = (frame # "badMessage")
            /\ resp'.size = IF frame = "bigMessage" THEN 3 ELSE 1
        BY <1>0, <4>1, Zenon DEF RespFields
      <4>3. CountedTo(read', resp', Len(read'))
        BY <1>0, <2>4, <3>0, <4>2, CountFrame, Zenon
      <4> QED
        BY <2>2, <4>1, <4>2, <4>3, Zenon
    <3> QED
      BY <3>2, <3>3, Zenon
  <2>5. CASE frame \in {"ok", "error"}
    <3>0. frame \notin {"headers", "badHeaders"} \cup MessageFrames
      BY <2>5, Zenon DEF MessageFrames
    <3>1. /\ stage' = "draining" /\ resp' = [resp EXCEPT !.first = FALSE, !.pending = frame]
          /\ SettleUpload /\ UNCHANGED <<call, ops, sent, recvHalf, outcome>>
      BY <2>1, <3>0, Zenon DEF Accept
    <3>2. /\ DOMAIN resp' = RespFields /\ resp'.pending = frame /\ resp'.count = resp.count
          /\ resp'.decodes = resp.decodes /\ resp'.size = resp.size
      BY <1>0, <3>1, Zenon DEF RespFields
    <3>3. /\ BeforeStatus(read', Len(read)) /\ MessagesIn(read', Len(read)) = MessagesIn(read, Len(read))
          /\ MessagesIn(read, Len(read)) > 0 => Len(read) > 0
      BY <1>0, <1>1 DEF CountedTo, BeforeStatus, MessagesIn
    <3>4. Len(read) > 0 => read'[Len(read)] = read[Len(read)]
      BY <1>1
    <3>5. CountedTo(read', resp', Len(read))
      BY <1>0, <3>2, <3>3, <3>4, Zenon DEF CountedTo
    <3>6. Len(read') - 1 = Len(read) /\ Len(read') > 0 /\ read'[Len(read')] = frame
      BY <1>1
    <3>7. ReadInv'
      BY <1>0, <1>1, <2>5, <3>1, <3>2, <3>5, <3>6, Zenon DEF ReadInv, Stages
    <3>8. stage' \in {"reading", "draining"}
      BY <3>1, Zenon
    <3> QED
      BY <1>0, <3>1, <3>7, <3>8, GoOn, Zenon
  <2> QED
    BY <1>5, <2>3, <2>4, <2>5, Zenon DEF Frames, MessageFrames
<1> QED
  BY <1>3, <1>4, <1>5, Zenon

(* drain_fin_after_terminal_status. *)
LEMMA DrainStep ==
    ASSUME UnaryInv, NEW frame \in Frames, Drain(frame)
    PROVE  UnaryInv'
<1> DEFINE most == call.options.maxBody
<1>0. /\ ReadInv /\ SettingsInv /\ stage = "draining" /\ read' = Append(read, frame)
      /\ read \in Seq(Frames) /\ sendHalf # "open"
  BY Zenon DEF UnaryInv, Drain, ReadInv, HalvesInv
<1>1. CASE frame = "end"
  <2>1. Finish
    BY <1>1, Zenon DEF Drain
  <2>2. /\ stage' = "done" /\ outcome' = Finished /\ recvHalf' = "ended" /\ SettleUpload
        /\ UNCHANGED <<call, ops, sent, resp>>
    BY <2>1, Zenon DEF Finish, End
  <2>3. Tells(read', Finished, most, sendHalf')
    <3>1. sendHalf' = sendHalf
      BY <1>0, <2>2, Zenon DEF SettleUpload
    <3> QED
      BY <1>0, <1>1, <3>1, StatusTells, Zenon DEF SettingsInv
  <2>4. outcome' # "invalid" /\ stage \in {"reading", "draining"}
    BY <1>0, <2>2, Zenon DEF Finished
  <2> QED
    BY <1>0, <2>2, <2>3, <2>4, EndStep, Zenon
<1>2. CASE frame # "end"
  <2>1. \E how \in {"transport", "internal"} : LoseStream(how) /\ resp' = resp
    BY <1>2, Zenon DEF Drain
  <2>2. /\ stage' = "done" /\ outcome' \in {"transport", "internal"}
        /\ DropStream \/ (SettleUpload /\ recvHalf' = "dropped" /\ call.shape # "unary")
        /\ UNCHANGED <<call, ops, sent, resp>>
    BY <2>1, Zenon DEF LoseStream, Fail, End
  <2>3. read' \in Seq(Frames) /\ (Len(read') > 0 => read'[Len(read')] # "end")
    BY <1>0, <1>2
  <2>4. Tells(read', outcome', most, sendHalf')
    BY <2>2, <2>3, FailTells, Zenon
  <2>5. outcome' # "invalid" /\ stage \in {"reading", "draining"}
    BY <1>0, <2>2, Zenon
  <2> QED
    BY <1>0, <2>2, <2>4, <2>5, EndStep, Zenon
<1> QED
  BY <1>1, <1>2, Zenon

(* Nothing is set on a new call. *)
LEMMA UnaryInitial == UnaryInit => UnaryInv
<1> SUFFICES ASSUME UnaryInit PROVE UnaryInv
  BY Zenon
<1>1. PICK shape : call = NewCall(shape)
  BY Zenon DEF UnaryInit, Start
<1>2. /\ ops = <<>> /\ stage = "building" /\ sent = NotSent /\ read = <<>> /\ resp = NoResponse
      /\ sendHalf = "none" /\ recvHalf = "none" /\ outcome = "none"
  BY Zenon DEF UnaryInit, Start
<1>3. OpsInv
  BY <1>2 DEF OpsInv, HasLast
<1>4. \A name, otherwise : LastIn(ops, name, otherwise) = otherwise
  BY <1>2 DEF LastIn
<1>5. /\ DOMAIN call = CallFields /\ DOMAIN call.options = OptionFields
      /\ call.options.maxBody = 2 /\ call.options.timeout = "none" /\ call.options.unreliable = "unset"
      /\ call.options.metadata = [k \in {} |-> 0] /\ call.default = "none" /\ call.stream = "none"
      /\ call.types = FALSE /\ call.compress = FALSE
  BY <1>1, Zenon DEF NewCall, DefaultOptions, CallFields, OptionFields
<1>6. SettingsInv
  <2>1. (LastIn(ops, "attach", "unset") # "unset") = FALSE
    BY <1>4, Zenon
  <2> QED
    BY <1>4, <1>5, <2>1, ZenonT(30) DEF SettingsInv
<1>7. MetadataInv
  BY <1>2, <1>5 DEF MetadataInv, InPlace, FromMap
<1>8. SentInv
  BY <1>2, Zenon DEF SentInv
<1>9. ReadInv
  <2>1. DOMAIN NoResponse = RespFields
    BY Zenon DEF NoResponse, RespFields
  <2> QED
    BY <1>2, <2>1 DEF ReadInv, Stages
<1>10. HalvesInv
  BY <1>2, Zenon DEF HalvesInv, NothingLeftOpen
<1> QED
  BY <1>3, <1>6, <1>7, <1>8, <1>9, <1>10, Zenon DEF UnaryInv

(* The inductive invariant: what the call holds is what was set last, what was sent is what it     *)
(* held, and the outcome, the counts and the halves of the stream are those of the frames read.    *)
LEMMA UnaryInvariant == UnarySpec => []UnaryInv
<1>1. ASSUME UnaryInv, [UnaryNext]_callVars PROVE UnaryInv'
  <2>1. CASE UnaryNext
    BY <1>1, <2>1, BuildStep, PrepareStep, OpenStep, ReadStep, DrainStep, Zenon DEF UnaryNext
  <2>2. CASE UNCHANGED callVars
    <3>1. UNCHANGED <<call, ops, stage, sent, read, resp, sendHalf, recvHalf, outcome>>
      BY <2>2, Zenon DEF callVars
    <3>2. OpsInv' /\ SettingsInv' /\ MetadataInv'
      BY <1>1, <3>1, SettingsFrame, Zenon
    <3>3. SentInv'
      BY <1>1, <3>1, Zenon DEF UnaryInv, SentInv, IntoParts
    <3>4. ReadInv'
      BY <1>1, <3>1, Zenon DEF UnaryInv, ReadInv, OutcomeIsRead
    <3>5. HalvesInv'
      BY <1>1, <3>1, Zenon DEF UnaryInv, HalvesInv, NothingLeftOpen
    <3> QED
      BY <3>2, <3>3, <3>4, <3>5, Zenon DEF UnaryInv
  <2> QED
    BY <1>1, <2>1, <2>2, Zenon
<1> QED
  BY <1>1, UnaryInitial, PTL DEF UnarySpec

(* A call with one response has the outcome its frames tell (UnaryResponse::accept and finish,     *)
(* drain_fin_after_terminal_status), and leaves no half of its stream open (Drop for UnaryCall):   *)
(* for any number of frames and whatever was set on the call.                                      *)
THEOREM UnaryCallsEndWell == UnarySpec => []UnaryEndsWell
<1>1. UnaryInv => UnaryEndsWell
  <2> SUFFICES ASSUME UnaryInv PROVE OutcomeIsRead /\ NothingLeftOpen
    BY Zenon DEF UnaryEndsWell
  <2>1. NothingLeftOpen
    BY Zenon DEF UnaryInv, HalvesInv
  <2>2. CASE stage = "done"
    BY <2>1, <2>2, Zenon DEF UnaryInv, ReadInv
  <2>3. CASE stage # "done"
    <3>1. outcome = "none"
      BY <2>3, Zenon DEF UnaryInv, ReadInv
    <3> QED
      BY <2>1, <2>3, <3>1, Zenon DEF OutcomeIsRead
  <2> QED
    BY <2>2, <2>3, Zenon
<1> QED
  BY <1>1, UnaryInvariant, PTL

(* The transport is given what was set last on a call (CallOptions, Call::into_parts,              *)
(* prepare_streaming_request, unary_response): for any keys and any number of settings.            *)
THEOREM CallsSendWhatIsConfigured == UnarySpec => []ConfiguredIsSent
<1>1. UnaryInv => ConfiguredIsSent
  <2> SUFFICES ASSUME UnaryInv PROVE ConfiguredIsSent
    BY Zenon
  <2>0. OpsInv /\ SettingsInv /\ MetadataInv /\ SentInv
    BY Zenon DEF UnaryInv
  <2>1. outcome = "invalid" =>
            \/ LastSet("timeout", "none") = "tooLong"
            \/ \E i \in DOMAIN ops : ops[i].name = "map" /\ Lower(ops[i].value) # ops[i].value
    <3>1. outcome = "invalid" =>
              \/ call.options.timeout = "tooLong"
              \/ \E k \in DOMAIN call.options.metadata : Lower(k) # k
      BY <2>0, Zenon DEF SentInv, ValidMetadata
    <3>2. \A k \in DOMAIN call.options.metadata : Lower(k) # k =>
              \E i \in DOMAIN ops : ops[i].name = "map" /\ ops[i].value = k
      BY <2>0, Zenon DEF MetadataInv, FromMap
    <3>3. call.options.timeout = LastSet("timeout", "none")
      BY <2>0, Zenon DEF SettingsInv, LastSet
    <3> QED
      BY <3>1, <3>2, <3>3, ZenonT(30)
  <2>2. ASSUME sent # NotSent
        PROVE  /\ sent.timeout = TimeoutNanos(LastSet("timeout", "none"))
               /\ sent.types = (LastSet("attach", "unset") # "unset") /\ sent.compress = sent.types
    BY <2>0, <2>2, Zenon DEF SettingsInv, SentInv, LastSet
  <2>3. ASSUME sent # NotSent
        PROVE  IF sent.kind = "unary" THEN sent.unreliable = "none" /\ sent.stream = "none"
               ELSE /\ sent.unreliable = LastSet("unreliable", LastSet("attach", "none"))
                    /\ sent.stream = LastSet("attach", "none")
    <3>1. LastIn(ops, "unreliable", LastIn(ops, "attach", "none")) = IntoParts
      <4> DEFINE at == {i \in DOMAIN ops : ops[i].name = "unreliable"}
                 last == CHOOSE i \in at : \A j \in at : j <= i
      <4>1. CASE at = {}
        <5>1. \A o : LastIn(ops, "unreliable", o) = o
          BY <4>1, Zenon DEF LastIn
        <5> QED
          BY <2>0, <5>1, Zenon DEF SettingsInv, IntoParts
      <4>2. CASE at # {}
        <5>1. \A o : LastIn(ops, "unreliable", o) = ops[last].value
          BY <4>2, Zenon DEF LastIn
        <5>2. "unreliable" \in OpNames
          BY Zenon DEF OpNames
        <5>3. last \in at
          BY <2>0, <4>2, <5>2, Zenon DEF OpsInv, HasLast
        <5>4. ops[last].value # "unset"
          BY <2>0, <5>3 DEF OpsInv, Ops, Directions
        <5> QED
          BY <2>0, <5>1, <5>4, Zenon DEF SettingsInv, IntoParts
      <4> QED
        BY <4>1, <4>2, Zenon
    <3> QED
      BY <2>0, <2>3, <3>1, Zenon DEF SettingsInv, SentInv, LastSet
  <2>4. ASSUME sent # NotSent, NEW i \in DOMAIN ops, ops[i].name \in {"metadata", "map"}
        PROVE  SetAgain(ops, i) \/ sent.metadata[Lower(ops[i].value)] = i
    <3>1. /\ sent.metadata = call.options.metadata
          /\ \A k \in DOMAIN call.options.metadata : Lower(k) = k
      BY <2>0, <2>4, Zenon DEF SentInv, ValidMetadata
    <3>2. \/ SetAgain(ops, i)
          \/ /\ OpKey(ops[i]) \in DOMAIN call.options.metadata
             /\ call.options.metadata[OpKey(ops[i])] = i
      BY <2>0, <2>4, Zenon DEF MetadataInv, InPlace
    <3>3. OpKey(ops[i]) \in DOMAIN call.options.metadata => OpKey(ops[i]) = Lower(ops[i].value)
      BY <3>1, Zenon DEF OpKey
    <3> QED
      BY <3>1, <3>2, <3>3, Zenon
  <2> QED
    BY <2>1, <2>2, <2>3, <2>4, Zenon DEF ConfiguredIsSent, SetAgain
<1> QED
  BY <1>1, UnaryInvariant, PTL

-----------------------------------------------------------------------------
(* The order of a dial, by what is known of finite sets and of numbers. *)
Finite == INSTANCE FiniteSetTheorems

(* interleave gives every address a place. *)
LEMMA PlacesAreNumbers ==
    ASSUME NEW addrs \in Answers, NEW a \in Addresses
    PROVE  Places[addrs][a] \in Nat
<1> DEFINE before == {b \in Range(addrs) : (a \in Ipv4) = (b \in Ipv4) /\ Earlier(addrs, b, a)}
<1>1. addrs \in Seq(Addresses)
  BY DialAssumption, Zenon
<1>2. before \subseteq Addresses
  BY <1>1 DEF Range
<1>3. Cardinality(before) \in Nat
  <2>1. Finite!IsFiniteSet(Addresses)
    BY DialAssumption, Zenon DEF IsFiniteSet, Finite!IsFiniteSet
  <2>2. Finite!Cardinality(before) \in Nat
    BY <1>2, <2>1, Finite!FS_Subset, Finite!FS_CardinalityType, Zenon
  <2> QED
    BY <2>2, Zenon DEF Cardinality, Finite!Cardinality
<1>4. Places[addrs][a] = 2 * Cardinality(before) + (IF (a \in Ipv4) = (addrs[1] \in Ipv4) THEN 0 ELSE 1)
  BY Zenon DEF Places, Place
<1> HIDE DEF before
<1> QED
  BY <1>3, <1>4

(* Their places are numbers, so one comes first. *)
LEMMA ForemostIsOne ==
    ASSUME DialTypeOK
    PROVE  HasForemost
<1> SUFFICES ASSUME NEW S \in SUBSET Addresses, S # {} PROVE Foremost(S) \in S
  BY Zenon DEF HasForemost
<1> DEFINE P == Places[answer]
           T == {P[a] : a \in S}
<1>1. \A a \in S : P[a] \in Nat
  BY PlacesAreNumbers, Zenon DEF DialTypeOK
<1> HIDE DEF P
<1>2. T \subseteq Nat /\ T # {}
  BY <1>1, Zenon
<1>3. PICK n \in T : \A m \in T : <<m, n>> \notin Finite!OpToRel(<, Nat)
  BY <1>2, Finite!NatLessThanWellFounded, Finite!WFMin, Zenon
<1>4. PICK a \in S : P[a] = n
  BY <1>3, Zenon
<1>5. \A b \in S : ~(P[b] < P[a])
  BY <1>1, <1>3, <1>4, Zenon DEF Finite!OpToRel
<1>6. \A b \in S : P[a] <= P[b]
  BY <1>1, <1>5
<1> QED
  BY <1>6, Zenon DEF Foremost, P

(* However the attempts of a dial are delayed, fail and overtake each other, and whatever the      *)
(* resolver answers: a dial that fails for its attempts failed over every transport that it was to *)
(* use at every address (Dialer::race, happy_eyeballs).                                            *)
THEOREM DialsTryEverything == DialSpec => []FailsWhenAllDid
<1>1. DialInit => DialInv
  BY DialInitial, Zenon
<1>2. DialInv /\ [DialNext]_dialVars => DialInv'
  BY ForemostIsOne, DialStep, Zenon DEF DialInv
<1>3. DialInv => FailsWhenAllDid
  BY Zenon DEF DialInv
<1> QED
  BY <1>1, <1>2, <1>3, PTL DEF DialSpec

=============================================================================
