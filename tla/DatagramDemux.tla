---------------------------- MODULE DatagramDemux ----------------------------
(* The server's demultiplexer of one connection's datagrams (datagram.rs): the *)
(* reading task, the registered flows, the datagrams held for a REQUEST they    *)
(* overtook, the ended flows it remembers, and the request stream of each call, *)
(* which merges the datagram messages with those of its stream.                 *)
(*                                                                            *)
(* A datagram carries one message and is known by its flow and its number;      *)
(* those that decode or inflate drops are lost.  The messages of the stream      *)
(* itself are RequestPump's: here it only ends or fails.                         *)
EXTENDS Naturals, Sequences, FiniteSets, SequencesExt

CONSTANTS
    Flows,          \* the flows of the connection, each used by one call at a time
    Sends,          \* bound: the datagrams of a flow
    MaxHeld,        \* MAX_HELD_DATAGRAMS, which also stands for MAX_HELD_BYTES
    EndedCapacity,  \* the ended flows that are remembered
    QueueCap,       \* the datagram messages a call queues
    MaxDrained      \* MAX_DRAINED

ASSUME DemuxAssumption ==
    /\ IsFiniteSet(Flows) /\ Sends \in Nat
    /\ {MaxHeld, EndedCapacity, QueueCap, MaxDrained} \subseteq Nat \ {0}

VARIABLES
    callAt,    \* where each call is
    sent,      \* datagrams its client sent
    net,       \* datagrams on their way
    buffer,    \* datagrams the transport received
    hand,      \* the datagram that each task took and has yet to dispatch, if any
    flows,     \* State::flows
    ended,     \* EndedFlows, oldest first
    held,      \* HeldDatagrams, oldest first
    stale,     \* how many of them are older than HELD_DATAGRAM_TTL
    claimed,   \* held datagrams of a flow that is opening
    queue,     \* the datagram queue of each call
    got,       \* the datagram messages its handler received
    drained,   \* datagrams its drain dispatched
    due        \* ghost: what arrived before the end of its request stream

state == <<flows, ended, held, stale>>
network == <<sent, net>>
mergedVars == <<got, drained, due>>

(* The tasks that dispatch datagrams: the reading task, and calls that drain. *)
Dispatching == Flows \union {"reader"}
vars == <<callAt, network, buffer, hand, state, claimed, queue, mergedVars>>

Init ==
    /\ callAt = [f \in Flows |-> "unopened"]
    /\ sent = [f \in Flows |-> 0] /\ net = {} /\ buffer = <<>>
    /\ hand = [t \in Dispatching |-> <<>>]
    /\ flows = {} /\ ended = <<>> /\ held = <<>> /\ stale = 0
    /\ claimed = [f \in Flows |-> <<>>] /\ queue = [f \in Flows |-> <<>>]
    /\ got = [f \in Flows |-> <<>>] /\ drained = [f \in Flows |-> 0]
    /\ due = [f \in Flows |-> {}]

GoTo(f, phase) == callAt' = [callAt EXCEPT ![f] = phase]
Of(f, items) == SelectSeq(items, LAMBDA d : d.flow = f)

-----------------------------------------------------------------------------
(* The client and the network. *)

Send(f) ==
    /\ sent[f] < Sends
    /\ sent' = [sent EXCEPT ![f] = @ + 1]
    /\ net' = net \union {[flow |-> f, number |-> sent[f] + 1]}
    /\ UNCHANGED <<callAt, buffer, hand, state, claimed, queue, mergedVars>>
Arrive(d) ==
    /\ d \in net /\ net' = net \ {d}
    /\ buffer' = Append(buffer, d)
    /\ UNCHANGED <<callAt, sent, hand, state, claimed, queue, mergedVars>>
Lose(d) ==
    /\ d \in net /\ net' = net \ {d}
    /\ UNCHANGED <<callAt, sent, buffer, hand, state, claimed, queue, mergedVars>>

-----------------------------------------------------------------------------
(* The demultiplexer's state, under its lock. *)

(* A queue takes a message while it is open and has room, and drops it otherwise. *)
Room(f) == callAt[f] \in {"opening", "reading", "draining", "ending"} /\ Len(queue[f]) < QueueCap
Queued(d) == IF Room(d.flow) THEN [queue EXCEPT ![d.flow] = Append(@, d)] ELSE queue

(* HeldDatagrams::expire. *)
Unexpired == SubSeq(held, stale + 1, Len(held))

(* HeldDatagrams::hold. *)
Hold(d) ==
    /\ held' = IF Len(Unexpired) < MaxHeld THEN Append(Unexpired, d) ELSE Unexpired
    /\ stale' = 0

(* Shared::dispatch: to its flow, held for a flow that has yet to open, or dropped. *)
Dispatch(d) ==
    /\ IF d.flow \in flows THEN queue' = Queued(d) /\ UNCHANGED <<held, stale>>
       ELSE IF d.flow \notin ToSet(ended) THEN Hold(d) /\ UNCHANGED queue
       ELSE UNCHANGED <<held, stale, queue>>
    /\ due' = IF Len(queue[d.flow]) = QueueCap THEN [due EXCEPT ![d.flow] = @ \ {d}] ELSE due

Age ==
    /\ stale < Len(held) /\ stale' = stale + 1
    /\ UNCHANGED <<callAt, network, buffer, hand, flows, ended, held, claimed, queue, mergedVars>>

(* EndedFlows::insert. *)
EndedInsert(f) ==
    IF f \in ToSet(ended) THEN ended
    ELSE IF Len(ended) < EndedCapacity THEN Append(ended, f) ELSE Append(Tail(ended), f)

(* A task takes the next datagram of the transport, and dispatches it. *)
Takes(t) ==
    /\ hand[t] = <<>> /\ buffer # <<>>
    /\ hand' = [hand EXCEPT ![t] = <<Head(buffer)>>] /\ buffer' = Tail(buffer)
Dispatches(t) == hand[t] # <<>> /\ Dispatch(Head(hand[t])) /\ hand' = [hand EXCEPT ![t] = <<>>]

(* read_datagrams *)
ReaderTakes ==
    Takes("reader") /\ UNCHANGED <<callAt, network, state, claimed, queue, mergedVars>>
ReaderDispatches ==
    /\ Dispatches("reader")
    /\ UNCHANGED <<callAt, network, buffer, flows, ended, claimed, got, drained>>

(* open_server_flow, when the REQUEST is read: the flow is registered and its datagrams claimed, *)
(* which are queued after the lock is released, while others are dispatched.  A REQUEST that     *)
(* names a live flow is refused and changes nothing.                                              *)
OpenFlow(f) ==
    /\ f \notin flows /\ GoTo(f, "opening")
    /\ ended' = SelectSeq(ended, LAMBDA g : g # f)
    /\ claimed' = [claimed EXCEPT ![f] = Of(f, Unexpired)]
    /\ held' = SelectSeq(Unexpired, LAMBDA d : d.flow # f) /\ stale' = 0
    /\ flows' = flows \union {f} /\ drained' = [drained EXCEPT ![f] = 0]
    /\ UNCHANGED <<network, buffer, hand, queue, got, due>>
QueueClaimed(f) ==
    /\ callAt[f] = "opening" /\ claimed[f] # <<>>
    /\ queue' = Queued(Head(claimed[f]))
    /\ claimed' = [claimed EXCEPT ![f] = Tail(@)]
    /\ UNCHANGED <<callAt, network, buffer, hand, state, mergedVars>>
Opened(f) ==
    /\ callAt[f] = "opening" /\ claimed[f] = <<>> /\ GoTo(f, "reading")
    /\ UNCHANGED <<network, buffer, hand, state, claimed, queue, mergedVars>>

(* FlowGuard's drop, when the call ends, whatever the way it ends: its task polls the handler, so *)
(* the handler's stream ends with it, and never in the middle of a drain.                          *)
Unregister(f) ==
    /\ callAt[f] \in {"reading", "ending", "closed", "failed"} /\ GoTo(f, "over")
    /\ flows' = flows \ {f} /\ ended' = EndedInsert(f)
    /\ queue' = [queue EXCEPT ![f] = <<>>]
    /\ UNCHANGED <<network, buffer, hand, held, stale, claimed, mergedVars>>

-----------------------------------------------------------------------------
(* MergedRequests, as the handler polls it. *)

Receive(f) ==
    /\ callAt[f] \in {"reading", "ending"} /\ queue[f] # <<>>
    /\ got' = [got EXCEPT ![f] = Append(@, Head(queue[f]))]
    /\ queue' = [queue EXCEPT ![f] = Tail(@)]
    /\ UNCHANGED <<callAt, network, buffer, hand, state, claimed, drained, due>>

Drainable == SubSeq(buffer, 1, IF Len(buffer) < MaxDrained THEN Len(buffer) ELSE MaxDrained)
InHand == UNION {ToSet(hand[t]) : t \in Dispatching}

(* An end that delivers what is queued, and drains nothing. *)
StreamEndsUndrained(f) ==
    /\ callAt[f] = "reading" /\ GoTo(f, "ending")
    /\ due' = [due EXCEPT ![f] = ToSet(queue[f] \o Of(f, Drainable))]
    /\ UNCHANGED <<network, buffer, hand, state, claimed, queue, got, drained>>

(* The request stream ends: the datagrams that were received are dispatched, up to a bound, while  *)
(* the reading task and other calls take some of them.                                             *)
StreamEnds(f) ==
    /\ callAt[f] = "reading" /\ GoTo(f, "draining")
    /\ due' = [due EXCEPT ![f] = ToSet(queue[f] \o Of(f, Drainable))]
    /\ UNCHANGED <<network, buffer, hand, state, claimed, queue, got, drained>>
DrainTakes(f) ==
    /\ callAt[f] = "draining" /\ drained[f] < MaxDrained
    /\ Takes(f) /\ drained' = [drained EXCEPT ![f] = @ + 1]
    /\ UNCHANGED <<callAt, network, state, claimed, queue, got, due>>
DrainDispatches(f) ==
    Dispatches(f) /\ UNCHANGED <<callAt, network, buffer, flows, ended, claimed, got, drained>>
Drained(f) ==
    /\ callAt[f] = "draining" /\ hand[f] = <<>> /\ (buffer = <<>> \/ drained[f] = MaxDrained)
    /\ GoTo(f, "ending")
    /\ UNCHANGED <<network, buffer, hand, state, claimed, queue, mergedVars>>
Drains(f) == DrainTakes(f) \/ DrainDispatches(f) \/ Drained(f)

(* The queue is empty: it is dropped and the requests end, without what is still in a task's hand. *)
Close(f) ==
    /\ callAt[f] = "ending" /\ queue[f] = <<>> /\ GoTo(f, "closed")
    /\ due' = [due EXCEPT ![f] = @ \ InHand]
    /\ UNCHANGED <<network, buffer, hand, state, claimed, queue, got, drained>>

(* The request stream fails: nothing more is delivered. *)
StreamFails(f) ==
    /\ callAt[f] = "reading" /\ GoTo(f, "failed")
    /\ queue' = [queue EXCEPT ![f] = <<>>]
    /\ UNCHANGED <<network, buffer, hand, state, claimed, mergedVars>>

Opens(f) == OpenFlow(f) \/ QueueClaimed(f) \/ Opened(f)
Merges(f) == Receive(f) \/ StreamEnds(f) \/ StreamFails(f) \/ Drains(f) \/ Close(f)
Next ==
    \/ \E f \in Flows : Send(f) \/ Opens(f) \/ Unregister(f) \/ Merges(f)
    \/ \E d \in net : Arrive(d) \/ Lose(d)
    \/ ReaderTakes \/ ReaderDispatches \/ Age

Spec == Init /\ [][Next]_vars

-----------------------------------------------------------------------------
(* Properties. *)

(* "Unreliable messages may be lost or reordered, but are never duplicated" (Unreliable): a        *)
(* datagram is in one place at a time, whether it was held, claimed, dispatched or drained; and    *)
(* none is held for a call that is live, or over and remembered (dispatch, unregister).            *)
NeverTwice ==
    \A f \in Flows :
        LET places == Of(f, buffer \o held) \o claimed[f] \o queue[f] \o got[f]
            handed == {t \in Dispatching : Of(f, hand[t]) # <<>>} IN
        /\ Cardinality(ToSet(places)) = Len(places) /\ ToSet(places) \intersect (net \union InHand) = {}
        /\ \A t, u \in handed : hand[t] = hand[u] => t = u
        /\ \A d \in ToSet(claimed[f] \o queue[f] \o got[f]) : d.flow = f
        /\ f \in flows \union ToSet(ended) => Of(f, held) = <<>>

(* "The datagrams that arrived before the end of the stream are delivered first" (poll_requests):  *)
(* of those that a drain may take, a call receives all before it ends, but for those that its full *)
(* queue dropped and those that another task had taken and not yet dispatched when it ended.       *)
ArrivedAreReceived == \A f \in Flows : callAt[f] = "closed" => due[f] \subseteq ToSet(got[f])

==============================================================================
