-------------------------- MODULE DatagramResponses --------------------------
(* The responses of one connection that travel as datagrams (datagram.rs), from  *)
(* the server's writers to the client's readers.  A writer (ResponseDatagrams)    *)
(* puts its messages in datagrams where they fit, and shares a Link with the      *)
(* others, which keeps the largest datagram size it last read.  The network       *)
(* delivers the stream in order and the datagrams as it likes, and the client     *)
(* merges them again (MergedResponses).                                           *)
(*                                                                              *)
(* A message is its number and the bytes of its frame; a datagram is the         *)
(* sequence of messages packed into it.  The wait of flushed() ends by itself     *)
(* after FLUSH_WAIT, so that it promises nothing and is not a step.  The client's *)
(* flow is registered before the REQUEST is sent, so its demultiplexer never      *)
(* holds a datagram; the server's is DatagramDemux.                               *)
EXTENDS Naturals, Sequences, FiniteSets, SequencesExt

CONSTANTS
    Calls,       \* the calls that send on the connection
    Paths,       \* sizes the transport may allow, 0 when it has no datagrams
    Sizes,       \* sizes of a message's frame
    Messages     \* bound: the messages of a response

Headers == [kind |-> "headers"]
Status == [kind |-> "status"]
IsMessage(frame) == frame.kind = "message"
Number(sizes) == [i \in DOMAIN sizes |-> [kind |-> "message", number |-> i, size |-> sizes[i]]]

(* What a handler may answer: HEADERS or none, its messages, and a STATUS or none. *)
Responses ==
    {h \o Number(sizes) \o t :
        h \in {<<>>, <<Headers>>}, t \in {<<>>, <<Status>>}, sizes \in UNION {[1..n -> Sizes] : n \in 0..Messages}}

VARIABLES
    path,      \* the size the transport allows
    cached,    \* Link::max_size
    fresh,     \* whether Link::read_at is neither UNREAD nor older than MAX_SIZE_REUSE
    at,        \* where each call's writer is
    left,      \* frames of the response it has yet to take
    batch,     \* messages of the batch it has yet to pack
    other,     \* the other frames of the batch
    flushed,   \* headers_flushed
    max,       \* the size it packs datagrams to
    packed,    \* messages packed into its datagram
    onStream,  \* messages that have to travel on the stream
    cancelled, \* whether the call was cancelled
    fired,     \* whether send_batch noticed
    stream,    \* the frames written to its stream
    datagrams  \* the datagrams handed to the transport

link == <<path, cached, fresh>>
writing == <<left, batch, other, flushed, max, packed, onStream, fired>>
vars == <<link, at, writing, cancelled, stream, datagrams>>

Size(messages) == FoldSeq(LAMBDA m, sum : m.size + sum, 0, messages)

Start(allowed, answers) ==
    /\ path = allowed /\ cached = 0 /\ fresh = FALSE
    /\ at = [c \in Calls |-> "idle"] /\ left = answers
    /\ batch = [c \in Calls |-> <<>>] /\ other = batch /\ packed = batch /\ onStream = batch
    /\ stream = batch /\ datagrams = batch
    /\ max = [c \in Calls |-> 0]
    /\ flushed = [c \in Calls |-> FALSE] /\ cancelled = flushed /\ fired = flushed
Init == \E allowed \in Paths, answers \in [Calls -> Responses] : Start(allowed, answers)

GoTo(c, step) == at' = [at EXCEPT ![c] = step]
Set(f, c, value) == [f EXCEPT ![c] = value]

-----------------------------------------------------------------------------
(* ResponseDatagrams::write, up to the messages. *)

HasMessage(frames) == \E f \in ToSet(frames) : IsMessage(f)

(* A batch of the frames that are ready, which the STATUS ends; HEADERS, empty ones if the handler *)
(* gave none, precede the first datagram.                                                          *)
Write(c) ==
    \E n \in DOMAIN left[c] :
        LET frames == SubSeq(left[c], 1, n)
            first == HasMessage(frames) /\ ~flushed[c]
            rest == IF first THEN SelectSeq(frames, LAMBDA f : f # Headers) ELSE frames IN
        /\ at[c] = "idle"
        /\ left' = Set(left, c, SubSeq(left[c], n + 1, Len(left[c])))
        /\ batch' = Set(batch, c, SelectSeq(rest, IsMessage))
        /\ other' = Set(other, c, SelectSeq(rest, LAMBDA f : ~IsMessage(f)))
        /\ flushed' = Set(flushed, c, flushed[c] \/ HasMessage(frames) \/ Headers = Head(frames))
        /\ fired' = Set(fired, c, FALSE)
        /\ GoTo(c, IF first THEN "headers" ELSE "size")
        /\ UNCHANGED <<link, max, packed, onStream, cancelled, stream, datagrams>>

WriteHeaders(c) ==
    /\ at[c] = "headers" /\ GoTo(c, "size")
    /\ stream' = Set(stream, c, Append(stream[c], Headers))
    /\ UNCHANGED <<link, writing, cancelled, datagrams>>

(* A write of the stream fails. *)
WriteFails(c) ==
    /\ at[c] \in {"headers", "rest"} /\ GoTo(c, "failed")
    /\ UNCHANGED <<link, writing, cancelled, stream, datagrams>>

-----------------------------------------------------------------------------
(* Link::max_size, one atomic access at a time. *)

CheckRead(c) ==
    /\ at[c] = "size" /\ GoTo(c, IF fresh THEN "cached" ELSE "read")
    /\ UNCHANGED <<link, writing, cancelled, stream, datagrams>>
LoadSize(c) ==
    /\ at[c] = "cached" /\ GoTo(c, "pack") /\ max' = Set(max, c, cached)
    /\ UNCHANGED <<link, left, batch, other, flushed, packed, onStream, fired, cancelled, stream, datagrams>>

ReadPath(c) ==
    /\ at[c] = "read" /\ GoTo(c, "store") /\ max' = Set(max, c, path)
    /\ UNCHANGED <<path, cached, fresh, left, batch, other, flushed, packed, onStream, fired, cancelled, stream, datagrams>>
StoreSize(c) ==
    /\ at[c] = "store" /\ GoTo(c, "stamp") /\ cached' = max[c]
    /\ UNCHANGED <<path, fresh, writing, cancelled, stream, datagrams>>
StoreReadAt(c) ==
    /\ at[c] = "stamp" /\ GoTo(c, "pack") /\ fresh' = TRUE
    /\ UNCHANGED <<path, cached, writing, cancelled, stream, datagrams>>

(* MAX_SIZE_REUSE passes, and the path changes. *)
Expire ==
    /\ fresh /\ fresh' = FALSE
    /\ UNCHANGED <<path, cached, at, writing, cancelled, stream, datagrams>>
PathChanges ==
    /\ path' \in Paths \ {path}
    /\ UNCHANGED <<cached, fresh, at, writing, cancelled, stream, datagrams>>

-----------------------------------------------------------------------------
(* send_batch and flush. *)

Full(c, m) == packed[c] # <<>> /\ Size(packed[c]) + m.size > max[c]

(* The next message goes on the stream, into the datagram, or waits until that is sent. *)
Pack(c) ==
    /\ at[c] = "pack" /\ batch[c] # <<>>
    /\ LET m == Head(batch[c]) IN
        \/ /\ m.size > max[c]
           /\ onStream' = Set(onStream, c, Append(onStream[c], m))
           /\ batch' = Set(batch, c, Tail(batch[c])) /\ UNCHANGED <<at, packed>>
        \/ /\ m.size <= max[c] /\ Full(c, m)
           /\ GoTo(c, "flush") /\ UNCHANGED <<batch, packed, onStream>>
        \/ /\ m.size <= max[c] /\ ~Full(c, m)
           /\ packed' = Set(packed, c, Append(packed[c], m))
           /\ batch' = Set(batch, c, Tail(batch[c])) /\ UNCHANGED <<at, onStream>>
    /\ UNCHANGED <<link, left, other, flushed, max, fired, cancelled, stream, datagrams>>

PackDone(c) ==
    /\ at[c] = "pack" /\ batch[c] = <<>> /\ GoTo(c, IF packed[c] = <<>> THEN "rest" ELSE "flush")
    /\ UNCHANGED <<link, writing, cancelled, stream, datagrams>>

(* The transport takes a datagram that its path allows; a send that has to wait succeeds later. *)
Sent(c) ==
    /\ at[c] \in {"flush", "wait"} /\ Size(packed[c]) <= path
    /\ datagrams' = Set(datagrams, c, Append(datagrams[c], packed[c]))
    /\ packed' = Set(packed, c, <<>>) /\ GoTo(c, "pack")
    /\ UNCHANGED <<link, left, batch, other, flushed, max, onStream, fired, cancelled, stream>>

OnStream(c) ==
    /\ onStream' = Set(onStream, c, onStream[c] \o packed[c])
    /\ packed' = Set(packed, c, <<>>) /\ GoTo(c, "pack")

(* The transport refuses it, for its size or because the connection is lost. *)
Refused(c) ==
    /\ at[c] \in {"flush", "wait"} /\ OnStream(c)
    /\ fresh' = FALSE
    /\ UNCHANGED <<path, cached, left, batch, other, flushed, max, fired, cancelled, stream, datagrams>>

(* It has no room: the send waits, unless the call was already seen cancelled. *)
NoRoom(c) ==
    /\ at[c] = "flush"
    /\ IF fired[c] THEN OnStream(c) ELSE GoTo(c, "wait") /\ UNCHANGED <<packed, onStream>>
    /\ UNCHANGED <<link, left, batch, other, flushed, max, fired, cancelled, stream, datagrams>>

GiveUp(c) ==
    /\ at[c] = "wait" /\ cancelled[c] /\ fired' = Set(fired, c, TRUE) /\ OnStream(c)
    /\ UNCHANGED <<link, left, batch, other, flushed, max, cancelled, stream, datagrams>>

Cancel(c) ==
    /\ ~cancelled[c] /\ cancelled' = Set(cancelled, c, TRUE)
    /\ UNCHANGED <<link, at, writing, stream, datagrams>>

WriteRest(c) ==
    /\ at[c] = "rest" /\ GoTo(c, IF Status \in ToSet(other[c]) THEN "done" ELSE "idle")
    /\ stream' = Set(stream, c, stream[c] \o onStream[c] \o other[c])
    /\ onStream' = Set(onStream, c, <<>>) /\ other' = Set(other, c, <<>>)
    /\ UNCHANGED <<link, left, batch, flushed, max, packed, fired, cancelled, datagrams>>

Reads(c) == CheckRead(c) \/ LoadSize(c) \/ ReadPath(c) \/ StoreSize(c) \/ StoreReadAt(c)
Flushes(c) == Sent(c) \/ Refused(c) \/ NoRoom(c) \/ GiveUp(c)
Writes(c) == Write(c) \/ WriteHeaders(c) \/ Pack(c) \/ PackDone(c) \/ WriteRest(c)
Next ==
    \/ \E c \in Calls : Reads(c) \/ Flushes(c) \/ Writes(c) \/ WriteFails(c) \/ Cancel(c)
    \/ Expire \/ PathChanges

Spec == Init /\ [][Next]_vars

-----------------------------------------------------------------------------
(* The network and the client. *)

CONSTANTS QueueCap,   \* the datagram messages that a call queues
          MaxDrained  \* MAX_DRAINED

VARIABLES
    taken,    \* datagrams that arrived or were lost
    buffer,   \* datagrams the transport received, of any call
    hand,     \* the datagram that each task took and has yet to dispatch, if any
    queue,    \* the call's datagram queue
    read,     \* frames of the stream it has read
    headersRead,
    phase,    \* ResponsePhase, or "failed" once the stream failed
    terminal, \* the STATUS that waits for the queue, if any
    out,      \* the frames of the merged response
    drained,  \* datagrams its drain took
    due       \* ghost: the messages that arrived before the end of its stream

client == <<taken, buffer, hand, queue, read, headersRead, phase, terminal, out, drained, due>>

(* The tasks that dispatch datagrams: the reading task, and calls that drain. *)
Dispatching == Calls \union {"reader"}

Unread ==
    /\ taken = [c \in Calls |-> {}] /\ due = taken
    /\ buffer = <<>> /\ hand = [t \in Dispatching |-> <<>>]
    /\ queue = [c \in Calls |-> <<>>] /\ terminal = queue /\ out = queue
    /\ read = [c \in Calls |-> 0] /\ drained = read /\ headersRead = [c \in Calls |-> FALSE]
    /\ phase = [c \in Calls |-> "open"]
MergedInit == Init /\ Unread

-----------------------------------------------------------------------------
(* The network, and the task that reads the client's datagrams. *)

Arrive(c, i) ==
    /\ i \in DOMAIN datagrams[c] \ taken[c] /\ taken' = Set(taken, c, taken[c] \union {i})
    /\ buffer' = Append(buffer, [call |-> c, messages |-> datagrams[c][i]])
    /\ UNCHANGED <<vars, hand, queue, read, headersRead, phase, terminal, out, drained, due>>
Lose(c, i) ==
    /\ i \in DOMAIN datagrams[c] \ taken[c] /\ taken' = Set(taken, c, taken[c] \union {i})
    /\ UNCHANGED <<vars, buffer, hand, queue, read, headersRead, phase, terminal, out, drained, due>>

(* Shared::dispatch: the messages of a datagram are queued, those without room dropped. *)
Dispatch(c, messages) ==
    LET all == queue[c] \o messages
        kept == IF phase[c] \in {"ended", "failed"} THEN queue[c]
                ELSE SubSeq(all, 1, IF Len(all) < QueueCap THEN Len(all) ELSE QueueCap) IN
    /\ queue' = Set(queue, c, kept)
    /\ due' = Set(due, c, IF phase[c] = "ended" THEN due[c]
                          ELSE due[c] \ {all[i] : i \in (Len(kept) + 1)..Len(all)})

(* A task takes the next datagram of the transport, and dispatches it. *)
Takes(t) ==
    /\ hand[t] = <<>> /\ buffer # <<>>
    /\ hand' = Set(hand, t, <<Head(buffer)>>) /\ buffer' = Tail(buffer)
Dispatches(t) ==
    hand[t] # <<>> /\ Dispatch(hand[t][1].call, hand[t][1].messages) /\ hand' = Set(hand, t, <<>>)

(* read_datagrams *)
ReaderTakes ==
    /\ Takes("reader")
    /\ UNCHANGED <<vars, taken, queue, read, headersRead, phase, terminal, out, drained, due>>
ReaderDispatches ==
    /\ Dispatches("reader")
    /\ UNCHANGED <<vars, taken, buffer, read, headersRead, phase, terminal, out, drained>>

-----------------------------------------------------------------------------
(* MergedResponses: either source may be polled first. *)

Emit(c, frames) == out' = Set(out, c, out[c] \o frames)

PollDatagrams(c) ==
    /\ phase[c] = "open" /\ headersRead[c] /\ queue[c] # <<>>
    /\ Emit(c, <<Head(queue[c])>>) /\ queue' = Set(queue, c, Tail(queue[c]))
    /\ UNCHANGED <<vars, taken, buffer, hand, read, headersRead, phase, terminal, drained, due>>

(* The next frame of the stream, other than its STATUS. *)
PollFrames(c) ==
    /\ phase[c] = "open" /\ read[c] < Len(stream[c])
    /\ LET frame == stream[c][read[c] + 1] IN
        /\ frame # Status /\ Emit(c, <<frame>>)
        /\ headersRead' = Set(headersRead, c, headersRead[c] \/ frame = Headers)
    /\ read' = Set(read, c, read[c] + 1)
    /\ UNCHANGED <<vars, taken, buffer, hand, queue, phase, terminal, drained, due>>

(* The messages of a call in some datagrams. *)
Of(c, some) == UNION {ToSet(d.messages) : d \in {e \in ToSet(some) : e.call = c}}
Drainable == SubSeq(buffer, 1, IF Len(buffer) < MaxDrained THEN Len(buffer) ELSE MaxDrained)

(* The STATUS, or the end of a stream without one: what was received is dispatched first, up to a  *)
(* bound, while the reading task and other calls take some of it.                                  *)
StartDrain(c) ==
    /\ phase' = Set(phase, c, "emptying")
    /\ due' = Set(due, c, IF headersRead[c] THEN ToSet(queue[c]) \union Of(c, Drainable) ELSE {})
PollStatus(c) ==
    /\ phase[c] = "open" /\ read[c] < Len(stream[c]) /\ stream[c][read[c] + 1] = Status
    /\ StartDrain(c) /\ read' = Set(read, c, read[c] + 1) /\ terminal' = Set(terminal, c, <<Status>>)
    /\ UNCHANGED <<vars, taken, buffer, hand, queue, headersRead, out, drained>>
PollEnd(c) ==
    /\ phase[c] = "open" /\ read[c] = Len(stream[c]) /\ at[c] = "idle" /\ left[c] = <<>>
    /\ StartDrain(c)
    /\ UNCHANGED <<vars, taken, buffer, hand, queue, read, headersRead, terminal, out, drained>>
DrainTakes(c) ==
    /\ phase[c] = "emptying" /\ drained[c] < MaxDrained
    /\ Takes(c) /\ drained' = Set(drained, c, drained[c] + 1)
    /\ UNCHANGED <<vars, taken, queue, read, headersRead, phase, terminal, out, due>>
DrainDispatches(c) ==
    /\ Dispatches(c)
    /\ UNCHANGED <<vars, taken, buffer, read, headersRead, phase, terminal, out, drained>>
Drained(c) ==
    /\ phase[c] = "emptying" /\ hand[c] = <<>> /\ (buffer = <<>> \/ drained[c] = MaxDrained)
    /\ phase' = Set(phase, c, "draining")
    /\ UNCHANGED <<vars, taken, buffer, hand, queue, read, headersRead, terminal, out, drained, due>>
Drains(c) == DrainTakes(c) \/ DrainDispatches(c) \/ Drained(c)

(* A failed stream, after which the response is read no further (ResponseStream). *)
PollFails(c) ==
    /\ phase[c] = "open" /\ at[c] = "failed" /\ phase' = Set(phase, c, "failed")
    /\ UNCHANGED <<vars, taken, buffer, hand, queue, read, headersRead, terminal, out, drained, due>>

(* A message that stays in the queue it was read from. *)
NextQueuedKeeping(c) ==
    /\ phase[c] = "draining" /\ headersRead[c] /\ queue[c] # <<>> /\ Len(out[c]) < 5
    /\ Emit(c, <<Head(queue[c])>>)
    /\ UNCHANGED <<vars, taken, buffer, hand, queue, read, headersRead, phase, terminal, drained, due>>
NextQueued(c) ==
    /\ phase[c] = "draining" /\ headersRead[c] /\ queue[c] # <<>>
    /\ Emit(c, <<Head(queue[c])>>) /\ queue' = Set(queue, c, Tail(queue[c]))
    /\ UNCHANGED <<vars, taken, buffer, hand, read, headersRead, phase, terminal, drained, due>>

(* The terminal frame; what is still in a task's hand comes too late. *)
PollTerminal(c) ==
    /\ phase[c] = "draining" /\ (queue[c] = <<>> \/ ~headersRead[c])
    /\ Emit(c, terminal[c]) /\ terminal' = Set(terminal, c, <<>>)
    /\ phase' = Set(phase, c, "ended") /\ queue' = Set(queue, c, <<>>)
    /\ due' = Set(due, c, due[c] \ UNION {Of(c, hand[t]) : t \in Dispatching})
    /\ UNCHANGED <<vars, taken, buffer, hand, read, headersRead, drained>>

Ends(c) == PollStatus(c) \/ PollEnd(c) \/ PollFails(c)
Polls(c) == PollDatagrams(c) \/ PollFrames(c) \/ NextQueued(c) \/ PollTerminal(c) \/ Ends(c) \/ Drains(c)
MergedNext ==
    \/ Next /\ UNCHANGED client
    \/ (ReaderTakes \/ ReaderDispatches)
    \/ \E c \in Calls : Polls(c) \/ \E i \in DOMAIN datagrams[c] : Arrive(c, i) \/ Lose(c, i)

-----------------------------------------------------------------------------
(* Properties. *)

InDatagrams(c) == FlattenSeq(datagrams[c])
Ascending(messages) == \A i, j \in DOMAIN messages : i < j => messages[i].number < messages[j].number

(* Every message of the response is in one place: waiting, packed, on the stream or in a datagram, *)
(* whatever the transport refuses and whenever the call is cancelled; datagrams keep the order.    *)
SentOnce ==
    \A c \in Calls :
        LET places == SelectSeq(left[c], IsMessage) \o batch[c] \o packed[c] \o onStream[c]
                        \o SelectSeq(stream[c], IsMessage) \o InDatagrams(c) IN
        /\ Cardinality(ToSet(places)) = Len(places)
        /\ {m.number : m \in ToSet(places)} = 1..Len(places)
        /\ Ascending(InDatagrams(c))

(* No message reaches the client twice, though some went to a datagram and then to the stream; a   *)
(* response that ended has every message that was written to its stream, in their order; and of    *)
(* the datagrams that arrived before its end and that a drain may take, those its full queue did   *)
(* not drop and no other task still had in hand (MergedResponses, drain).                          *)
MergedMessages ==
    \A c \in Calls :
        LET messages == SelectSeq(out[c], IsMessage)
            streamed == SelectSeq(stream[c], IsMessage) IN
        /\ Cardinality(ToSet(messages)) = Len(messages)
        /\ phase[c] = "ended" =>
               /\ SelectSeq(messages, LAMBDA m : m \in ToSet(streamed)) = streamed
               /\ due[c] \subseteq ToSet(messages)

==============================================================================
