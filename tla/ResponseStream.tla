--------------------------- MODULE ResponseStream ---------------------------
(* How a caller reads the response of a streaming call: the response grammar   *)
(* [HEADERS] MESSAGE* STATUS, its limits, its timeouts, and headers() reading   *)
(* ahead of the stream (response_state.rs, client.rs ResponseStream).           *)
(*                                                                            *)
(* The caller polls one future at a time, headers() or next(); a poll goes       *)
(* through the frames that have arrived and parks when there is none.             *)
EXTENDS Naturals, Sequences, SequencesExt

CONSTANTS
    Sizes,         \* message sizes
    MaxBody,       \* max_body_size
    MaxMessages,   \* max_messages
    MaxStream,     \* max_stream_body_size
    MaxFrames,     \* bound: frames that arrive
    MaxInbox       \* bound: frames that wait to be polled

(* What the call's stream may yield.  `good` says that metadata is valid, or that a message decodes. *)
Frame(kind, size, good) == [kind |-> kind, size |-> size, good |-> good]
Frames ==
    {Frame(kind, 0, good) : kind \in {"headers", "ok", "error"}, good \in BOOLEAN}
        \union {Frame("message", size, good) : size \in Sizes, good \in BOOLEAN}
        \union {Frame("failure", 0, TRUE), Frame("end", 0, TRUE)}
Statuses == {"ok", "error"}
(* What a wait may be armed for: next_timeout takes the earlier of the two, and either may be it. *)
Timeouts == {"deadline", "idle"}

VARIABLES
    inbox,     \* frames that arrived and were not polled
    arrived,   \* how many arrived
    read,      \* the frames polled so far
    state,     \* ResponseState
    messages,  \* messages counted against max_messages
    size,      \* their bytes
    timer,     \* what the wait that is armed waits for: "none", "deadline" or "idle"
    late,      \* the deadline has passed
    fired,     \* the armed wait is over
    stream,    \* ResponseStream's pending_terminal, done, headers_ready and stashed item
    caller,    \* what the caller awaits: "nothing", "headers" or "next"
    place,     \* where that future is: "top" of a poll, in its "loop", or "parked"
    yielded,   \* what the stream yielded: messages, failures and the end
    resolved   \* what headers() resolved with last

vars == <<inbox, arrived, read, state, messages, size, timer, late, fired, stream, caller, place, yielded, resolved>>
clock == <<timer, late, fired>>
counts == <<messages, size>>

NewState == [first |-> TRUE, pending |-> "none", terminal |-> "none", finished |-> FALSE]
NewStream == [pending |-> FALSE, done |-> FALSE, ready |-> FALSE, stashed |-> "none"]

Init ==
    /\ inbox = <<>> /\ arrived = 0 /\ read = <<>>
    /\ state = NewState /\ messages = 0 /\ size = 0
    /\ timer = "none" /\ late = FALSE /\ fired = FALSE
    /\ stream = NewStream
    /\ caller = "nothing" /\ place = "top" /\ yielded = <<>> /\ resolved = "none"

-----------------------------------------------------------------------------
(* The call's stream and the clock. *)

(* A frame arrives and wakes the parked future; nothing follows the end or a failure. *)
Woken == IF place = "parked" THEN "top" ELSE place
Arrive(frame) ==
    /\ arrived < MaxFrames /\ Len(inbox) < MaxInbox
    /\ \A i \in DOMAIN (read \o inbox) : (read \o inbox)[i].kind \notin {"end", "failure"}
    /\ inbox' = Append(inbox, frame) /\ arrived' = arrived + 1 /\ place' = Woken
    /\ UNCHANGED <<read, state, counts, clock, stream, caller, yielded, resolved>>

(* The armed wait ends; the deadline passes whether or not it is waited for. *)
Fire ==
    /\ timer # "none" /\ ~fired /\ (timer = "deadline" => late)
    /\ fired' = TRUE /\ place' = Woken
    /\ UNCHANGED <<inbox, arrived, read, state, counts, timer, late, stream, caller, yielded, resolved>>
PassDeadline ==
    /\ ~late /\ late' = TRUE
    /\ UNCHANGED <<inbox, arrived, read, state, counts, timer, fired, stream, caller, place, yielded, resolved>>

(* The caller awaits headers() or next(), again and again until the stream ended, and may drop the *)
(* future while it is parked (a select! that takes another branch).                                *)
Await(what) ==
    /\ caller = "nothing" /\ what \in {"headers", "next"} /\ Last(<<"none">> \o yielded) # "end"
    /\ caller' = what /\ place' = "top"
    /\ UNCHANGED <<inbox, arrived, read, state, counts, clock, stream, yielded, resolved>>
Abandon ==
    /\ caller # "nothing" /\ place = "parked"
    /\ caller' = "nothing" /\ place' = "top"
    /\ UNCHANGED <<inbox, arrived, read, state, counts, clock, stream, yielded, resolved>>

-----------------------------------------------------------------------------
(* What the two futures do with the outcome of a step. *)

Yield(item) == yielded' = Append(yielded, item) /\ caller' = "nothing" /\ UNCHANGED resolved
Resolve(how) == resolved' = how /\ caller' = "nothing" /\ UNCHANGED yielded

(* A poll_headers that forgets the message it read. *)
GiveUnstashed(item, after) ==
    \/ /\ caller = "next" /\ Yield(item) /\ stream' = after
       /\ place' = "top"
    \/ /\ caller = "headers" /\ item = "failure"
       /\ stream' = after /\ place' = "top" /\ Resolve("failure")
    \/ /\ caller = "headers" /\ item # "failure"
       /\ stream' = [after EXCEPT !.ready = TRUE]
       /\ place' = "top" /\ UNCHANGED <<caller, yielded, resolved>>

(* poll_headers stashes what the step yields for the next poll of the stream. *)
Give(item, after) ==
    \/ /\ caller = "next" /\ Yield(item) /\ stream' = after
       /\ place' = "top"
    \/ /\ caller = "headers" /\ item = "message"
       /\ stream' = [after EXCEPT !.stashed = "message"]
       /\ place' = "top" /\ UNCHANGED <<caller, yielded, resolved>>
    \/ /\ caller = "headers" /\ item = "failure"
       /\ stream' = [after EXCEPT !.stashed = "failure"]
       /\ place' = "top" /\ Resolve("failure")
    \/ /\ caller = "headers" /\ item = "end"
       /\ stream' = [after EXCEPT !.ready = TRUE]
       /\ place' = "top" /\ UNCHANGED <<caller, yielded, resolved>>
Fail(after) == Give("failure", [after EXCEPT !.done = TRUE])

(* The start of a poll. *)
TakeStashed ==
    /\ caller = "next" /\ place = "top" /\ stream.stashed # "none"
    /\ Yield(stream.stashed) /\ stream' = [stream EXCEPT !.stashed = "none"]
    /\ place' = "top"
    /\ UNCHANGED <<inbox, arrived, read, state, counts, clock>>
HeadersKnown ==
    /\ caller = "headers" /\ place = "top" /\ stream.ready
    /\ Resolve(IF read # <<>> /\ read[1].kind = "headers" THEN "headers" ELSE "empty")
    /\ place' = "top"
    /\ UNCHANGED <<inbox, arrived, read, state, counts, clock, stream>>
HeadersFailed ==
    /\ caller = "headers" /\ place = "top" /\ ~stream.ready /\ stream.stashed = "failure"
    /\ Resolve("failure") /\ place' = "top"
    /\ UNCHANGED <<inbox, arrived, read, state, counts, clock, stream>>
Enter ==
    /\ place = "top"
    /\ \/ caller = "next" /\ stream.stashed = "none"
       \/ caller = "headers" /\ ~stream.ready /\ stream.stashed # "failure"
    /\ place' = "loop"
    /\ UNCHANGED <<inbox, arrived, read, state, counts, clock, stream, caller, yielded, resolved>>

-----------------------------------------------------------------------------
(* poll_step. *)

(* A stream that is done yields nothing more. *)
StepDone ==
    /\ place = "loop" /\ stream.done
    /\ Give("end", stream)
    /\ UNCHANGED <<inbox, arrived, read, state, counts, clock>>

Aborted == [state EXCEPT !.pending = "none", !.finished = TRUE]
Finished == [state EXCEPT !.finished = TRUE, !.terminal = state.pending, !.pending = "none"]

(* poll_frame fails: a status that was pending no longer counts. *)
Broken ==
    /\ state' = IF stream.pending THEN Aborted ELSE state
    /\ Fail(stream)
DeadlineExceeded ==
    /\ place = "loop" /\ ~stream.done /\ late
    /\ Broken
    /\ UNCHANGED <<inbox, arrived, read, counts, clock>>
WaitOver ==
    /\ place = "loop" /\ ~stream.done /\ ~late /\ inbox = <<>> /\ fired
    /\ Broken
    /\ UNCHANGED <<inbox, arrived, read, counts, clock>>

(* A poll that arms no wait. *)
ParkUnarmed(how) ==
    /\ place = "loop" /\ ~stream.done /\ ~late /\ inbox = <<>> /\ ~fired
    /\ place' = "parked"
    /\ UNCHANGED <<inbox, arrived, read, state, counts, timer, late, fired, stream, caller, yielded, resolved>>

(* Nothing arrived: the wait is armed, for the deadline or the idle timeout, and the poll ends. *)
Park(how) ==
    /\ place = "loop" /\ ~stream.done /\ ~late /\ inbox = <<>> /\ ~fired
    /\ timer' = IF timer = "none" THEN how ELSE timer
    /\ place' = "parked"
    /\ UNCHANGED <<inbox, arrived, read, state, counts, late, fired, stream, caller, yielded, resolved>>

(* The next frame, which also clears the wait. *)
Polled(kinds) ==
    /\ place = "loop" /\ ~stream.done /\ ~late /\ inbox # <<>> /\ Head(inbox).kind \in kinds
    /\ inbox' = Tail(inbox) /\ read' = Append(read, Head(inbox))
    /\ timer' = "none" /\ fired' = FALSE
    /\ UNCHANGED <<arrived, late>>

ReadFailure ==
    /\ Polled({"failure"})
    /\ Broken
    /\ UNCHANGED counts

(* ResponseState::finish at the end of the stream: only now the status is committed. *)
ReadEnd ==
    /\ Polled({"end"})
    /\ state' = Finished
    /\ Give(IF state.pending = "ok" THEN "end" ELSE "failure", [stream EXCEPT !.done = TRUE, !.ready = TRUE])
    /\ UNCHANGED counts

(* A frame after the terminal status: the status does not count. *)
ReadTrailing ==
    /\ stream.pending /\ Polled({"headers", "message"} \union Statuses)
    /\ state' = Aborted
    /\ Fail(stream)
    /\ UNCHANGED counts

(* HEADERS are accepted as the first frame, with valid metadata. *)
ReadHeaders ==
    /\ ~stream.pending /\ Polled({"headers"})
    /\ state' = [state EXCEPT !.first = FALSE]
    /\ IF state.first /\ Head(inbox).good
       THEN stream' = [stream EXCEPT !.ready = TRUE] /\ place' = "top" /\ UNCHANGED <<caller, yielded, resolved>>
       ELSE Fail(stream)
    /\ UNCHANGED counts

(* max_messages, before the message is counted. *)
WithinMessages == messages < MaxMessages

(* The limits come first, then the grammar, then the decoding. *)
ReadMessage ==
    /\ ~stream.pending /\ Polled({"message"})
    /\ IF ~WithinMessages \/ Head(inbox).size > MaxBody
       THEN Fail(stream) /\ UNCHANGED <<state, counts>>
       ELSE /\ messages' = messages + 1 /\ size' = size + Head(inbox).size
            /\ IF size' > MaxStream
               THEN Fail(stream) /\ UNCHANGED state
               ELSE /\ state' = [state EXCEPT !.first = FALSE]
                    /\ Give(IF Head(inbox).good THEN "message" ELSE "failure",
                            [stream EXCEPT !.ready = TRUE, !.done = ~Head(inbox).good])

(* A STATUS is kept until the end of the stream proves it final; the poll goes on. *)
ReadStatus ==
    /\ ~stream.pending /\ Polled(Statuses)
    /\ IF Head(inbox).good
       THEN /\ state' = [state EXCEPT !.first = FALSE, !.pending = Head(inbox).kind]
            /\ stream' = [stream EXCEPT !.ready = TRUE, !.pending = TRUE]
            /\ UNCHANGED <<place, caller, yielded, resolved>>
       ELSE state' = [state EXCEPT !.first = FALSE] /\ Fail(stream)
    /\ UNCHANGED counts

Polls ==
    \/ TakeStashed \/ HeadersKnown \/ HeadersFailed \/ Enter
    \/ StepDone \/ DeadlineExceeded \/ WaitOver \/ \E how \in Timeouts : Park(how)
    \/ ReadFailure \/ ReadEnd \/ ReadTrailing \/ ReadHeaders \/ ReadMessage \/ ReadStatus
Next ==
    \/ Polls \/ Fire \/ PassDeadline \/ Abandon
    \/ \E frame \in Frames : Arrive(frame)
    \/ \E what \in {"headers", "next"} : Await(what)

(* The runtime polls what is woken; the call has a deadline or an idle timeout, which ends. *)
Fairness == WF_vars(Polls) /\ WF_vars(Fire) /\ WF_vars(PassDeadline)
Spec == Init /\ [][Next]_vars
FairSpec == Spec /\ Fairness

-----------------------------------------------------------------------------
(* Properties. *)

Read(kinds) == SelectSeq(read, LAMBDA frame : frame.kind \in kinds)
Yielded(item) == Len(SelectSeq(yielded, LAMBDA other : other = item))

(* Every message read is yielded once or stashed for the next poll, also when the future that    *)
(* read it was headers() or was dropped; only the frame the call failed at, the last one read,    *)
(* may be a message the caller never gets (poll_headers).                                         *)
NothingLost ==
    LET given == Yielded("message") + (IF stream.stashed = "message" THEN 1 ELSE 0)
        count == Len(Read({"message"}))
    IN  \/ given = count
        \/ stream.done /\ Last(read).kind = "message" /\ given = count - 1

(* A stream that ends without a failure ended with OK, and one that failed did not (finish). *)
EndTellsStatus ==
    Yielded("end") > 0 => (state.terminal = "ok" <=> Yielded("failure") = 0)

(* A future the caller awaits ends, by a frame, the idle timeout or the deadline (poll_frame). *)
AwaitEnds == caller # "nothing" ~> caller = "nothing"

=============================================================================
