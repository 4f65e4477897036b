----------------------------- MODULE RequestPump ----------------------------
(***************************************************************************)
(* The request half of one call in the server (request_pump.rs): the task  *)
(* that reads a streaming call's request into the body queue of its        *)
(* handler, the inline variant that reads the end of a unary request, and  *)
(* what becomes of the QUIC receive stream once the call is settled.       *)
(*                                                                         *)
(* The client's stream is the number of messages that wait in it and how   *)
(* it ends.  A reset discards what waits.  "stray" is any frame the        *)
(* grammar does not allow, or one that does not decode.  "trailers" are    *)
(* those of an HTTP request whose FIN is still to come ("trailersEnd").    *)
(*                                                                         *)
(* A select of the pump polls its settle channel before its other branch,  *)
(* with the call's task running on another thread between the two polls.   *)
(***************************************************************************)
EXTENDS Naturals, Sequences

CONSTANTS MaxSent,      \* bound: messages the client sends
          Room,         \* how many bodies the queue holds
          MaxMessages   \* max_stream_messages

ASSUME PumpLimits == MaxSent \in Nat /\ Room \in Nat \ {0} /\ MaxMessages \in Nat

VARIABLES kind,     \* how the request is read: a streaming or unary pump task, or inline
          sent, unread, ending,       \* the client's stream
          pump,     \* where the task, or the inline read, is
          polled,   \* its select has polled the settle channel, which held no reason
          charged,  \* RequestBudget::messages
          state,    \* RequestPumpState
          failure,  \* the RequestPumpFailure it carries
          reader,   \* the fate of the receive stream
          stops,    \* STOP_SENDING frames sent
          queue, body, got, seen,     \* the body queue and what the handler saw of it
          reason,   \* the settle channel
          call,     \* the call's task
          excused   \* an answered stream that was stopped before, in that very poll, or at a bound

stream == <<sent, unread, ending>>
handler == <<body, got, seen>>
vars == <<kind, stream, pump, polled, charged, state, failure, reader, stops, queue, handler, reason,
          call, excused>>

Kinds == {"streaming", "unary", "inline"}

Reasons == {"ResponseCommitted", "ResponseStopped", "ServerShutdown", "ConnectionLost"}

(* start_request_pump, UnaryRequestEnd::new *)
Init ==
    /\ kind \in Kinds
    /\ sent = 0 /\ unread = 0 /\ ending = "none"
    /\ pump = IF kind = "streaming" THEN "reserving" ELSE "reading"
    /\ polled = FALSE
    /\ charged = 0 /\ state = "Receiving" /\ failure = "none"
    /\ reader = "held" /\ stops = 0
    /\ queue = <<>> /\ body = "open" /\ got = 0 /\ seen = "nothing"
    /\ reason = "none" /\ call = "running" /\ excused = FALSE

-----------------------------------------------------------------------------
(* The client and its connection. *)

SendMessage ==
    /\ ending = "none" /\ sent < MaxSent /\ reader # "stopped"
    /\ sent' = sent + 1 /\ unread' = unread + 1
    /\ UNCHANGED <<kind, ending, pump, polled, charged, state, failure, reader, stops, queue, handler,
                   reason, call, excused>>

End(how) ==
    /\ reader \in {"held", "discarding"}
    /\ \/ how \in {"fin", "stray", "trailers"} /\ ending = "none"
       \/ how = "trailersEnd" /\ ending = "trailers"
       \/ how = "reset" /\ ending \in {"none", "fin", "stray", "trailers", "trailersEnd"}
       \/ how = "lost" /\ ending # "lost"
    /\ ending' = how
    /\ unread' = IF how = "reset" THEN 0 ELSE unread
    /\ UNCHANGED <<kind, sent, pump, polled, charged, state, failure, reader, stops, queue, handler,
                   reason, call, excused>>

-----------------------------------------------------------------------------
(* The end of the pump. *)

Stop ==
    /\ reader' = "stopped"
    /\ stops' = stops + 1

(* A discard reads the end of the request, which trailers are too unless they were read before. *)
Ends == ending \in {"fin", "reset", "lost", "trailersEnd"} \/ (ending = "trailers" /\ pump # "validating")

(* settle_reader, and the guard's drop, which spawns discard_request for an answered call. *)
SettleReader(r) ==
    CASE r = "ConnectionLost" -> reader' = "finished" /\ UNCHANGED stops
      [] r = "ResponseCommitted" -> reader' = "discarding" /\ UNCHANGED stops
      [] OTHER -> Stop

(* run_request_pump returns: the queue's sender goes with it. *)
PumpEnds == pump' = "ended" /\ state' = "Settled" /\ polled' = FALSE

(* settle_rx.changed(), first in both selects. *)
SeesSettle ==
    /\ kind # "inline" /\ pump \in {"reserving", "reading"} /\ ~polled /\ reason # "none"
    /\ SettleReader(reason)
    /\ PumpEnds
    /\ UNCHANGED <<kind, stream, charged, failure, queue, handler, reason, call, excused>>

(* It holds nothing, and the select goes on to its other branches. *)
PollsSettle ==
    /\ kind # "inline" /\ pump \in {"reserving", "reading"} /\ ~polled /\ reason = "none"
    /\ polled' = TRUE
    /\ UNCHANGED <<kind, stream, pump, charged, state, failure, reader, stops, queue, handler, reason,
                   call, excused>>

(* A failure that ends the pump at once. *)
FailAndLeave(f, permit) ==
    /\ PumpEnds
    /\ failure' = f
    /\ queue' = IF permit /\ body = "open" THEN Append(queue, "error") ELSE queue
    /\ reader' = "finished"
    /\ UNCHANGED <<stops, excused>>
(* fail_and_wait: the failure is published, the error follows the bodies when there is a permit, *)
(* and the pump keeps the body open until the call is settled.                                    *)
FailAndWait(f, permit) ==
    /\ state' = "Failed" /\ failure' = f
    /\ queue' = IF permit /\ body = "open" THEN Append(queue, "error") ELSE queue
    /\ pump' = "failed" /\ polled' = FALSE
    /\ reader' = IF f = "Protocol" THEN reader ELSE "finished"
    /\ UNCHANGED <<stops, excused>>

(* fail_and_wait after the call was settled. *)
FailedSettles ==
    /\ kind # "inline" /\ pump = "failed" /\ reason # "none"
    /\ IF failure = "Protocol" THEN SettleReader(reason) ELSE UNCHANGED <<reader, stops>>
    /\ PumpEnds
    /\ UNCHANGED <<kind, stream, charged, failure, queue, handler, reason, call, excused>>

-----------------------------------------------------------------------------
(* run_streaming_pump: wait for room, then read. *)

Reserve ==
    /\ pump = "reserving" /\ polled /\ body = "open" /\ Len(queue) < Room
    /\ pump' = "reading" /\ polled' = FALSE
    /\ UNCHANGED <<kind, stream, charged, state, failure, reader, stops, queue, handler, reason, call,
                   excused>>

(* A closed consumer that outranks the settled call. *)
ReserveFailsFirst ==
    /\ pump = "reserving" /\ body = "dropped"
    /\ Stop
    /\ PumpEnds
    /\ UNCHANGED <<kind, stream, charged, failure, queue, handler, reason, call, excused>>
(* The handler dropped its body: the request is stopped. *)
ReserveFails ==
    /\ pump = "reserving" /\ polled /\ body = "dropped"
    /\ Stop
    /\ PumpEnds
    /\ UNCHANGED <<kind, stream, charged, failure, queue, handler, reason, call, excused>>

(* RequestTransportEvent, which poll_peer_reset makes of a reset or of a lost connection. *)
TransportEvent == [reset |-> "PeerReset", lost |-> "ConnectionLost"]

(* backpressure_event, which is watched only while there is no room. *)
BackpressureEvent ==
    /\ pump = "reserving" /\ polled /\ body = "open" /\ Len(queue) = Room
    /\ ending \in DOMAIN TransportEvent /\ FailAndWait(TransportEvent[ending], FALSE)
    /\ UNCHANGED <<kind, stream, charged, handler, reason, call>>

(* read_request_frame returns a message, which is charged and queued. *)
ReadMessage ==
    /\ kind = "streaming" /\ pump = "reading" /\ polled /\ unread > 0
    /\ unread' = unread - 1
    /\ IF charged >= MaxMessages
       THEN FailAndWait("Protocol", TRUE) /\ UNCHANGED charged
       ELSE /\ charged' = charged + 1
            /\ queue' = IF body = "open" THEN Append(queue, "message") ELSE queue
            /\ pump' = "reserving" /\ polled' = FALSE
            /\ UNCHANGED <<state, failure, reader, stops, excused>>
    /\ UNCHANGED <<kind, sent, ending, handler, reason, call>>

(* A pump task reads when its select found no reason, the inline read while its call runs. *)
Reading == pump = "reading" /\ IF kind = "inline" THEN call # "done" ELSE polled

(* The FIN is read.  validate_transport_end does not wait at the end of a stream without trailers. *)
ReadFin ==
    /\ Reading
    /\ unread = 0 /\ ending = "fin"
    /\ reader' = "finished"
    /\ PumpEnds
    /\ UNCHANGED <<kind, stream, charged, failure, stops, queue, handler, reason, call, excused>>

(* The messages end in trailers: validate_transport_end waits for the FIN, outside of the select. *)
ReadTrailers ==
    /\ Reading
    /\ unread = 0 /\ ending \in {"trailers", "trailersEnd"}
    /\ pump' = "validating" /\ polled' = FALSE
    /\ UNCHANGED <<kind, stream, charged, state, failure, reader, stops, queue, handler, reason, call,
                   excused>>

(* classify_error: what cut the stream off. *)
Classified == [stray |-> "Protocol", trailersEnd |-> "Protocol", reset |-> "PeerReset",
               lost |-> "ConnectionLost"]

(* Trailers are not supported, and the stream may be cut off in them. *)
ValidateFails ==
    /\ pump = "validating" /\ ending \in {"trailersEnd", "reset", "lost"}
    /\ FailAndWait(Classified[ending], FALSE)
    /\ UNCHANGED <<kind, stream, charged, handler, reason, call>>

(* The read fails.  A unary request may hold nothing after its message. *)
ReadFails ==
    /\ Reading
    /\ \/ /\ ending \in {"reset", "lost"} \/ (ending = "stray" /\ unread = 0)
          /\ FailAndWait(Classified[ending], kind = "streaming")
       \/ kind # "streaming" /\ unread > 0 /\ FailAndWait("Protocol", FALSE)
    /\ UNCHANGED <<kind, stream, charged, handler, reason, call>>

(* Nothing is ready: the task sleeps, and its next poll begins with the settle channel again. *)
Parks ==
    /\ polled
    /\ IF pump = "reserving"
       THEN body = "open" /\ Len(queue) = Room /\ ending \notin DOMAIN TransportEvent
       ELSE unread = 0 /\ ending = "none"
    /\ polled' = FALSE
    /\ UNCHANGED <<kind, stream, pump, charged, state, failure, reader, stops, queue, handler, reason,
                   call, excused>>

-----------------------------------------------------------------------------
(* The handler reads its body, or drops it. *)

Receive ==
    /\ body = "open" /\ queue # <<>>
    /\ queue' = Tail(queue)
    /\ IF Head(queue) = "error" THEN seen' = "error" /\ UNCHANGED got
                                ELSE got' = got + 1 /\ UNCHANGED seen
    /\ UNCHANGED <<kind, stream, pump, polled, charged, state, failure, reader, stops, body, reason,
                   call, excused>>

SeesEnd ==
    /\ kind = "streaming" /\ body = "open" /\ queue = <<>> /\ pump = "ended" /\ seen = "nothing"
    /\ seen' = "end"
    /\ UNCHANGED <<kind, stream, pump, polled, charged, state, failure, reader, stops, queue, body, got,
                   reason, call, excused>>

DropBody ==
    /\ body = "open"
    /\ body' = "dropped" /\ queue' = <<>>
    /\ UNCHANGED <<kind, stream, pump, polled, charged, state, failure, reader, stops, got, seen,
                   reason, call, excused>>

-----------------------------------------------------------------------------
(* The call's task settles the request half, or is dropped. *)

(* UnaryRequestEnd::settle: what has arrived is discarded at once if that reaches the end. *)
SettleInline(r) ==
    /\ pump' = "ended" /\ state' = "Settled" /\ call' = "done"
    /\ CASE reader # "held" -> UNCHANGED <<reader, stops>>
         [] reader = "held" /\ r = "ResponseCommitted" /\ Ends -> reader' = "finished" /\ UNCHANGED stops
         [] OTHER -> SettleReader(r)

(* RequestPump::settle sends the reason and awaits the task.  Too late for the answered stream     *)
(* that was stopped already, or whose pump is past the settle channel in this poll.                *)
Settle(r) ==
    /\ call = "running"
    /\ reason' = r
    /\ excused' = (reader = "stopped" \/ (pump = "reserving" /\ polled))
    /\ IF kind = "inline" THEN SettleInline(r)
                          ELSE call' = "settling" /\ UNCHANGED <<pump, state, reader, stops>>
    /\ UNCHANGED <<kind, stream, polled, charged, failure, queue, handler>>

Settled ==
    /\ call = "settling" /\ pump = "ended"
    /\ call' = "done"
    /\ UNCHANGED <<kind, stream, pump, polled, charged, state, failure, reader, stops, queue, handler,
                   reason, excused>>

(* The call's task is aborted.  Drop for RequestPump overwrites the reason, and aborts the pump   *)
(* unless settle had taken its handle; the guard of an aborted pump stops a stream still held.    *)
Abort ==
    /\ call # "done"
    /\ call' = "done" /\ reason' = "ResponseStopped"
    /\ body' = "dropped" /\ queue' = <<>>
    /\ IF call = "running"
       THEN /\ PumpEnds
            /\ IF reader = "held" THEN Stop ELSE UNCHANGED <<reader, stops>>
       ELSE UNCHANGED <<pump, polled, state, reader, stops>>
    /\ UNCHANGED <<kind, stream, charged, failure, got, seen, excused>>

(* discard_request reaches the end, or its time or byte bound. *)
DiscardEnds ==
    /\ reader = "discarding"
    /\ \/ Ends /\ reader' = "finished" /\ UNCHANGED <<stops, excused>>
       \/ Stop /\ excused' = TRUE
    /\ UNCHANGED <<kind, stream, pump, polled, charged, state, failure, queue, handler, reason, call>>

Pumps == \/ SeesSettle \/ PollsSettle \/ FailedSettles \/ Reserve \/ ReserveFails \/ BackpressureEvent
         \/ ReadMessage \/ ReadFin \/ ReadTrailers \/ ValidateFails \/ ReadFails \/ Parks
Client == SendMessage \/ \E how \in {"fin", "stray", "trailers", "trailersEnd", "reset", "lost"} : End(how)
Handler == Receive \/ SeesEnd \/ DropBody
Call == Settled \/ Abort \/ \E r \in Reasons : Settle(r)

Next == Pumps \/ Client \/ Handler \/ Call \/ DiscardEnds

(* The pump and the discard task are scheduled; nothing makes the client, the handler or the call *)
(* act.                                                                                            *)
Fairness == WF_vars(Pumps) /\ WF_vars(DiscardEnds) /\ WF_vars(Settled)

Spec == Init /\ [][Next]_vars
FairSpec == Spec /\ Fairness

-----------------------------------------------------------------------------
(* A handler that sees the end of its body while the call is unsettled was sent the whole of it:   *)
(* however a request is cut off, the pump holds the body open until the call is settled, so a     *)
(* truncated request never looks complete (fail_and_wait).                                        *)
EndIsComplete == (seen = "end" /\ reason = "none") => ending = "fin" /\ got = sent

(* A request that was not stopped when its call was answered is stopped later only at the bounds   *)
(* of its discard: a settled call outranks a consumer that closes, before or after, except in the  *)
(* one poll in which the pump had already looked for the reason (run_streaming_pump).              *)
AnsweredIsDrained == (reason = "ResponseCommitted" /\ reader = "stopped") => excused

(* Only the peer ends the wait for the FIN behind trailers, in which the pump hears of nothing. *)
WaitsForFin == pump = "validating" /\ ending = "trailers"

(* Once the call is settled the stream is let go of, and the call's task does not wait forever,    *)
(* provided that a peer which sent trailers ends its stream, resets it or closes its connection.   *)
SettleEnds ==
    []<>~WaitsForFin => ((reason # "none") ~> (reader \notin {"held", "discarding"} /\ call = "done"))

=============================================================================
