----------------------------- MODULE ServerCall -----------------------------
(***************************************************************************)
(* The life of the RPCs of one connection in the server: accepting their   *)
(* streams (native.rs), reading, admitting, dispatching and answering them *)
(* (server_transport.rs), interceptors, handler, deadline, response stream *)
(* and accounting (server.rs), and the drain at shutdown (serve.rs).       *)
(*                                                                         *)
(* A step is what a call's task does between two awaits.  Where it awaits  *)
(* a select, one action per branch, guarded by the branches before it in   *)
(* the biased order.  Responses are abstract: which terminal status the    *)
(* client gets, not its frames.  The request half is RequestPump: here it  *)
(* is the failure it may report.                                           *)
(***************************************************************************)
EXTENDS Integers, FiniteSets

CONSTANTS Calls,         \* the streams a client opens on the connection
          Streaming,     \* the calls that are not unary
          Answered,      \* streaming calls whose route answers at dispatch
          StreamLimit,   \* max_concurrent_streams_per_connection
          Others,        \* how many more streams the connection may have, now and then
          RequestLimit,  \* max_concurrent_requests
          Interceptors,  \* how many interceptors the server has
          Finishing      \* whether one that succeeds returns a finish function: a set of BOOLEANs

ASSUME CallsAssumption ==
    /\ IsFiniteSet(Calls)
    /\ Streaming \subseteq Calls
    /\ Answered \subseteq Streaming
ASSUME ServerLimits ==
    /\ StreamLimit \in Nat /\ Others \in Nat
    /\ RequestLimit \in Nat
    /\ Interceptors \in Nat /\ Finishing \subseteq BOOLEAN

VARIABLES phase,          \* where each call's task is
          streamSlots,    \* calls holding a connection stream slot
          requestSlots,   \* calls holding a server-wide request slot
          started,        \* rpc_started events of each call
          finished,       \* rpc_finished events of each call
          recorded,       \* the code of its last rpc_finished
          intercepted,    \* interceptors that ran
          returned,       \* finish functions they returned
          ran,            \* finish functions that were called
          completion,     \* the StreamingCompletion of its response stream
          code,           \* CancellationToken::completion_code
          token,          \* CancellationToken::source
          failure,        \* what its request half failed with
          stopped,        \* what send.stopped() reports
          sent,           \* the code of the terminal STATUS it writes
          wire,           \* what the client can see of the response
          shuttingDown, connectionLost,
          draining,       \* the connection accepts no more streams
          timedOut        \* its stream tasks overran the drain timeout

slots == <<streamSlots, requestSlots>>
events == <<started, finished, recorded, intercepted, returned, ran, completion, code>>
client == <<failure, stopped>>
server == <<shuttingDown, connectionLost, draining, timedOut>>
vars == <<phase, slots, events, token, client, sent, wire, server>>

Failures == {"none", "Protocol", "PeerReset", "ConnectionLost"}

(* CancellationToken::new *)
NewTokens ==
    /\ token = [c \in Calls |-> "none"]
    /\ code = [c \in Calls |-> "none"]

Init ==
    /\ phase = [c \in Calls |-> "unopened"]
    /\ streamSlots = {} /\ requestSlots = {}
    /\ started = [c \in Calls |-> 0] /\ finished = [c \in Calls |-> 0]
    /\ recorded = [c \in Calls |-> "none"]
    /\ intercepted = [c \in Calls |-> 0]
    /\ returned = [c \in Calls |-> 0] /\ ran = [c \in Calls |-> 0]
    /\ completion = [c \in Calls |-> "none"]
    /\ NewTokens
    /\ failure = [c \in Calls |-> "none"]
    /\ stopped = [c \in Calls |-> "no"]
    /\ sent = [c \in Calls |-> "none"]
    /\ wire = [c \in Calls |-> "open"]
    /\ shuttingDown = FALSE /\ connectionLost = FALSE /\ draining = FALSE /\ timedOut = FALSE

-----------------------------------------------------------------------------
(* Helpers of several handlers. *)

GoTo(c, p) == phase' = [phase EXCEPT ![c] = p]

(* StreamSlots::release, Permit::release, or dropping them. *)
Release(c) ==
    /\ streamSlots' = streamSlots \ {c}
    /\ requestSlots' = requestSlots \ {c}

(* CancellationToken::cancel: the first writer wins. *)
Cancel(c, source) ==
    token' = IF token[c] = "none" THEN [token EXCEPT ![c] = source] ELSE token

(* What cancels a call whose response was stopped, and what a failed write cancels it with. *)
StopSource(c) == IF stopped[c] = "stop" THEN "PeerReset" ELSE "ConnectionLost"

RecordStarted(c) == started' = [started EXCEPT ![c] = @ + 1]

(* record_rpc_finished, with the finish functions of the interceptors that ran. *)
RecordFinished(c, k) ==
    /\ finished' = [finished EXCEPT ![c] = @ + 1]
    /\ recorded' = [recorded EXCEPT ![c] = k]
    /\ ran' = [ran EXCEPT ![c] = returned[c]]

(* record_rejected_request, record_pre_handler_failure: started and finished at once. *)
RecordRejected(c) ==
    /\ RecordStarted(c)
    /\ RecordFinished(c, "rejected")
    /\ UNCHANGED <<intercepted, returned, completion, code>>

(* A terminal STATUS is about to be written: write_frames, write_status. *)
Answer(c, k) ==
    /\ GoTo(c, "closing")
    /\ sent' = [sent EXCEPT ![c] = k]

(* Every rejection: recorded, both slots given back, a lone STATUS.  A call that was never given a *)
(* slot has none to give back.                                                                    *)
Reject(c) == RecordRejected(c) /\ Release(c) /\ Answer(c, "rejected")

(* CancellationToken::set_completion_code: the first one stays. *)
SetCompletionCode(c, k) == code' = [code EXCEPT ![c] = IF @ = "none" THEN k ELSE @]

(* StreamingCompletion::finish *)
FinishStreaming(c, k) ==
    /\ RecordFinished(c, k)
    /\ completion' = [completion EXCEPT ![c] = "closed"]

(* A completion that is dropped without being recorded. *)
LeaveForgetting(c, k) ==
    /\ completion' = [completion EXCEPT ![c] = IF @ = "open" THEN "closed" ELSE @]
    /\ UNCHANGED <<finished, recorded, ran>>

(* A task ends and drops its response stream, which finishes it if it has not ended by itself. *)
Leave(c, k) ==
    IF completion[c] = "open"
    THEN FinishStreaming(c, IF k = "none" THEN "cancelled" ELSE k)
    ELSE UNCHANGED <<finished, recorded, ran, completion>>

-----------------------------------------------------------------------------
(* Accepting and reading. *)

(* native::handle_connection accepts a stream, perhaps one that was ready together with the       *)
(* shutdown; without a slot for it, with those that streams outside Calls hold for the moment,    *)
(* the stream is read only to be rejected.                                                        *)
Accept(c) ==
    /\ phase[c] = "unopened"
    /\ ~draining /\ ~connectionLost
    /\ \E others \in 0..Others :
           IF Cardinality(streamSlots) + others < StreamLimit
           THEN GoTo(c, "reading") /\ streamSlots' = streamSlots \cup {c}
           ELSE GoTo(c, "overflow") /\ UNCHANGED streamSlots
    /\ UNCHANGED <<requestSlots, events, token, client, sent, wire, server>>

(* read_request fails: a malformed or late request, unknown connection metadata, a taken flow, or *)
(* a shutdown that came first.  reject_unreadable gives the stream slot back and answers.         *)
ReadFails(c) ==
    /\ phase[c] = "reading"
    /\ Reject(c)
    /\ UNCHANGED <<token, client, wire, server>>

(* native::reject_stream: the connection's stream limit was reached, or its request is unreadable. *)
RejectOverflow(c) ==
    /\ phase[c] = "overflow"
    /\ Reject(c)
    /\ UNCHANGED <<token, client, wire, server>>

(* The handler future is first polled: it records the call as started. *)
StartHandler(c) ==
    /\ GoTo(c, "handling")
    /\ RecordStarted(c)
    /\ UNCHANGED <<finished, recorded, intercepted, returned, ran, completion, code, sent>>

(* StreamSlots::acquire_request and what follows it without an await. *)
Dispatch(c) ==
    IF Cardinality(requestSlots) >= RequestLimit
    THEN Reject(c)
    ELSE /\ requestSlots' = requestSlots \cup {c}
         /\ UNCHANGED streamSlots
         /\ IF c \in Answered THEN GoTo(c, "answering") /\ UNCHANGED <<events, sent>>
                              ELSE StartHandler(c)

(* The REQUEST frame is read.  A streaming call is authorized first, a unary one by its handler. *)
Read(c) ==
    /\ phase[c] = "reading"
    /\ IF c \in Streaming THEN GoTo(c, "authorizing") /\ UNCHANGED <<slots, events, sent>>
                          ELSE Dispatch(c)
    /\ UNCHANGED <<token, client, wire, server>>

(* Server::admit lets a streaming call through. *)
Admit(c) ==
    /\ phase[c] = "authorizing"
    /\ Dispatch(c)
    /\ UNCHANGED <<token, client, wire, server>>

(* Server::admit rejects it, perhaps at its deadline, or it is optimistic and refused. *)
Deny(c, deadline) ==
    /\ phase[c] = "authorizing"
    /\ Reject(c)
    /\ IF deadline THEN Cancel(c, "Deadline") ELSE UNCHANGED token
    /\ UNCHANGED <<client, wire, server>>

(* The ANSWER at dispatch is written; if that fails the call ends before it was started. *)
AnswerAtDispatch(c) ==
    /\ phase[c] = "answering"
    /\ \/ StartHandler(c) /\ UNCHANGED <<slots, token>>
       \/ /\ stopped[c] # "no"
          /\ Cancel(c, StopSource(c))
          /\ Release(c)
          /\ GoTo(c, "done")
          /\ UNCHANGED <<events, sent>>
    /\ UNCHANGED <<client, wire, server>>

-----------------------------------------------------------------------------
(* The handler future, in the first select. *)

(* The handler future completes with status k: a unary call answers it, a streaming one returns a *)
(* stream of that status alone.                                                                   *)
Complete(c, k) ==
    /\ RecordFinished(c, k)
    /\ sent' = [sent EXCEPT ![c] = k]
    /\ UNCHANGED <<started, completion, code>>
    /\ IF c \in Streaming THEN GoTo(c, "responding") /\ UNCHANGED slots
                          ELSE GoTo(c, "closing") /\ Release(c)

(* Server::intercept: an interceptor succeeds, with or without a finish function. *)
Intercept(c, finish) ==
    /\ phase[c] = "handling" /\ intercepted[c] < Interceptors
    /\ intercepted' = [intercepted EXCEPT ![c] = @ + 1]
    /\ returned' = [returned EXCEPT ![c] = IF finish THEN @ + 1 ELSE @]
    /\ UNCHANGED <<phase, slots, started, finished, recorded, ran, completion, code, token, client,
                   sent, wire, server>>

(* The admission of a unary call, the route lookup, an interceptor or the handler fails, panics, *)
(* or passes the deadline.                                                                       *)
HandlerFails(c, k) ==
    /\ phase[c] = "handling"
    /\ Complete(c, k)
    /\ IF k = "deadline" THEN Cancel(c, "Deadline") ELSE UNCHANGED token
    /\ UNCHANGED <<intercepted, returned, client, wire, server>>

(* The handler returns its response: one message, or a stream with a StreamingCompletion. *)
HandlerReturns(c) ==
    /\ phase[c] = "handling" /\ intercepted[c] = Interceptors
    /\ IF c \in Streaming
       THEN /\ GoTo(c, "responding")
            /\ completion' = [completion EXCEPT ![c] = "open"]
            /\ UNCHANGED <<slots, started, finished, recorded, ran, code, sent>>
       ELSE Complete(c, "ok")
    /\ UNCHANGED <<intercepted, returned, token, client, wire, server>>

(* The response is reset: the client never mistakes it for a complete one. *)
Reset(c) ==
    /\ wire' = [wire EXCEPT ![c] = IF @ = "open" THEN "reset" ELSE @]
    /\ GoTo(c, "done")

(* request_end.failure() or request_pump.failure() comes before the handler's result.  Only a     *)
(* protocol failure leaves the response writable; record_active_request_failure runs no finishes. *)
HandlingFails(c) ==
    /\ phase[c] = "handling" /\ failure[c] # "none"
    /\ finished' = [finished EXCEPT ![c] = @ + 1]
    /\ recorded' = [recorded EXCEPT ![c] = "failure"]
    /\ UNCHANGED <<started, intercepted, returned, ran, completion, code, client, server>>
    /\ IF failure[c] = "Protocol"
       THEN /\ sent' = [sent EXCEPT ![c] = "failure"]
            /\ UNCHANGED <<token, wire>>
            /\ IF c \in Streaming THEN GoTo(c, "responding") /\ UNCHANGED slots
                                  ELSE GoTo(c, "closing") /\ Release(c)
       ELSE Cancel(c, failure[c]) /\ Release(c) /\ Reset(c) /\ UNCHANGED sent

(* A stopped call whose token nobody cancels. *)
HandlingStoppedSilently(c) ==
    /\ phase[c] = "handling" /\ failure[c] = "none" /\ stopped[c] # "no"
    /\ Release(c)
    /\ GoTo(c, "done")
    /\ UNCHANGED <<events, token, client, sent, wire, server>>

(* send.stopped(): the handler future is dropped. *)
HandlingStopped(c) ==
    /\ phase[c] = "handling" /\ failure[c] = "none" /\ stopped[c] # "no"
    /\ Release(c)
    /\ Cancel(c, StopSource(c))
    /\ GoTo(c, "done")
    /\ UNCHANGED <<events, client, sent, wire, server>>

(* shutdown.changed(): the handler future is dropped and the response reset. *)
HandlingShutDown(c) ==
    /\ phase[c] = "handling" /\ failure[c] = "none" /\ stopped[c] = "no" /\ shuttingDown
    /\ Cancel(c, "ServerShutdown")
    /\ Release(c)
    /\ Reset(c)
    /\ UNCHANGED <<events, client, sent, server>>

-----------------------------------------------------------------------------
(* The response loop of a streaming call. *)

(* response.next() yields HEADERS or messages; what is ready goes out in one write. *)
RespondMessages(c) ==
    /\ phase[c] = "responding" /\ failure[c] = "none" /\ completion[c] = "open"
    /\ GoTo(c, "writing")
    /\ UNCHANGED <<slots, events, token, client, sent, wire, server>>

(* The stream ends with its terminal status, by itself, at a limit or at its deadline, perhaps in *)
(* the same batch as messages: the slots go before it is written.                                 *)
RespondStatus(c, k) ==
    /\ phase[c] = "responding" /\ failure[c] = "none" /\ completion[c] = "open"
    /\ FinishStreaming(c, k)
    /\ Release(c)
    /\ Answer(c, k)
    /\ IF k = "deadline" THEN Cancel(c, "Deadline") ELSE UNCHANGED token
    /\ UNCHANGED <<started, intercepted, returned, code, client, wire, server>>

(* The status stream of a call whose handler failed. *)
RespondFailure(c) ==
    /\ phase[c] = "responding" /\ failure[c] = "none" /\ completion[c] = "none"
    /\ Release(c)
    /\ GoTo(c, "closing")
    /\ UNCHANGED <<events, token, client, sent, wire, server>>

(* The task gives up its response neither finished nor reset: dropped, the stream ends cleanly,   *)
(* before the slots, which were declared first and so are dropped last.                           *)
DropResponse(c) ==
    /\ wire' = [wire EXCEPT ![c] = IF @ = "open" THEN "truncated" ELSE @]
    /\ GoTo(c, "dropping")
    /\ Leave(c, code[c])
    /\ UNCHANGED <<slots, started, intercepted, returned, code, token>>
DropSlots(c) ==
    /\ phase[c] = "dropping"
    /\ Release(c)
    /\ GoTo(c, "done")
    /\ UNCHANGED <<events, token, client, sent, wire, server>>

(* A batch is written; or the write fails, which ends the call.  Only a failure of the transport   *)
(* cancels it (cancel_from_transport_error): a frame that exceeds max_frame_size does not.         *)
WriteBatch(c) ==
    /\ phase[c] = "writing"
    /\ \/ GoTo(c, "responding") /\ UNCHANGED <<slots, events, token, wire>>
       \/ /\ stopped[c] # "no"
          /\ Cancel(c, StopSource(c))
          /\ Release(c)
          /\ GoTo(c, "done")
          /\ Leave(c, code[c])
          /\ UNCHANGED <<started, intercepted, returned, code, wire>>
       \/ DropResponse(c)
    /\ UNCHANGED <<client, sent, server>>

(* The authorizer or the response stream panics, which unwinds the task: only interceptors and     *)
(* handlers run in a CatchUnwindFuture.                                                            *)
Panics(c) ==
    /\ \/ phase[c] = "authorizing"
       \/ phase[c] = "handling" /\ c \notin Streaming /\ intercepted[c] = 0
       \/ phase[c] = "responding" /\ failure[c] = "none" /\ completion[c] = "open"
    /\ DropResponse(c)
    /\ UNCHANGED <<client, sent, server>>

(* A failure that sets no completion code. *)
RespondingFailsUncoded(c) ==
    /\ phase[c] = "responding" /\ failure[c] # "none"
    /\ Release(c)
    /\ UNCHANGED <<started, intercepted, returned, code, client, server>>
    /\ IF failure[c] = "Protocol"
       THEN Answer(c, "failure") /\ UNCHANGED <<finished, recorded, ran, completion, token, wire>>
       ELSE Cancel(c, failure[c]) /\ Reset(c) /\ Leave(c, code'[c]) /\ UNCHANGED sent

(* request_pump.failure() while the response streams. *)
RespondingFails(c) ==
    /\ phase[c] = "responding" /\ failure[c] # "none"
    /\ SetCompletionCode(c, "failure")
    /\ Release(c)
    /\ UNCHANGED <<started, intercepted, returned, client, server>>
    /\ IF failure[c] = "Protocol"
       THEN Answer(c, "failure") /\ UNCHANGED <<finished, recorded, ran, completion, token, wire>>
       ELSE Cancel(c, failure[c]) /\ Reset(c) /\ Leave(c, code'[c]) /\ UNCHANGED sent

(* send.stopped() and shutdown.changed() while the response streams. *)
RespondingStopped(c) ==
    /\ phase[c] = "responding" /\ failure[c] = "none" /\ stopped[c] # "no"
    /\ Release(c)
    /\ Cancel(c, StopSource(c))
    /\ GoTo(c, "done")
    /\ Leave(c, code[c])
    /\ UNCHANGED <<started, intercepted, returned, code, client, sent, wire, server>>

(* A loop whose select lacks the shutdown branch. *)
RespondingNeverShutDown(c) == FALSE /\ UNCHANGED vars
RespondingShutDown(c) ==
    /\ phase[c] = "responding" /\ failure[c] = "none" /\ stopped[c] = "no" /\ shuttingDown
    /\ Cancel(c, "ServerShutdown")
    /\ Release(c)
    /\ Reset(c)
    /\ Leave(c, code[c])
    /\ UNCHANGED <<started, intercepted, returned, code, client, sent, server>>

(* The terminal STATUS is written; or the write fails, which ends the call and, unless it was     *)
(* rejected before its dispatch, cancels it.                                                      *)
WriteStatus(c) ==
    /\ phase[c] = "closing"
    /\ \/ /\ wire' = [wire EXCEPT ![c] = "status"]
          /\ GoTo(c, "finishing")
          /\ UNCHANGED <<slots, events, token>>
       \/ /\ stopped[c] # "no"
          /\ IF sent[c] = "rejected" THEN UNCHANGED token ELSE Cancel(c, StopSource(c))
          /\ GoTo(c, "done")
          /\ Leave(c, code[c])
          /\ UNCHANGED <<slots, started, intercepted, returned, code, wire>>
       \/ sent[c] # "rejected" /\ DropResponse(c)
    /\ UNCHANGED <<client, sent, server>>

(* send.finish() and settling the request half; then the task ends and drops what it holds. *)
FinishResponse(c) ==
    /\ phase[c] = "finishing"
    /\ wire' = [wire EXCEPT ![c] = "fin"]
    /\ GoTo(c, "done")
    /\ Leave(c, code[c])
    /\ UNCHANGED <<slots, started, intercepted, returned, code, token, client, sent, server>>

-----------------------------------------------------------------------------
(* The client, the transport and the shutdown. *)

(* The client stops the response stream, while the task may still notice. *)
ClientStops(c) ==
    /\ phase[c] \notin {"unopened", "finishing", "dropping", "done"} /\ stopped[c] = "no"
    /\ stopped' = [stopped EXCEPT ![c] = "stop"]
    /\ UNCHANGED <<phase, slots, events, token, failure, sent, wire, server>>

(* The request half fails: a stray frame or an exceeded limit, a reset, or a lost connection. *)
RequestFails(c, f) ==
    /\ phase[c] \in {"handling", "responding", "writing"} /\ failure[c] = "none"
    /\ f # "none" /\ (f = "ConnectionLost" => connectionLost)
    /\ failure' = [failure EXCEPT ![c] = f]
    /\ UNCHANGED <<phase, slots, events, token, stopped, sent, wire, server>>

LoseConnection ==
    /\ ~connectionLost
    /\ connectionLost' = TRUE
    /\ stopped' = [c \in Calls |-> IF phase[c] \notin {"unopened", "done"} /\ stopped[c] = "no"
                                   THEN "lost" ELSE stopped[c]]
    /\ UNCHANGED <<phase, slots, events, token, failure, sent, wire, shuttingDown, draining, timedOut>>

(* serve_sources: the shutdown future completes and every connection is told. *)
Shutdown ==
    /\ ~shuttingDown
    /\ shuttingDown' = TRUE
    /\ UNCHANGED <<phase, slots, events, token, client, sent, wire, connectionLost, draining, timedOut>>

(* handle_connection leaves its accept loop. *)
Drain ==
    /\ (shuttingDown \/ connectionLost) /\ ~draining
    /\ draining' = TRUE
    /\ UNCHANGED <<phase, slots, events, token, client, sent, wire, shuttingDown, connectionLost, timedOut>>

(* drain_streams: the stream tasks overran graceful_shutdown_timeout, which may pass at any time *)
(* and without which none does.                                                                 *)
DrainTimesOut ==
    /\ draining /\ ~timedOut
    /\ timedOut' = TRUE
    /\ UNCHANGED <<phase, slots, events, token, client, sent, wire, shuttingDown, connectionLost, draining>>

(* abort_all drops a call's task, with all it holds. *)
Abort(c) ==
    /\ timedOut /\ phase[c] \notin {"unopened", "done"}
    /\ Release(c)
    /\ GoTo(c, "done")
    /\ Leave(c, code[c])
    /\ wire' = [wire EXCEPT ![c] = IF @ = "open" THEN "truncated" ELSE @]
    /\ UNCHANGED <<started, intercepted, returned, code, token, client, sent, server>>

Ends(c) ==
    \/ HandlingFails(c) \/ HandlingStopped(c) \/ HandlingShutDown(c)
Responds(c) ==
    \/ RespondFailure(c) \/ RespondingFails(c) \/ RespondingStopped(c) \/ RespondingShutDown(c)
Writes(c) ==
    \/ AnswerAtDispatch(c) \/ WriteBatch(c) \/ WriteStatus(c) \/ FinishResponse(c) \/ DropSlots(c)
Reads(c) ==
    \/ Read(c) \/ ReadFails(c) \/ RejectOverflow(c)
Authorizes(c) ==
    \/ Admit(c) \/ \E deadline \in BOOLEAN : Deny(c, deadline)
Handles(c) ==
    \/ HandlerReturns(c)
    \/ \E finish \in Finishing : Intercept(c, finish)
    \/ \E k \in {"error", "deadline"} : HandlerFails(c, k)
HandleRequest(c) == c \notin Streaming /\ Handles(c)
HandleStreamingRequest(c) == c \in Streaming /\ Handles(c)
StreamsResponse(c) ==
    \/ RespondMessages(c) \/ Panics(c)
    \/ \E k \in {"ok", "error", "deadline"} : RespondStatus(c, k)

Next ==
    \/ \E c \in Calls :
           \/ Accept(c) \/ Reads(c) \/ Authorizes(c) \/ HandleRequest(c) \/ HandleStreamingRequest(c)
           \/ Ends(c) \/ StreamsResponse(c) \/ Responds(c) \/ Writes(c) \/ Abort(c) \/ ClientStops(c)
           \/ \E f \in Failures : RequestFails(c, f)
    \/ LoseConnection \/ Shutdown \/ Drain \/ DrainTimesOut

Spec == Init /\ [][Next]_vars

(* A task runs whenever an await of it can resolve by the server's doing: a read ends at the       *)
(* shutdown or initial_request_timeout, the select sees the events it waits for, and the transport *)
(* fails the write of a response that was stopped or lost its connection.  Nothing makes a peer    *)
(* take what is written to it, or an authorizer, a handler or a response stream end, and no        *)
(* timeout of the drain is counted on.                                                             *)
WriteFails(c) == stopped[c] # "no" /\ Writes(c)
Fairness ==
    \A c \in Calls :
        /\ WF_vars(Reads(c)) /\ WF_vars(Ends(c)) /\ WF_vars(Responds(c))
        /\ WF_vars(WriteFails(c)) /\ WF_vars(DropSlots(c))

FairSpec == Spec /\ Fairness

-----------------------------------------------------------------------------
(* Correctness. *)

Interrupted(c) == phase[c] = "done" /\ wire[c] # "fin" /\ ~timedOut

(* A client sees the STATUS or the reset of its call after both slots were given back: if it opens *)
(* its next call on it, it finds room (slot doc, line 200); and no way out of the task leaks one.  *)
SlotsGoFirst ==
    \A c \in Calls : (wire[c] \in {"status", "fin", "reset"} \/ phase[c] = "done") =>
        c \notin streamSlots \cup requestSlots

(* The handler's future was dropped before it completed: it left no status and no response. *)
HandlerDropped(c) == completion[c] = "none" /\ sent[c] = "none"

(* Metrics see at most one start and one end per call, the end never first: every branch that      *)
(* records by hand leaves nothing for the response stream's Drop to record.  A call whose handler  *)
(* completed is recorded whatever ends it, shutdown, a lost connection or an abort included, and   *)
(* runs every finish function.  Without an end is only one whose handler was dropped, by a stop, a *)
(* shutdown, an abort or a panic; without its finish functions, that or one whose request failed   *)
(* while the handler ran.                                                                          *)
AccountedOnce ==
    \A c \in Calls :
        /\ finished[c] <= started[c] /\ started[c] <= 1
        /\ (phase[c] = "done" /\ finished[c] # started[c]) =>
               HandlerDropped(c) /\ (token[c] # "none" \/ wire[c] = "truncated")
        /\ (phase[c] = "done" /\ ran[c] # returned[c]) =>
               HandlerDropped(c) \/ (completion[c] = "none" /\ sent[c] = "failure")

(* A call is accounted for once, unless it ends before its handler does, and its slots are free    *)
(* before its peer can see the end: a client that then opens its next call finds room              *)
(* (server_transport.rs, native.rs).                                                               *)
SlotsAreAccounted == AccountedOnce /\ SlotsGoFirst

(* "Called once when a call that reached an [`Interceptor`] ends" (Finish, server.rs:1209): every  *)
(* finish function that an interceptor returned has run when the call's task is over.              *)
FinishesRun == \A c \in Calls : phase[c] = "done" => ran[c] = returned[c]

(* The code that is recorded for a complete response is the code the client was sent, also when   *)
(* the request half failed while the response streamed (set_completion_code, line 291).           *)
CodesAgree ==
    \A c \in Calls : (wire[c] = "fin" /\ (c \notin Streaming \/ completion[c] = "closed")) =>
        recorded[c] = sent[c] /\ sent[c] # "none"

(* A dispatched call cut short cancels its token, so that work the handler spawned learns of it,   *)
(* unless its response cannot be encoded or its task panics.                                       *)
InterruptedIsCancelled ==
    \A c \in Calls : (Interrupted(c) /\ sent[c] # "rejected" /\ wire[c] # "truncated") => token[c] # "none"

(* After shutdown every call ends, without any timeout, unless it waits for its authorizer, or is  *)
(* at a write, for ever or again and again: a peer that does not read keeps a write waiting, and a *)
(* response that is always ready is written before the biased select looks at the shutdown         *)
(* (lines 243, 604-676).                                                                           *)
ShutdownEndsCalls ==
    \A c \in Calls :
        \/ shuttingDown ~> phase[c] \in {"unopened", "done"}
        \/ []<>(phase[c] \in {"authorizing", "answering", "writing", "closing", "finishing"})

=============================================================================
