------------------------------ MODULE UnaryCall ------------------------------
(***************************************************************************)
(* A call with one response, from its builder to its outcome: the options  *)
(* a caller sets and generated code attaches (client.rs CallOptions,       *)
(* client/call.rs Call), what they become on the wire                      *)
(* (prepare_streaming_request, unary_response), and how the response is    *)
(* read: frame by frame, once the request is written, for a unary call     *)
(* (native.rs call_with_info, UnaryResponse); and, for a client-streaming  *)
(* call that sends all of its requests, from a stream of messages while a  *)
(* task uploads them (client_streaming_send_all, native.rs open_stream,    *)
(* next_response).                                                         *)
(***************************************************************************)
EXTENDS Naturals, Sequences

CONSTANTS Keys,        \* metadata keys as written
          MaxOps,      \* bound: what is set on a call
          MaxFrames    \* bound: response frames

VARIABLES call,     \* the Call: its options and what is attached to it
          ops,      \* ghost: what was set, in order
          stage,    \* "building", "opening", "writing", "reading", "draining" or "done"
          sent,     \* the request and the CallInfo the transport was given
          read,     \* the response frames read
          resp,     \* UnaryResponse, or what the message stream has yielded
          sendHalf, \* "open", "finished", "reset", or "failed": reset by the upload's failure
          recvHalf, \* "open", "ended", "stopped", or "dropped" after the stream failed
          outcome

callVars == <<call, ops, stage, sent, read, resp, sendHalf, recvHalf, outcome>>

Directions == {"none", "responses"}
Lower(key) == IF key = "K" THEN "k" ELSE key

(* CallOptions::default, and Call::new, for which nothing is attached. *)
DefaultOptions ==
    [timeout |-> "none", unreliable |-> "unset", metadata |-> [k \in {} |-> 0], maxBody |-> 2]
NewCall(shape) ==
    [shape |-> shape, options |-> DefaultOptions, default |-> "none", types |-> FALSE,
     stream |-> "none", compress |-> FALSE]
NoResponse == [first |-> TRUE, headers |-> FALSE, count |-> 0, size |-> 0, decodes |-> TRUE,
               pending |-> "none"]
NotSent == [timeout |-> "none", metadata |-> [k \in {} |-> 0], unreliable |-> "none",
            types |-> FALSE, stream |-> "none", compress |-> FALSE, kind |-> "none"]

Start(shapes) ==
    /\ \E shape \in shapes : call = NewCall(shape)
    /\ ops = <<>> /\ stage = "building" /\ sent = NotSent
    /\ read = <<>> /\ resp = NoResponse /\ sendHalf = "none" /\ recvHalf = "none" /\ outcome = "none"
UnaryInit == Start({"unary", "serverStreaming", "clientStreaming"})

-----------------------------------------------------------------------------
Op(name, value) == [name |-> name, value |-> value]
Set(name, value, after) ==
    /\ stage = "building" /\ Len(ops) < MaxOps
    /\ call' = after /\ ops' = Append(ops, Op(name, value))
    /\ UNCHANGED <<stage, sent, read, resp, sendHalf, recvHalf, outcome>>

(* The setters of CallOptions, through Call::options. *)
WithTimeout(timeout) == Set("timeout", timeout, [call EXCEPT !.options.timeout = timeout])
WithMaxBody(size) == Set("maxBody", size, [call EXCEPT !.options.maxBody = size])
WithUnreliable(d) == Set("unreliable", d, [call EXCEPT !.options.unreliable = d])

(* A key kept as it was written. *)
WithMetadataAsWritten(key) ==
    Set("metadata", key, [call EXCEPT !.options.metadata =
        [k \in DOMAIN @ \cup {key} |-> IF k = key THEN Len(ops) + 1 ELSE @[k]]])
(* with_metadata: the key is put in lower case.  The value is the number of the step. *)
WithMetadata(key) ==
    Set("metadata", key, [call EXCEPT !.options.metadata =
        [k \in DOMAIN @ \cup {Lower(key)} |-> IF k = Lower(key) THEN Len(ops) + 1 ELSE @[k]]])
(* with_metadata_map takes its keys as they are. *)
WithMetadataMap(key) ==
    Set("map", key, [call EXCEPT !.options.metadata = [k \in {key} |-> Len(ops) + 1]])

(* What generated code attaches: default_unreliable, message_types, compress_stream, compress. *)
Attach(d) ==
    Set("attach", d, [call EXCEPT !.default = d, !.types = TRUE, !.stream = d, !.compress = TRUE])

(* reshape: send_all keeps everything else. *)
SendAll ==
    /\ stage = "building" /\ call.shape = "clientStreaming"
    /\ call' = [call EXCEPT !.shape = "sendAll"]
    /\ UNCHANGED <<ops, stage, sent, read, resp, sendHalf, recvHalf, outcome>>

-----------------------------------------------------------------------------
(* into_parts: what the caller set has precedence over the method's own. *)
IntoParts == IF call.options.unreliable = "unset" THEN call.default ELSE call.options.unreliable

(* validate_metadata takes lower-case keys only. *)
ValidMetadata(metadata) == \A k \in DOMAIN metadata : Lower(k) = k

(* timeout_nanos: a timeout too short to express is 1, and one too long is an error. *)
TimeoutNanos(timeout) == IF timeout = "zero" THEN "one" ELSE timeout

End(how) == stage' = "done" /\ outcome' = how

(* unary_response and prepare_streaming_request: nothing is opened for a call that is not valid. *)
Prepare(info) ==
    /\ stage = "building"
    /\ IF ~ValidMetadata(call.options.metadata) \/ call.options.timeout = "tooLong"
       THEN End("invalid") /\ UNCHANGED sent
       ELSE /\ stage' = "opening" /\ UNCHANGED outcome
            /\ sent' = [info EXCEPT !.timeout = TimeoutNanos(call.options.timeout),
                                    !.metadata = call.options.metadata, !.kind = call.shape]
    /\ UNCHANGED <<call, ops, read, resp, sendHalf, recvHalf>>

AwaitUnary ==
    /\ call.shape = "unary"
    /\ Prepare([NotSent EXCEPT !.types = call.types, !.compress = call.compress])
AwaitStreaming ==
    /\ call.shape # "unary"
    /\ Prepare([NotSent EXCEPT !.types = call.types, !.compress = call.compress,
                               !.unreliable = IntoParts, !.stream = call.stream])

Reading == {"opening", "writing", "reading", "draining"}

(* What drops a call that is not complete.  UnaryCall's drop resets its stream in both directions; *)
(* StreamingCall's stops the response, and its upload resets a request that is not complete.       *)
DropStream ==
    /\ sendHalf' = IF sendHalf = "none" \/ (call.shape = "sendAll" /\ sendHalf # "open")
                   THEN sendHalf ELSE "reset"
    /\ recvHalf' = IF recvHalf = "none" THEN "none" ELSE "stopped"

Fail(how) == End(how) /\ DropStream /\ UNCHANGED <<call, ops, sent>>

(* The stream is opened.  A unary request is written and its half finished before the response is  *)
(* read; the upload of a streaming one is a task of its own.                                       *)
OpenStream(ok) ==
    /\ stage = "opening" /\ call.shape \in {"unary", "sendAll"}
    /\ IF ok THEN /\ stage' = IF call.shape = "unary" THEN "writing" ELSE "reading"
                  /\ sendHalf' = "open" /\ recvHalf' = "open"
                  /\ UNCHANGED <<call, ops, sent, outcome>>
             ELSE Fail("transport")
    /\ UNCHANGED <<read, resp>>
WriteRequest(ok) ==
    /\ stage = "writing"
    /\ IF ok THEN stage' = "reading" /\ sendHalf' = "finished" /\ UNCHANGED <<call, ops, sent, recvHalf, outcome>>
             ELSE Fail("transport")
    /\ UNCHANGED <<read, resp>>

(* write_streaming_request ends: everything was sent, or the requests or the stream failed. *)
UploadEnds(ok) ==
    /\ stage = "reading" /\ call.shape = "sendAll" /\ sendHalf = "open"
    /\ sendHalf' = IF ok THEN "finished" ELSE "failed"
    /\ UNCHANGED <<call, ops, stage, sent, read, resp, recvHalf, outcome>>

(* abort_and_settle: an upload still under way is cancelled, which is not a failure of it. *)
SettleUpload == sendHalf' = IF sendHalf = "open" THEN "reset" ELSE sendHalf

(* The response cannot be read on: next_response settles the upload, and the call is complete. *)
LoseStream(how) ==
    IF call.shape = "unary" THEN Fail(how)
    ELSE End(how) /\ SettleUpload /\ recvHalf' = "dropped" /\ UNCHANGED <<call, ops, sent>>

(* The deadline, and the caller who drops the future, end the call at any await. *)
Deadline ==
    /\ stage \in Reading /\ sent.timeout # "none"
    /\ Fail("deadline") /\ UNCHANGED <<read, resp>>
DropCall ==
    /\ stage \in Reading
    /\ Fail("dropped") /\ UNCHANGED <<read, resp>>

-----------------------------------------------------------------------------
Frames == {"headers", "badHeaders", "message", "bigMessage", "badMessage", "ok", "error", "end", "lost"}
MessageFrames == {"message", "bigMessage", "badMessage"}

Goes(after) ==
    /\ resp' = after
    /\ UNCHANGED <<call, ops, stage, sent, sendHalf, recvHalf, outcome>>

(* UnaryResponse::accept: HEADERS come first, and there is one message.  A stream of messages has  *)
(* its limits checked as they are read, and may have more of them.                                 *)
TooBig(frame) == frame = "bigMessage" /\ call.options.maxBody < 3
Accept(frame) ==
    IF frame \in {"headers", "badHeaders"}
    THEN IF resp.first /\ frame = "headers"
         THEN Goes([resp EXCEPT !.first = FALSE, !.headers = TRUE])
         ELSE Fail("internal") /\ UNCHANGED resp
    ELSE IF frame \in MessageFrames
    THEN IF \/ call.shape = "unary" /\ resp.count = 1
            \/ call.shape = "sendAll" /\ (TooBig(frame) \/ frame = "badMessage")
         THEN Fail("internal") /\ UNCHANGED resp
         ELSE Goes([resp EXCEPT !.first = FALSE, !.count = @ + 1, !.decodes = frame # "badMessage",
                                !.size = IF frame = "bigMessage" THEN 3 ELSE 1])
    ELSE /\ stage' = "draining"
         /\ resp' = [resp EXCEPT !.first = FALSE, !.pending = frame]
         /\ SettleUpload
         /\ UNCHANGED <<call, ops, sent, recvHalf, outcome>>

(* UnaryResponse::finish and the checks of unary_response; an OK of next_response yields to the    *)
(* failure of the upload, and then read_unary_response_envelope_from_message_stream has its checks. *)
Finished ==
    IF resp.pending = "none" THEN "internal"
    ELSE IF resp.pending = "error" THEN "status"
    ELSE IF sendHalf = "failed" THEN "upload"
    ELSE IF resp.count # 1 THEN "internal"
    ELSE IF resp.size > call.options.maxBody THEN "tooLarge"
    ELSE IF ~resp.decodes THEN "internal" ELSE "ok"
Finish ==
    /\ End(Finished)
    /\ recvHalf' = "ended" /\ SettleUpload
    /\ UNCHANGED <<call, ops, sent, resp>>

(* read_response_frame *)
ReadFrame(frame) ==
    /\ stage = "reading" /\ Len(read) < MaxFrames
    /\ read' = Append(read, frame)
    /\ CASE frame = "lost" -> LoseStream("transport") /\ UNCHANGED resp
         [] frame = "end" -> Finish
         [] OTHER -> Accept(frame)

(* A status that is taken for the end of the stream. *)
DrainNothing(frame) ==
    /\ stage = "draining"
    /\ read' = Append(read, frame)
    /\ Finish

(* drain_fin_after_terminal_status: only the end of the stream makes the status final. *)
Drain(frame) ==
    /\ stage = "draining"
    /\ read' = Append(read, frame)
    /\ CASE frame = "end" -> Finish
         [] frame = "lost" -> LoseStream("transport") /\ UNCHANGED resp
         [] OTHER -> LoseStream("internal") /\ UNCHANGED resp

UnaryNext ==
    \/ \E timeout \in {"none", "zero", "short", "tooLong"} : WithTimeout(timeout)
    \/ WithMaxBody(3)
    \/ \E d \in Directions : WithUnreliable(d) \/ Attach(d)
    \/ \E key \in Keys : WithMetadata(key) \/ WithMetadataMap(key)
    \/ SendAll \/ AwaitUnary \/ AwaitStreaming
    \/ \E ok \in BOOLEAN : OpenStream(ok) \/ WriteRequest(ok) \/ UploadEnds(ok)
    \/ \E frame \in Frames : ReadFrame(frame) \/ Drain(frame)
    \/ Deadline \/ DropCall

UnarySpec == UnaryInit /\ [][UnaryNext]_callVars

-----------------------------------------------------------------------------
(* The value that was set last under a name. *)
LastIn(set, name, otherwise) ==
    LET at == {i \in DOMAIN set : set[i].name = name}
    IN  IF at = {} THEN otherwise ELSE set[CHOOSE i \in at : \A j \in at : j <= i].value
LastSet(name, otherwise) == LastIn(ops, name, otherwise)

(* What the transport is given is what was set last, in whatever order the caller and generated    *)
(* code set it: the caller's unreliable directions before the method's, a metadata key once,       *)
(* whatever its case, with the value set last.  A unary call never asks for datagrams or stream    *)
(* compression; and only a timeout too long or a whole map with an upper-case key makes a call     *)
(* invalid (into_parts, prepare_streaming_request, unary_response).                                *)
ConfiguredIsSent ==
    /\ outcome = "invalid" =>
        \/ LastSet("timeout", "none") = "tooLong"
        \/ \E i \in DOMAIN ops : ops[i].name = "map" /\ Lower(ops[i].value) # ops[i].value
    /\ sent # NotSent =>
        /\ sent.timeout = TimeoutNanos(LastSet("timeout", "none"))
        /\ sent.types = (LastSet("attach", "unset") # "unset") /\ sent.compress = sent.types
        /\ IF sent.kind = "unary" THEN sent.unreliable = "none" /\ sent.stream = "none"
           ELSE /\ sent.unreliable = LastSet("unreliable", LastSet("attach", "none"))
                /\ sent.stream = LastSet("attach", "none")
        /\ \A i \in DOMAIN ops : ops[i].name \in {"metadata", "map"} =>
               \/ \E j \in (i + 1)..Len(ops) :
                     \/ ops[j].name = "map"
                     \/ ops[j].name = "metadata" /\ Lower(ops[j].value) = Lower(ops[i].value)
               \/ sent.metadata[Lower(ops[i].value)] = i

(* A call with one response succeeds exactly when the stream was [HEADERS] MESSAGE STATUS(OK) and   *)
(* then ended, with a message that fits and decodes, however it is read, and its upload did not      *)
(* fail; it fails with the server's status only when that status ended the stream, and with its      *)
(* upload's failure only when the server reported none (UnaryResponse, next_response,                *)
(* drain_fin_after_terminal_status, read_unary_response_envelope_from_message_stream).               *)
OutcomeIsRead ==
    LET whole(status) == {<<status, "end">>, <<"headers", status, "end">>}
        one(message) == {<<message, "ok", "end">>, <<"headers", message, "ok", "end">>}
        EndsWith(status) ==
            /\ Len(read) >= 2 /\ SubSeq(read, Len(read) - 1, Len(read)) = <<status, "end">>
            /\ \A i \in 1..(Len(read) - 2) : read[i] \in MessageFrames \cup {"headers"}
    IN  /\ outcome = "ok" <=>
               /\ stage = "done" /\ sendHalf # "failed"
               /\ read \in one("message") \cup (IF call.options.maxBody < 3 THEN {} ELSE one("bigMessage"))
        /\ outcome = "status" => EndsWith("error")
        /\ outcome = "upload" => sendHalf = "failed" /\ EndsWith("ok")
        /\ outcome \in {"internal", "upload"} => read \notin whole("error")

(* However a call ends, it leaves no half of its stream open.  A unary response that was read to its *)
(* end leaves the request finished, and anything else resets the one and stops the other; a request  *)
(* that is uploaded meanwhile is finished or reset, and its response read to its end, failed or      *)
(* stopped (the drops of UnaryCall, StreamingCall and UploadStream).                                 *)
NothingLeftOpen ==
    stage = "done" =>
        \/ <<sendHalf, recvHalf>> \in {<<"none", "none">>, <<"finished", "ended">>, <<"reset", "stopped">>}
        \/ /\ call.shape = "sendAll" /\ sendHalf \in {"finished", "failed", "reset"}
           /\ recvHalf \in {"ended", "dropped", "stopped"}

(* A call with one response has the outcome its frames tell (response_state.rs UnaryResponse), and *)
(* however it ends, no half of its stream stays open (client/native.rs UnaryCall).                 *)
UnaryEndsWell == OutcomeIsRead /\ NothingLeftOpen

=============================================================================
