------------------------------ MODULE MCClient ------------------------------
(* A client's calls, for TLC: the two halves of a streaming call, how its response is read, and a  *)
(* call with one response from its builder to its outcome.  They have no state in common here, so  *)
(* a behaviour is about one of them, its focus.                                                    *)
EXTENDS StreamingCall, UnaryCall

CONSTANTS Sizes, MaxBody, MaxMessages, MaxStream, ResponseFrames, MaxInbox

VARIABLES focus
VARIABLES inbox, arrived, responseRead, state, messages, size, timer, late, fired, stream, caller,
          place, yielded, resolved

responseVars == <<inbox, arrived, responseRead, state, messages, size, timer, late, fired, stream,
                  caller, place, yielded, resolved>>
mcVars == <<focus, streamingVars, responseVars, callVars>>

Responses == INSTANCE ResponseStream WITH MaxFrames <- ResponseFrames, read <- responseRead

NoUnary == Start({"unary"})

MCInit ==
    /\ StreamingInit /\ Responses!Init
    /\ \/ focus \in {"streaming", "response"} /\ NoUnary
       \/ focus = "unary" /\ UnaryInit
MCNext ==
    /\ UNCHANGED focus
    /\ \/ focus = "streaming" /\ StreamingNext /\ UNCHANGED <<responseVars, callVars>>
       \/ focus = "response" /\ Responses!Next /\ UNCHANGED <<streamingVars, callVars>>
       \/ focus = "unary" /\ UnaryNext /\ UNCHANGED <<streamingVars, responseVars>>

(* The fairness of StreamingCall and ResponseStream, each for its own behaviours. *)
OfStreaming(action) == focus = "streaming" /\ action
OfResponse(action) == focus = "response" /\ action
MCFairness ==
    /\ \A s \in Sends : WF_streamingVars(OfStreaming(SendSteps(s)))
    /\ WF_streamingVars(OfStreaming(UploadSteps)) /\ WF_streamingVars(OfStreaming(ReaderSteps))
    /\ WF_streamingVars(OfStreaming(answered /\ (Written \/ StopUpload)))
    /\ WF_responseVars(OfResponse(Responses!Polls)) /\ WF_responseVars(OfResponse(Responses!Fire))
    /\ WF_responseVars(OfResponse(Responses!PassDeadline))
MCSpec == MCInit /\ [][MCNext]_mcVars /\ MCFairness

(* Every message read is yielded once or stashed, and a stream ends well only with OK              *)
(* (client.rs ResponseStream, response_state.rs).                                                  *)
NothingLost == Responses!NothingLost /\ Responses!EndTellsStatus

(* Once one side ended the call no send stays blocked (client/call_end.rs), and every future that  *)
(* waits for headers or a message ends (client.rs poll_frame).                                     *)
FuturesEnd == SendsEnd /\ (focus = "response" => Responses!AwaitEnds)

=============================================================================
