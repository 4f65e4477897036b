---------------------------- MODULE MCConnection ----------------------------
(* What the calls of one connection share, for TLC: the datagrams of their requests and of their   *)
(* responses, its connection metadata and its dictionaries.  They have no state in common here, so *)
(* a behaviour is about one of them, its focus.  The flows are interchangeable.                    *)
EXTENDS DatagramDemux, Dictionaries, ConnectionMetadata

CONSTANTS ResponseCalls, Paths, Sizes, Messages, ResponseQueue

VARIABLES focus
VARIABLES path, cached, fresh, at, left, batch, other, flushed, max, packed, onStream, cancelled, fired,
          stream, datagrams, taken, received, responseQueue, read, headersRead, phase, terminal, out,
          responseHand, responseDrained, responseDue

responseVars == <<path, cached, fresh, at, left, batch, other, flushed, max, packed, onStream, cancelled,
                  fired, stream, datagrams, taken, received, responseQueue, read, headersRead, phase,
                  terminal, out, responseHand, responseDrained, responseDue>>

Response == INSTANCE DatagramResponses WITH
                Calls <- ResponseCalls, QueueCap <- ResponseQueue, buffer <- received,
                queue <- responseQueue, hand <- responseHand, drained <- responseDrained,
                due <- responseDue, MaxDrained <- 1

NoMetadata == Fresh /\ request = <<>>
NoDictionaries == Unlearned /\ clientConfig = {} /\ serverConfig = {} /\ plain = {}
NoResponses == Response!Start(0, [c \in ResponseCalls |-> <<>>]) /\ Response!Unread

MCInit ==
    /\ Init
    /\ \/ focus = "datagrams" /\ NoMetadata /\ NoDictionaries /\ NoResponses
       \/ focus = "metadata" /\ SetsInit /\ NoDictionaries /\ NoResponses
       \/ focus = "dictionaries" /\ DictInit /\ NoMetadata /\ NoResponses
       \/ focus = "responses" /\ Response!MergedInit /\ NoMetadata /\ NoDictionaries
MCNext ==
    /\ UNCHANGED focus
    /\ \/ focus = "datagrams" /\ Next /\ UNCHANGED <<cmVars, dictVars, responseVars>>
       \/ focus = "metadata" /\ SetsNext /\ UNCHANGED <<vars, dictVars, responseVars>>
       \/ focus = "dictionaries" /\ DictNext /\ UNCHANGED <<vars, cmVars, responseVars>>
       \/ focus = "responses" /\ Response!MergedNext /\ UNCHANGED <<vars, cmVars, dictVars>>
MCSpec == MCInit /\ [][MCNext]_<<focus, vars, cmVars, dictVars, responseVars>>

FlowSymmetry == Permutations(Flows)

(* No datagram message reaches a handler twice or in a call it was not sent to, and what arrived   *)
(* before the end of the request stream is received (datagram.rs, Demux and MergedRequests).       *)
RequestDatagramsOnce == NeverTwice /\ ArrivedAreReceived

(* However the transport refuses datagrams, drops or reorders them, each message of a response is  *)
(* sent once and reaches the client at most once, and every one written to the stream reaches it   *)
(* in order (datagram.rs, ResponseDatagrams and MergedResponses).                                  *)
ResponseDatagramsOnce == Response!SentOnce /\ Response!MergedMessages

=============================================================================
