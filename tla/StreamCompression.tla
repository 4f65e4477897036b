------------------------- MODULE StreamCompression -------------------------
(* Stream compression of the requests of streaming calls, and its optimistic *)
(* form: a call compresses without waiting for the server's answer, keeps a   *)
(* copy of each request until the answer arrives, and is replayed without     *)
(* optimism if the server refuses it (client/replay.rs, client/native.rs,      *)
(* compression/stream.rs, and the reading of responses in framed.rs).          *)
(*                                                                          *)
(* Every call sends requests 1..Requests.  Memory is counted in units: a kept  *)
(* request, an encoder and a decoder cost one each.                            *)
EXTENDS Naturals, Sequences, FiniteSets, Functions

CONSTANTS
    Calls,          \* streaming calls of one connection, whose requests may be stream-compressed
    Duplex,         \* those whose responses may be too
    Requests,       \* bound: requests per call
    FirstStreamed,  \* FIRST_STREAMED_MESSAGE
    MaxKept,        \* MAX_KEPT_BYTES
    ClientMemory,   \* the budget of the client's channel
    ServerMemory    \* the budget of the server

ASSUME CompressionAssumption ==
    /\ Duplex \subseteq Calls /\ IsFiniteSet(Calls)
    /\ Requests \in Nat /\ FirstStreamed \in Nat \ {0} /\ MaxKept \in Nat
    /\ ClientMemory \in Nat \ {0} /\ ServerMemory \in Nat

VARIABLES
    optimism,    \* the connection's calls are optimistic
    call,        \* the client's side of each call
    wire,        \* the requests of its current attempt on their way to the server
    replies,     \* the response frames on their way to the client
    attempt,     \* the server's side of its current attempt
    got,         \* what the call's handler received
    handled,     \* how often a handler was started for the call
    clientFree,  \* StreamBudget::available of the client
    serverFree   \* StreamBudget::available of the server

vars == <<optimism, call, wire, replies, attempt, got, handled, clientFree, serverFree>>
remote == <<attempt, got, handled, serverFree>>

NewCall ==
    [phase |-> "new",         \* then "open", "refusing", "replaying", "replayed", "ended"
     decision |-> "settled",  \* Replay's decision; "settled" too for a call that is not optimistic
     next |-> 0,              \* requests pulled from the caller so far
     again |-> <<>>,          \* requests a replay sends before the caller's
     kept |-> <<>>,           \* copies of those sent while the decision is pending
     held |-> 0,              \* a request pulled but not sent, or 0
     parked |-> FALSE,        \* the upload waits for the decision
     uploading |-> FALSE,
     sent |-> 0,              \* requests the attempt's encoder has seen
     encoder |-> "none",      \* SenderState: "none", "waiting", "active", "off"
     enabled |-> FALSE,       \* StreamEnable
     inflating |-> FALSE]     \* a decoder for the responses is reserved
NoAttempt == [state |-> "none", offer |-> "none", decoder |-> FALSE]

Init ==
    /\ optimism = TRUE
    /\ call = [c \in Calls |-> NewCall]
    /\ wire = [c \in Calls |-> <<>>] /\ replies = [c \in Calls |-> <<>>]
    /\ attempt = [c \in Calls |-> NoAttempt]
    /\ got = [c \in Calls |-> <<>>] /\ handled = [c \in Calls |-> 0]
    /\ clientFree = ClientMemory /\ serverFree = ServerMemory

(* What a call's copies, its encoder and its decoder have reserved.  A context is one unit: what   *)
(* decoder_cost measures lacks the length that decode expects before a message, so a decoder       *)
(* always costs its FALLBACK_DECODER_COST.                                                         *)
One(condition) == IF condition THEN 1 ELSE 0
EncoderCost(c) == One(call[c].encoder = "active")
InflaterCost(c) == One(call[c].inflating)
Reserved(c) == Len(call[c].kept) + EncoderCost(c) + InflaterCost(c)

-----------------------------------------------------------------------------
(* Opening a call. *)

(* offer_stream: a call whose responses stream offers only with a decoder for them. *)
Offers(c) == c \in Duplex => clientFree > 0
Opened(c, hopeful, base) ==
    [base EXCEPT !.decision = IF hopeful /\ Offers(c) THEN "pending" ELSE "settled",
                 !.uploading = TRUE, !.sent = 0,
                 !.encoder = IF Offers(c) THEN "waiting" ELSE "none",
                 !.enabled = hopeful /\ Offers(c),
                 !.inflating = c \in Duplex /\ Offers(c)]

(* A fresh attempt on a stream of its own. *)
Ask(c, hopeful) ==
    /\ attempt' = [attempt EXCEPT ![c] = [NoAttempt EXCEPT !.state = "asked",
            !.offer = IF ~Offers(c) THEN "none" ELSE IF hopeful THEN "optimistic" ELSE "enabled"]]
    /\ wire' = [wire EXCEPT ![c] = <<>>]
    /\ replies' = [replies EXCEPT ![c] = <<>>]
    /\ clientFree' = clientFree - One(c \in Duplex /\ Offers(c))

(* open_call and open_stream: optimistic while the connection is. *)
Open(c) ==
    /\ call[c].phase = "new"
    /\ call' = [call EXCEPT ![c] = Opened(c, optimism, [@ EXCEPT !.phase = "open"])]
    /\ Ask(c, optimism)
    /\ UNCHANGED <<optimism, got, handled, serverFree>>

-----------------------------------------------------------------------------
(* The upload. *)

(* StreamSender::encode: the context starts at FirstStreamed, if enabled and the budget allows; *)
(* an encoding that fails turns it off for good.                                                 *)
EncoderAfter(c, free, works) ==
    IF call[c].encoder = "waiting" /\ call[c].sent + 1 >= FirstStreamed /\ call[c].enabled
    THEN IF free > 0 /\ works THEN "active" ELSE "off"
    ELSE IF call[c].encoder = "active" /\ ~works THEN "off" ELSE call[c].encoder

(* A request leaves the upload, with `cost` already reserved for a copy of it. *)
Send(c, request, cost, works, base) ==
    LET after == EncoderAfter(c, clientFree - cost, works)
    IN  /\ call' = [call EXCEPT ![c] = [base EXCEPT !.sent = @ + 1, !.encoder = after]]
        /\ wire' = [wire EXCEPT ![c] = Append(@, [request |-> request, streamed |-> after = "active"])]
        /\ clientFree' = clientFree - cost + EncoderCost(c) - One(after = "active")
        /\ UNCHANGED <<optimism, replies, remote>>

Pulling(c) == call[c].uploading /\ ~call[c].parked /\ call[c].phase \in {"open", "refusing", "replayed"}

(* State::poll_upload while pending: a copy is kept if the cap and the budget have room. *)
MayKeep(c) == Len(call[c].kept) < MaxKept /\ clientFree > 0
SendKept(c, works) ==
    /\ Pulling(c) /\ call[c].decision = "pending" /\ call[c].next < Requests /\ MayKeep(c)
    /\ LET request == call[c].next + 1
       IN  Send(c, request, 1, works,
                [call[c] EXCEPT !.next = request, !.kept = Append(@, request)])

(* Otherwise the request is held, and the upload waits for the decision. *)
HoldBack(c) ==
    /\ Pulling(c) /\ call[c].decision = "pending" /\ call[c].next < Requests /\ ~MayKeep(c)
    /\ call' = [call EXCEPT ![c].next = @ + 1, ![c].held = call[c].next + 1, ![c].parked = TRUE]
    /\ UNCHANGED <<optimism, wire, replies, clientFree, remote>>

(* poll_upload once settled, and the upload of a call that was never optimistic or is replayed: *)
(* the held request, then the ones a replay sends again, then the caller's.                       *)
SendSettled(c, works) ==
    /\ Pulling(c) /\ call[c].decision = "settled"
    /\ \/ /\ call[c].held # 0
          /\ Send(c, call[c].held, 0, works, [call[c] EXCEPT !.held = 0])
       \/ /\ call[c].held = 0 /\ call[c].again # <<>>
          /\ Send(c, Head(call[c].again), 0, works, [call[c] EXCEPT !.again = Tail(@)])
       \/ /\ call[c].held = 0 /\ call[c].again = <<>> /\ call[c].next < Requests
          /\ Send(c, call[c].next + 1, 0, works, [call[c] EXCEPT !.next = @ + 1])

(* The caller's requests ended: the upload finishes and drops its encoder. *)
FinishUpload(c) ==
    /\ Pulling(c) /\ call[c].decision # "refused"
    /\ call[c].held = 0 /\ call[c].again = <<>> /\ call[c].next = Requests
    /\ call' = [call EXCEPT ![c].uploading = FALSE, ![c].encoder = "none"]
    /\ clientFree' = clientFree + EncoderCost(c)
    /\ UNCHANGED <<optimism, wire, replies, remote>>

-----------------------------------------------------------------------------
(* The server. *)

Reply(c, frames) == replies' = [replies EXCEPT ![c] = @ \o frames]

(* Admission rejects the request before anything is negotiated. *)
Reject(c) ==
    /\ attempt[c].state = "asked"
    /\ attempt' = [attempt EXCEPT ![c].state = "ended"]
    /\ Reply(c, <<"status">>)
    /\ UNCHANGED <<optimism, call, wire, got, handled, clientFree, serverFree>>

(* negotiate_stream: whether the server decodes the stream-compressed requests of a call, which *)
(* takes an offer, a route that is `allowed` to, and memory; refuses_optimistic.                  *)
Decodes(c, allowed) == attempt[c].offer # "none" /\ allowed /\ serverFree > 0
Refuses(c, allowed) == attempt[c].offer = "optimistic" /\ ~Decodes(c, allowed)

(* A dispatch that decides about optimism only after it has started the handler. *)
DispatchFirst(c, allowed) ==
    LET decodes == Decodes(c, allowed)
        refuses == Refuses(c, allowed)
    IN  /\ attempt[c].state = "asked"
        /\ attempt' = [attempt EXCEPT ![c].state = IF refuses THEN "refused" ELSE "serving",
                                      ![c].decoder = decodes]
        /\ serverFree' = serverFree - One(decodes)
        /\ handled' = [handled EXCEPT ![c] = @ + 1]
        /\ Reply(c, IF refuses THEN <<"refused">> ELSE IF decodes THEN <<"answer">> ELSE <<>>)
        /\ UNCHANGED <<optimism, call, wire, got, clientFree>>

(* The call is negotiated, and refused before the handler runs. *)
Dispatch(c, allowed) ==
    LET decodes == Decodes(c, allowed)
        refuses == Refuses(c, allowed)
    IN  /\ attempt[c].state = "asked"
        /\ attempt' = [attempt EXCEPT ![c].state = IF refuses THEN "refused" ELSE "serving",
                                      ![c].decoder = decodes]
        /\ serverFree' = serverFree - One(decodes)
        /\ handled' = [handled EXCEPT ![c] = @ + One(~refuses)]
        /\ Reply(c, IF refuses THEN <<"refused">> ELSE IF decodes THEN <<"answer">> ELSE <<>>)
        /\ UNCHANGED <<optimism, call, wire, got, clientFree>>

Receive(c) ==
    /\ attempt[c].state = "serving" /\ wire[c] # <<>>
    /\ got' = [got EXCEPT ![c] = Append(@, Head(wire[c]).request)]
    /\ wire' = [wire EXCEPT ![c] = Tail(@)]
    /\ UNCHANGED <<optimism, call, replies, attempt, handled, clientFree, serverFree>>

(* The call ends: the request decoder is dropped. *)
Finish(c) ==
    /\ attempt[c].state = "serving"
    /\ attempt' = [attempt EXCEPT ![c].state = "ended", ![c].decoder = FALSE]
    /\ serverFree' = serverFree + One(attempt[c].decoder)
    /\ Reply(c, <<"status">>)
    /\ UNCHANGED <<optimism, call, wire, got, handled, clientFree>>

-----------------------------------------------------------------------------
(* The client reads the response. *)

Reading(c, frame) ==
    /\ call[c].phase \in {"open", "replayed"} /\ replies[c] # <<>> /\ Head(replies[c]) = frame
    /\ replies' = [replies EXCEPT ![c] = Tail(@)]

(* ResponseReading::answer, Replay::settle and Optimism::answered. *)
ReadAnswer(c) ==
    /\ Reading(c, "answer")
    /\ call' = [call EXCEPT ![c].enabled = TRUE, ![c].decision = "settled", ![c].kept = <<>>, ![c].parked = FALSE]
    /\ clientFree' = clientFree + Len(call[c].kept)
    /\ optimism' = TRUE
    /\ UNCHANGED <<wire, remote>>

(* The call is over: the upload, the copies and the contexts are dropped. *)
Over(c) ==
    /\ call' = [call EXCEPT ![c] = [NewCall EXCEPT !.phase = "ended"]]
    /\ clientFree' = clientFree + Reserved(c)

(* A STATUS that does not refuse: the upload is aborted and the call done. *)
ReadStatus(c) ==
    /\ Reading(c, "status")
    /\ Over(c)
    /\ UNCHANGED <<optimism, wire, remote>>

(* A STATUS that refuses the optimistic call; the upload still runs until it is aborted. *)
ReadRefusal(c) ==
    /\ Reading(c, "refused")
    /\ call' = [call EXCEPT ![c].phase = "refusing"]
    /\ optimism' = FALSE
    /\ UNCHANGED <<wire, remote, clientFree>>

(* A replay that forgets the request its upload held back. *)
RefuseForgetting(c) ==
    /\ call[c].phase = "refusing"
    /\ call' = [call EXCEPT ![c] = [NewCall EXCEPT
            !.phase = "replaying", !.decision = "refused", !.next = call[c].next, !.again = call[c].kept]]
    /\ clientFree' = clientFree + Reserved(c)
    /\ UNCHANGED <<optimism, wire, replies, remote>>

(* abort_and_settle, Replay::refuse and the drop of the call: the replay owns the copies, *)
(* then the held request, then the rest.                                                    *)
Refuse(c) ==
    /\ call[c].phase = "refusing"
    /\ call' = [call EXCEPT ![c] = [NewCall EXCEPT
            !.phase = "replaying", !.decision = "refused", !.next = call[c].next,
            !.again = call[c].kept \o (IF call[c].held = 0 THEN <<>> ELSE <<call[c].held>>)]]
    /\ clientFree' = clientFree + Reserved(c)
    /\ UNCHANGED <<optimism, wire, replies, remote>>

(* NativeTransport::replay: not optimistic, whatever the connection is by now. *)
Replay(c) ==
    /\ call[c].phase = "replaying"
    /\ call' = [call EXCEPT ![c] = Opened(c, FALSE, [@ EXCEPT !.phase = "replayed"])]
    /\ Ask(c, FALSE)
    /\ UNCHANGED <<optimism, got, handled, serverFree>>

(* The caller drops the call, its deadline passes before the replay, or its stream is lost. *)
Drop(c) ==
    /\ call[c].phase \notin {"new", "ended"}
    /\ Over(c)
    /\ UNCHANGED <<optimism, wire, replies, remote>>

Uploads(c) == (\E works \in BOOLEAN : SendKept(c, works) \/ SendSettled(c, works)) \/ HoldBack(c) \/ FinishUpload(c)
Serves(c) == Reject(c) \/ \E allowed \in BOOLEAN : Dispatch(c, allowed)
Reads(c) == ReadAnswer(c) \/ ReadStatus(c) \/ ReadRefusal(c) \/ Refuse(c) \/ Replay(c)
Next == \E c \in Calls : Open(c) \/ Uploads(c) \/ Serves(c) \/ Receive(c) \/ Finish(c) \/ Reads(c) \/ Drop(c)

(* Tasks are scheduled, and a server decides about the calls that reach it. *)
Fairness == \A c \in Calls : WF_vars(Uploads(c)) /\ WF_vars(Serves(c)) /\ WF_vars(Receive(c)) /\ WF_vars(Reads(c))
Spec == Init /\ [][Next]_vars
FairSpec == Spec /\ Fairness

-----------------------------------------------------------------------------
(* Properties. *)

(* "A handler never runs twice for one call": the server refuses before the handler is       *)
(* started, and only a refused call is replayed, once (server_transport.rs, next_response).     *)
RunsOnce == \A c \in Calls : handled[c] <= 1

(* A stream-compressed request only ever waits for a handler that can decode it: encoders    *)
(* run before the answer only on calls the server then refuses (offer_stream, negotiate_stream). *)
Decodable ==
    \A c \in Calls : attempt[c].state = "serving" /\ ~attempt[c].decoder =>
        \A i \in DOMAIN wire[c] : ~wire[c][i].streamed

(* However a call is answered, refused and replayed, its handler runs at most once, and a          *)
(* stream-compressed request only ever waits for a handler that can decode it (client/replay.rs,   *)
(* compression/stream.rs negotiate_stream).                                                        *)
StreamedOnce == RunsOnce /\ Decodable

(* A replayed call delivers every request once and in order, those the refused attempt had sent or *)
(* held back too, unless either side ends it early (Replay::refuse, replay).                       *)
AllReceived ==
    \A c \in Calls :
        call[c].phase = "replaying" ~>
            got[c] = [i \in 1..Requests |-> i] \/ call[c].phase = "ended" \/ attempt[c].state = "ended"
=============================================================================
