--------------------------- MODULE StreamContexts ---------------------------
(***************************************************************************)
(* One direction of a call that may be stream-compressed, from the sender's *)
(* messages to the receiver's (compression/stream.rs): the zstd context the *)
(* sender keeps across messages, the frames and blocks it cuts them into,   *)
(* and the receiver's context, which must have seen the same.  libzstd is   *)
(* what it promises: a context compresses against the messages of its frame *)
(* and the dictionary the frame started from, and only a context with the   *)
(* same history decompresses the result.                                    *)
(***************************************************************************)
EXTENDS Naturals, Sequences

CONSTANTS Lengths,        \* the lengths of messages
          MaxLen,         \* the receiver's limit
          FrameLimit,     \* FRAME_LIMIT
          FirstStreamedMessage,  \* FIRST_STREAMED_MESSAGE
          Dicts,          \* the dictionaries the receiver holds
          MaxMessages, MaxPath   \* bounds: messages sent, and frames on their way

ASSUME ContextLimits ==
    Lengths \subseteq Nat /\ MaxLen \in Nat /\ FrameLimit \in Nat \ {0} /\ "none" \notin Dicts

VARIABLES sender,    \* MessageEncoder, with its StreamSender and StreamEncoder
          path,      \* the frames on their way, in order
          inflater,  \* the receiver's Inflater
          log, decoded,  \* ghosts: the messages sent, and those decoded
          ended      \* the receiver rejected a message

contextVars == <<sender, path, inflater, log, decoded, ended>>

NoContext == [live |-> FALSE, dict |-> "none", history |-> <<>>]

(* Inflater::new: on a server it holds every dictionary, on a client the call's alone. *)
NewInflater(accept) ==
    [accept |-> accept, context |-> NoContext, atFrameStart |-> TRUE, count |-> 0]
Receivers == {NewInflater(accept) : accept \in {Dicts} \cup {{d} : d \in Dicts}}

(* MessageEncoder::new, StreamSender::new: its dictionary and the receiver's answer may come later. *)
NewSender == [dict |-> "none", enabled |-> FALSE, sent |-> 0, state |-> "waiting",
              context |-> NoContext, inFrame |-> 0]

StartContexts(receivers) ==
    /\ sender = NewSender /\ path = <<>> /\ log = <<>> /\ decoded = <<>> /\ ended = FALSE
    /\ inflater \in receivers
ContextsInit == StartContexts(Receivers)

(* StreamEnable::enable, and the CallDict of requests, which the answer sets. *)
Enable ==
    /\ ~sender.enabled /\ sender' = [sender EXCEPT !.enabled = TRUE]
    /\ UNCHANGED <<path, inflater, log, decoded, ended>>
LearnDict(dict) ==
    /\ sender.dict = "none" /\ dict \in inflater.accept
    /\ sender' = [sender EXCEPT !.dict = dict]
    /\ UNCHANGED <<path, inflater, log, decoded, ended>>

-----------------------------------------------------------------------------
(* What compress_stream2 writes for a message: the header of a frame that begins, and one block or *)
(* several, the last of them marked when the frame ends.  An empty message that is flushed is      *)
(* nothing.                                                                                        *)
Chunk(context, message, end) ==
    IF message.len = 0 THEN [empty |-> TRUE]
    ELSE [empty |-> FALSE, header |-> context.history = <<>>, dict |-> context.dict,
          last |-> end, against |-> context.history]

(* StreamEncoder::context: every frame starts from the dictionary, unless that is no dictionary. *)
Context(dict) == [live |-> TRUE, dict |-> IF dict = "plain" THEN "none" ELSE dict, history |-> <<>>]

(* StreamSender::start, for which there may be no memory. *)
MayStart == sender.state = "waiting" /\ sender.sent + 1 >= FirstStreamedMessage /\ sender.enabled
Started(s, room) ==
    IF ~MayStart THEN s
    ELSE IF room THEN [s EXCEPT !.state = "active", !.context = Context(s.dict), !.inFrame = 0]
    ELSE [s EXCEPT !.state = "off"]

(* StreamEncoder::encode: what the context and in_frame are once the message is in it. *)
Encoded(s, message) ==
    LET inFrame == s.inFrame + message.len
        end == inFrame >= FrameLimit
        history == IF message.len = 0 THEN s.context.history ELSE Append(s.context.history, message.id)
    IN  [s EXCEPT !.inFrame = IF end THEN 0 ELSE inFrame,
                  !.context.history = IF end THEN <<>> ELSE history]

(* A sender that goes on with its context after a message failed. *)
FailedKept(s, message) == Encoded(s, message)
(* A message that failed may have changed the context, which is not used again. *)
Failed(s, message) == [s EXCEPT !.state = "off", !.context = NoContext]

(* MessageEncoder::encode: stream-compressed, else compressed by itself with the dictionary when   *)
(* that makes it shorter, else as it is.                                                           *)
Encode(len, room, works, shorter) ==
    LET message == [id |-> Len(log) + 1, len |-> len]
        s == Started([sender EXCEPT !.sent = @ + 1], room)
        end == s.inFrame + len >= FrameLimit
        alone == IF shorter /\ s.dict # "none" THEN "zstd" ELSE "message"
        frame(kind, chunk) == [kind |-> kind, message |-> message, chunk |-> chunk, dict |-> s.dict]
    IN  /\ Len(log) < MaxMessages /\ Len(path) < MaxPath /\ ~ended
        /\ log' = Append(log, message)
        /\ IF s.state = "active" /\ works
           THEN /\ sender' = Encoded(s, message)
                /\ path' = Append(path, frame("stream", Chunk(s.context, message, end)))
           ELSE /\ sender' = IF s.state = "active" THEN Failed(s, message) ELSE s
                /\ path' = Append(path, frame(alone, [empty |-> TRUE]))
        /\ UNCHANGED <<inflater, decoded, ended>>

-----------------------------------------------------------------------------
(* next_block and parse_frame_header: what a chunk says about itself, walked from block to block.  *)
(* Without an open frame it must begin with a header, and the last block of a frame is its end.    *)
ParseStreamChunk(chunk, atFrameStart) ==
    IF chunk.empty THEN [valid |-> TRUE, starts |-> FALSE, dict |-> "none", ends |-> FALSE]
    ELSE [valid |-> chunk.header = atFrameStart, starts |-> atFrameStart,
          dict |-> IF atFrameStart THEN chunk.dict ELSE "none", ends |-> chunk.last]

(* frame_context: only a dictionary the receiver holds. *)
FrameContext(dict) == [live |-> dict \in inflater.accept \cup {"none"}, dict |-> dict, history |-> <<>>]

(* A message is rejected as it is, or once the context failed on it, which is then dropped. *)
RejectFrame == ended' = TRUE /\ UNCHANGED <<inflater, decoded>>
Corrupt == ended' = TRUE /\ inflater' = [inflater EXCEPT !.context = NoContext] /\ UNCHANGED decoded
AcceptFrame(frame, after) ==
    /\ inflater' = [after EXCEPT !.count = @ + 1] /\ decoded' = Append(decoded, frame.message)
    /\ UNCHANGED ended

(* Inflater::decode *)
Inflate(frame) ==
    LET chunk == frame.chunk
        parsed == ParseStreamChunk(chunk, inflater.atFrameStart)
        context == IF parsed.starts THEN FrameContext(parsed.dict) ELSE inflater.context
    IN  IF frame.message.len > MaxLen \/ ~parsed.valid THEN RejectFrame
        ELSE IF chunk.empty THEN IF frame.message.len = 0 THEN AcceptFrame(frame, inflater) ELSE RejectFrame
        ELSE IF ~context.live THEN RejectFrame
        ELSE IF context.dict # chunk.dict \/ context.history # chunk.against THEN Corrupt
        ELSE AcceptFrame(frame, [inflater EXCEPT !.atFrameStart = parsed.ends,
                               !.context = [context EXCEPT !.history = Append(@, frame.message.id)]])

(* A frame is decoded by its type: a message compressed by itself needs its dictionary alone. *)
Decode ==
    /\ path # <<>> /\ ~ended /\ path' = Tail(path)
    /\ LET frame == Head(path)
       IN  IF frame.kind = "stream" THEN Inflate(frame)
           ELSE IF frame.message.len > MaxLen \/ (frame.kind = "zstd" /\ frame.dict \notin inflater.accept)
           THEN RejectFrame
           ELSE UNCHANGED <<inflater, ended>> /\ decoded' = Append(decoded, frame.message)
    /\ UNCHANGED <<sender, log>>

ContextsNext ==
    \/ Enable \/ Decode
    \/ \E d \in Dicts : LearnDict(d)
    \/ \E len \in Lengths, room, works, shorter \in BOOLEAN :
           Encode(len, room, works, shorter)

ContextsSpec == ContextsInit /\ [][ContextsNext]_contextVars

-----------------------------------------------------------------------------
(* Every message is decoded as it was sent and in order, and only one over the receiver's limit    *)
(* is ever rejected: the two contexts stay in step across frames that end at the limit, empty      *)
(* messages, messages sent by themselves and a compression that fails (StreamSender::encode,       *)
(* Inflater::decode).                                                                              *)
ContextsAgree ==
    /\ decoded = SubSeq(log, 1, Len(decoded))
    /\ ended => log[Len(decoded) + 1].len > MaxLen

=============================================================================
