------------------------------ MODULE Framing -------------------------------
(***************************************************************************)
(* Frames on a byte stream (framed.rs, framing.rs, varint.rs): a writer    *)
(* that sends batches of frames as chunks, and a reader that finds the     *)
(* frames again whatever pieces the transport delivers, skips the types it *)
(* does not know, and tells a clean end from one in the middle of a frame. *)
(*                                                                         *)
(* The integers are QUIC's with a smaller byte: the first byte's two high  *)
(* bits give the length, and First values are left in it (64 in the code). *)
(* A payload byte is the number of its frame.  Three types are known: a    *)
(* message, a request and a status; HEADERS and ANSWER are read as those   *)
(* are, and a compressed message as a message.                             *)
(***************************************************************************)
EXTENDS Integers, SequencesExt

CONSTANTS First,        \* the values a one-byte integer has
          CoalesceMax,  \* COALESCE_MAX
          BufferedMax,  \* BUFFERED_READ_MAX
          DiscardChunk, \* DISCARD_CHUNK
          Batch,        \* MESSAGE_FRAME_BATCH
          MaxFrameSize, \* max_frame_size
          Scripts       \* what is sent: sequences of [type, len, typeLen, lenLen]

Byte == 4 * First
Message == 0
Request == 1
Status == 2

(* is_known_frame_type *)
Known(type) == type =< Status

VARIABLES role,     \* who reads: "request", "unary" (a request with one message) or "response"
          frames,   \* what is sent
          written,  \* how many of them were
          wire,     \* the bytes sent
          fin,      \* the stream has ended
          pos,      \* bytes read
          pending,  \* Chunked::pending, as a length
          stage,    \* which read is under way
          buf, want,  \* what it has, and how much it needs
          header,   \* the frame header read so far
          phase,    \* what the reader expects: "first", "body", "one" or "last"
          got,      \* the frames handed on
          skipped,  \* what on_skipped was told
          result    \* "reading", or how it ended

frVars == <<role, frames, written, wire, fin, pos, pending, stage, buf, want, header, phase, got,
            skipped, result>>
writer == <<role, frames, written, wire, fin>>

-----------------------------------------------------------------------------
(* varint.rs *)

Lens == <<1, 2, 4, 8>>
LenFromFirstByte(b) == Lens[(b \div First) + 1]
Class(n) == CHOOSE c \in 0..3 : Lens[c + 1] = n

EncodedLen(v) ==
    IF v < First THEN 1 ELSE IF v < First * Byte THEN 2 ELSE IF v < First * Byte ^ 3 THEN 4 ELSE 8

(* push, and any longer encoding another writer may use. *)
Push(v, n) ==
    [i \in 1..n |-> ((v \div (Byte ^ (n - i))) % Byte) + (IF i = 1 THEN Class(n) * First ELSE 0)]

Decode(bytes) == FoldLeft(LAMBDA v, b : v * Byte + b, Head(bytes) % First, Tail(bytes))

(* put_frame_header *)
PutFrameHeader(f) == Push(f.type, f.typeLen) \o Push(f.len, f.lenLen)
WireLen(f) == f.typeLen + f.lenLen + f.len
Payload(f, i) == [b \in 1..f.len |-> i]

(* encode_frame, put_protobuf_frame *)
EncodeFrame(f, i) == PutFrameHeader(f) \o Payload(f, i)

(* validate_payload_len *)
TooLarge(len) == len > MaxFrameSize

-----------------------------------------------------------------------------
(* The writer. *)

(* FrameChunks::message and protobuf: a large payload is a chunk of its own, after the scratch. *)
AddFrame(out, f, i) ==
    IF f.len =< CoalesceMax
    THEN [out EXCEPT !.scratch = @ \o EncodeFrame(f, i)]
    ELSE [scratch |-> <<>>,
          chunks |-> out.chunks \o <<out.scratch \o PutFrameHeader(f), Payload(f, i)>>]

(* FrameChunks::write *)
Chunks(first, last) ==
    LET out == FoldLeft(LAMBDA acc, i : AddFrame(acc, frames[i], i),
                        [scratch |-> <<>>, chunks |-> <<>>], [i \in 1..(last - first + 1) |-> first + i - 1])
    IN  FlattenSeq(Append(out.chunks, out.scratch))

(* write_request_stream: what is ready, up to a batch, shares a write. *)
WriteBatch ==
    /\ ~fin /\ written < Len(frames)
    /\ \E last \in (written + 1)..Len(frames) :
           /\ last - written =< Batch
           /\ wire' = wire \o Chunks(written + 1, last)
           /\ written' = last
    /\ UNCHANGED <<role, frames, fin, pos, pending, stage, buf, want, header, phase, got, skipped,
                   result>>

(* The stream is finished, or a connection below it cuts it off anywhere. *)
Finish ==
    /\ ~fin /\ fin' = TRUE
    /\ \/ written = Len(frames) /\ UNCHANGED wire
       \/ \E n \in (pos + pending)..Len(wire) : wire' = SubSeq(wire, 1, n)
    /\ UNCHANGED <<role, frames, written, pos, pending, stage, buf, want, header, phase, got, skipped,
                   result>>

-----------------------------------------------------------------------------
(* The reader. *)

NoHeader == [type |-> 0, len |-> 0, wireLen |-> 0]
Least(a, b) == IF a < b THEN a ELSE b

Fresh ==
    /\ role = "request" /\ frames = <<>> /\ written = 0 /\ wire = <<>> /\ fin = FALSE
    /\ pos = 0 /\ pending = 0 /\ stage = "head" /\ buf = <<>> /\ want = 2
    /\ header = NoHeader /\ phase = "first" /\ got = <<>> /\ skipped = 0 /\ result = "reading"

Init ==
    /\ role \in {"request", "unary", "response"} /\ frames \in Scripts
    /\ written = 0 /\ wire = <<>> /\ fin = FALSE
    /\ pos = 0 /\ pending = 0 /\ stage = "head" /\ buf = <<>> /\ want = 2
    /\ header = NoHeader /\ got = <<>> /\ skipped = 0 /\ result = "reading"
    /\ phase = IF role = "response" THEN "body" ELSE "first"

Reading == result = "reading" /\ Len(buf) < want
Available == Len(wire) - pos - pending
Rest == IF stage = "discard" THEN Least(want - Len(buf), DiscardChunk) ELSE want - Len(buf)

Take(n, left) ==
    /\ buf' = buf \o SubSeq(wire, pos + 1, pos + n)
    /\ pos' = pos + n /\ pending' = left
    /\ UNCHANGED <<writer, stage, want, header, phase, got, skipped, result>>

(* Chunked::read_frame_bytes from the chunk it holds; read_payload_bytes when that is enough. *)
ReadPending == Reading /\ pending > 0 /\ LET n == Least(Rest, pending) IN Take(n, pending - n)

(* Of an empty one, a large read goes to the stream itself and a small one takes a chunk. *)
ReadSource ==
    /\ Reading /\ pending = 0 /\ Available > 0
    /\ \E size \in 1..Available :
           LET n == Least(Rest, size)
           IN  IF Rest > BufferedMax THEN size =< Rest /\ Take(size, 0) ELSE Take(n, size - n)

Ends(how) ==
    /\ result' = how
    /\ UNCHANGED <<writer, pos, pending, stage, buf, want, header, phase, got, skipped>>

(* read_exact_or_eof that takes any end before a frame's last byte for the clean one. *)
ReadEndLenient ==
    /\ Reading /\ pending = 0 /\ Available = 0 /\ fin
    /\ Ends(IF stage = "head" THEN "end" ELSE "eof")

(* read_exact_or_eof at the end: only before the first byte of a header is it clean. *)
ReadEnd ==
    /\ Reading /\ pending = 0 /\ Available = 0 /\ fin
    /\ Ends(IF stage = "head" /\ buf = <<>> /\ phase # "first" THEN "end" ELSE "eof")

Read(next, n) == stage' = next /\ want' = n /\ buf' = <<>>
ReadOn(next, n) == stage' = next /\ want' = n /\ UNCHANGED buf

(* A frame is done: back to read_frame_header. *)
NextFrame == Read("head", 2) /\ header' = NoHeader

(* read_request, read_request_frame and read_request_end: which known types they take. *)
AllowedRequest(type) ==
    CASE phase = "first" -> type = Request
      [] phase = "last"  -> FALSE
      [] OTHER           -> type = Message

(* read_response_frame, and after the status drain_fin_after_terminal_status. *)
AllowedResponse(type) == phase # "last" /\ type \in {Message, Status}

Allowed(type) == IF role = "response" THEN AllowedResponse(type) ELSE AllowedRequest(type)
PhaseAfter(type) ==
    CASE phase = "first" -> IF role = "unary" THEN "one" ELSE "body"
      [] phase = "one"   -> "last"
      [] OTHER           -> IF type = Status THEN "last" ELSE "body"

(* The end of read_frame_header: the length is checked, then a frame that has no place is *)
(* rejected before its payload is read, and one of unknown type is discarded.             *)
WithHeader(type, len, headerLen) ==
    /\ IF TooLarge(len)
       THEN result' = "too large" /\ UNCHANGED <<stage, buf, want, header>>
       ELSE IF Known(type) /\ ~Allowed(type)
       THEN result' = "rejected" /\ UNCHANGED <<stage, buf, want, header>>
       ELSE /\ Read(IF Known(type) THEN "payload" ELSE "discard", len)
            /\ header' = [type |-> type, len |-> len, wireLen |-> headerLen + len]
            /\ UNCHANGED result
    /\ UNCHANGED <<writer, pos, pending, phase, got, skipped>>

Done(s) == result = "reading" /\ stage = s /\ Len(buf) = want
Same == UNCHANGED <<writer, pos, pending, phase, got, skipped, result>>

(* The two bytes every header has: mostly all of it, else the start of one of its integers. *)
GotHead ==
    /\ Done("head")
    /\ LET typeLen == LenFromFirstByte(buf[1])
           lenLen == LenFromFirstByte(buf[2])
       IN  \/ /\ typeLen = 1 /\ lenLen = 1
              /\ WithHeader(buf[1], buf[2], 2)
           \/ /\ typeLen = 1 /\ lenLen > 1
              /\ header' = [NoHeader EXCEPT !.type = buf[1], !.wireLen = 1]
              /\ stage' = "length" /\ want' = lenLen /\ buf' = <<buf[2]>>
              /\ Same
           \/ /\ typeLen > 1
              /\ ReadOn("type", typeLen)
              /\ UNCHANGED header /\ Same

(* read_continued of the type, then read of the length. *)
GotType ==
    /\ Done("type")
    /\ header' = [NoHeader EXCEPT !.type = Decode(buf), !.wireLen = Len(buf)]
    /\ Read("length", 1) /\ Same

GotLength ==
    /\ Done("length")
    /\ LET n == LenFromFirstByte(buf[1])
       IN  IF n > Len(buf)
           THEN ReadOn("length", n) /\ UNCHANGED header /\ Same
           ELSE WithHeader(header.type, Decode(buf), header.wireLen + n)

(* read_payload, and decoding it. *)
GotPayload ==
    /\ Done("payload")
    /\ got' = Append(got, [type |-> header.type, payload |-> buf])
    /\ phase' = PhaseAfter(header.type)
    /\ NextFrame
    /\ UNCHANGED <<writer, pos, pending, skipped, result>>

(* next_known_header: discard_payload, and on_skipped of the whole frame. *)
GotUnknown ==
    /\ Done("discard")
    /\ skipped' = skipped + header.wireLen
    /\ NextFrame
    /\ UNCHANGED <<writer, pos, pending, phase, got, result>>

Next ==
    \/ WriteBatch \/ Finish \/ ReadPending \/ ReadSource \/ ReadEnd
    \/ GotHead \/ GotType \/ GotLength \/ GotPayload \/ GotUnknown

-----------------------------------------------------------------------------
KnownBefore(n) == SelectSeq([i \in 1..n |-> [type |-> frames[i].type, payload |-> Payload(frames[i], i)]],
                            LAMBDA f : Known(f.type))
SkippedBefore(n) == FoldLeft(LAMBDA sum, i : IF Known(frames[i].type) THEN sum ELSE sum + WireLen(frames[i]),
                             0, [i \in 1..n |-> i])
BytesBefore(n) == FoldLeft(LAMBDA sum, i : sum + WireLen(frames[i]), 0, [i \in 1..n |-> i])

(* However frames are batched, chunked, coalesced and cut into pieces, read_request_frame and its  *)
(* siblings hand on exactly the known frames that were sent, whole and in order, and charge the    *)
(* others by their length; a stream cut inside a frame never looks ended.                          *)
FramesSurvive ==
    /\ \E n \in 0..Len(frames) : got = KnownBefore(n) /\ skipped = SkippedBefore(n)
    /\ result = "end" =>
           \E n \in 0..Len(frames) :
               pos = BytesBefore(n) /\ got = KnownBefore(n) /\ skipped = SkippedBefore(n)
    /\ result = "too large" => \E i \in 1..Len(frames) : TooLarge(frames[i].len)

=============================================================================
