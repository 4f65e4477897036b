------------------------ MODULE StreamingCallProofs -------------------------
(***************************************************************************)
(* That the two halves of a streaming call tell the same end, and that its *)
(* request stream ends cleanly for a dropped sender only if the drop fell  *)
(* between the two polls of one poll_next, for any number of sends and     *)
(* responses and any size of the buffers; and that the two zstd contexts   *)
(* of a direction stay in step, for any messages, any dictionaries and any *)
(* frame limit.                                                            *)
(***************************************************************************)
EXTENDS StreamingCall, StreamContexts, TLAPS

MessageFrames == [kind : {"message"}, number : Nat]
WireFrames == [kind : {"message", "ok", "error", "lost", "cut"}, number : Nat]
Ends == {"running", "ok", "error", "failure", "unknown", "backlog"}

(* What the reader may have passed on: a terminal frame only if it is the end that was recorded,   *)
(* or comes after the sends were told that the response is not read.                               *)
Passed(how) ==
    MessageFrames \cup [kind : {item \in Terminal : how \in {item, "backlog"}}, number : {0}]

TypeOK ==
    /\ wire \in Seq(WireFrames) /\ produced \in Nat /\ queued \in Nat /\ end \in Ends
    /\ send \in [Sends -> {"new", "waiting", "stopped", "sent", "cancelled", "status", "failed",
                           "exhausted", "deadline", "abandoned"}]
PassedInv == backlog \in Seq(Passed(end)) /\ frames \in Seq(Passed(end)) /\ received \in Seq(Passed(end))

(* A send fails with the end that was recorded. *)
ResultInv ==
    \A s \in Sends :
        /\ send[s] = "status" => end = "error"
        /\ send[s] = "failed" => end = "failure"
        /\ send[s] = "cancelled" /\ handle # "finished" => end \in {"ok", "unknown"}

(* Cancel is found by the next poll of the control: an upload that has not passed it never gets to *)
(* the queue again.                                                                                *)
CancelInv ==
    /\ handle \in {"open", "finished", "cancelling", "dropped"}
    /\ handle = "open" => upload # "finished"
    /\ handle \in {"cancelling", "dropped"} /\ dropAt # "receiver" => upload \notin {"receiver", "finished"}
    /\ upload = "finished" => queued = 0

(* Only a server that has answered sent a terminal frame, and once one was read there is no other. *)
WireInv ==
    /\ ~answered => wire \in Seq(MessageFrames)
    /\ end \notin {"running", "backlog"} =>
           /\ answered \/ reader = "dropped"
           /\ reader = "reading" => wire = <<Frame("cut", 0)>>

CallInv == TypeOK /\ PassedInv /\ ResultInv /\ CancelInv /\ WireInv

-----------------------------------------------------------------------------
(* Everything passed on while the call runs is a message, and stays right whatever its end. *)
LEMMA PassedGrows ==
    ASSUME NEW how \in Ends, NEW items \in Seq(Passed("running"))
    PROVE  items \in Seq(Passed(how))
<1>1. Passed("running") \subseteq Passed(how)
  BY DEF Passed, Terminal
<1> QED
  BY <1>1

(* The empty sequence is one of anything. *)
LEMMA EmptyWire == <<>> \in Seq(WireFrames) /\ <<>> \in Seq(MessageFrames) /\ \A how : <<>> \in Seq(Passed(how))
  OBVIOUS

(* A call before its first send and its first response. *)
LEMMA CallInitial == StreamingInit => CallInv
<1> SUFFICES ASSUME StreamingInit PROVE CallInv
  OBVIOUS
<1>1. TypeOK /\ PassedInv /\ ResultInv /\ CancelInv
  BY DEF StreamingInit, TypeOK, PassedInv, ResultInv, CancelInv, Ends
<1>2. WireInv
  BY EmptyWire, Zenon DEF StreamingInit, WireInv
<1> QED
  BY <1>1, <1>2, Zenon DEF CallInv

(* What a send fails with is one of its results, and tells the end. *)
LEMMA FailureTells ==
    ASSUME end \in Ends, end # "running"
    PROVE  /\ Failure \in {"status", "failed", "exhausted", "cancelled"}
           /\ Failure = "status" => end = "error"
           /\ Failure = "failed" => end = "failure"
           /\ Failure = "cancelled" => end \in {"ok", "unknown"}
  BY Zenon DEF Failure, Ends

(* A send that ends with a result keeps the invariant when the result fits the end. *)
LEMMA ResultKeeps ==
    ASSUME CallInv, NEW s \in Sends,
           NEW result \in {"new", "waiting", "stopped", "sent", "cancelled", "status", "failed",
                           "exhausted", "deadline", "abandoned"},
           send' = [send EXCEPT ![s] = result],
           result = "status" => end = "error", result = "failed" => end = "failure",
           result = "cancelled" /\ handle # "finished" => end \in {"ok", "unknown"},
           queued' \in Nat, upload = "finished" => queued' = queued,
           UNCHANGED <<handle, dropAt, upload, wire, produced, answered, reader, backlog, frames,
                       received, end>>
    PROVE  CallInv'
<1>1. TypeOK'
  BY Zenon DEF CallInv, TypeOK
<1>2. PassedInv' /\ CancelInv' /\ WireInv'
  BY Zenon DEF CallInv, PassedInv, CancelInv, WireInv
<1>3. ResultInv'
  BY DEF CallInv, TypeOK, ResultInv
<1> QED
  BY <1>1, <1>2, <1>3, Zenon DEF CallInv

(* A send is accepted, or waits, only while the upload runs. *)
LEMMA SendKeeps ==
    ASSUME CallInv, NEW s \in Sends, SendSteps(s) \/ Expire(s) \/ AbandonSend(s)
    PROVE  CallInv'
<1> USE DEF Result, server, response
<1>0. end \in Ends /\ queued \in Nat
  BY Zenon DEF CallInv, TypeOK
<1>1. CASE TrySend(s)
  <2>0. UNCHANGED <<handle, dropAt, upload, wire, produced, answered, reader, backlog, frames,
                    received, end>>
    BY <1>1, Zenon DEF TrySend
  <2>1. CASE handle = "finished" /\ Result(s, "cancelled") /\ UNCHANGED queued
    BY <1>0, <2>0, <2>1, ResultKeeps, Zenon
  <2>2. CASE end # "running" /\ Result(s, Failure) /\ UNCHANGED queued
    BY <1>0, <2>0, <2>2, ResultKeeps, FailureTells, Zenon
  <2>3. CASE upload \in Live /\ Result(s, "sent") /\ queued' = queued + 1
    <3>1. queued' \in Nat /\ upload # "finished"
      BY <1>0, <2>3 DEF Live
    <3> QED
      BY <2>0, <2>3, <3>1, ResultKeeps, Zenon
  <2>4. CASE \E result \in {"waiting", "stopped"} : Result(s, result) /\ UNCHANGED queued
    BY <1>0, <2>0, <2>4, ResultKeeps, Zenon
  <2> QED
    BY <1>1, <2>1, <2>2, <2>3, <2>4, Zenon DEF TrySend
<1>2. CASE FailEnded(s)
  BY <1>0, <1>2, ResultKeeps, FailureTells, Zenon DEF FailEnded
<1>3. CASE Expire(s) \/ AbandonSend(s)
  BY <1>0, <1>3, ResultKeeps, Zenon DEF Expire, AbandonSend
<1>4. CASE FindRoom(s)
  <2>1. queued' \in Nat /\ upload # "finished"
    BY <1>0, <1>4 DEF FindRoom, Live
  <2> QED
    BY <1>4, <2>1, ResultKeeps, Zenon DEF FindRoom
<1>5. CASE FindStopped(s)
  BY <1>0, <1>5, ResultKeeps, Zenon DEF FindStopped
<1> QED
  BY <1>1, <1>2, <1>3, <1>4, <1>5, Zenon DEF SendSteps

(* The sender is finished or dropped, and the upload polls the control before each look at the     *)
(* queue.                                                                                          *)
LEMMA UploadKeeps ==
    ASSUME CallInv, FinishSends \/ SendCancel \/ DropQueue \/ UploadSteps \/ Written \/ StopUpload
    PROVE  CallInv'
<1>1. UNCHANGED <<send, wire, produced, answered, reader, backlog, frames, received, end>>
  BY Zenon DEF FinishSends, SendCancel, DropQueue, UploadSteps, Written, StopUpload, Uploads,
               PollControl, Take, FinishUpload, Park, server, response
<1>2. queued' \in Nat
  BY DEF CallInv, TypeOK, FinishSends, SendCancel, DropQueue, UploadSteps, Written, StopUpload,
         Uploads, PollControl, Take, FinishUpload, Park
<1>3. TypeOK' /\ PassedInv' /\ WireInv'
  BY <1>1, <1>2, Zenon DEF CallInv, TypeOK, PassedInv, WireInv
<1>4. handle # "finished" \/ handle' = "finished"
  BY Zenon DEF FinishSends, SendCancel, DropQueue, UploadSteps, Written, StopUpload, Uploads,
               PollControl, Take, FinishUpload, Park
<1>5. ResultInv'
  BY <1>1, <1>4, Zenon DEF CallInv, ResultInv
<1>6. CancelInv'
  BY DEF CallInv, CancelInv, FinishSends, SendCancel, DropQueue, UploadSteps, Written, StopUpload,
         Uploads, PollControl, Take, FinishUpload, Park, QueueClosed
<1> QED
  BY <1>3, <1>5, <1>6, Zenon DEF CallInv

(* The server adds to what is on its way. *)
LEMMA ServerKeeps ==
    ASSUME CallInv, Produce \/ \E how \in {"ok", "error", "lost", "cut"} : Answer(how)
    PROVE  CallInv'
<1>1. UNCHANGED <<send, handle, dropAt, queued, upload, reader, backlog, frames, received, end>>
      /\ ~answered /\ reader # "dropped"
  BY Zenon DEF Produce, Answer, response
<1>2. wire \in Seq(WireFrames) /\ wire \in Seq(MessageFrames) /\ produced \in Nat
      /\ end \in {"running", "backlog"}
  BY <1>1, Zenon DEF CallInv, TypeOK, WireInv
<1>3. CASE Produce
  <2>1. Frame("message", produced + 1) \in WireFrames /\ Frame("message", produced + 1) \in MessageFrames
    BY <1>2 DEF Frame, WireFrames, MessageFrames
  <2>2. wire' = Append(wire, Frame("message", produced + 1)) /\ produced' = produced + 1
    BY <1>3, Zenon DEF Produce
  <2>3. wire' \in Seq(WireFrames) /\ wire' \in Seq(MessageFrames) /\ produced' \in Nat
    BY <1>2, <2>1, <2>2
  <2> QED
    BY <1>1, <1>2, <2>3, Zenon DEF CallInv, TypeOK, PassedInv, ResultInv, CancelInv, WireInv
<1>4. ASSUME NEW how \in {"ok", "error", "lost", "cut"}, Answer(how) PROVE CallInv'
  <2>1. Frame(how, 0) \in WireFrames
    BY DEF Frame, WireFrames
  <2>2. wire' = Append(wire, Frame(how, 0)) /\ answered' /\ UNCHANGED produced
    BY <1>4, Zenon DEF Answer
  <2>3. wire' \in Seq(WireFrames)
    BY <1>2, <2>1, <2>2
  <2> QED
    BY <1>1, <1>2, <2>2, <2>3, Zenon DEF CallInv, TypeOK, PassedInv, ResultInv, CancelInv, WireInv
<1> QED
  BY <1>3, <1>4, Zenon

(* The first end is kept; while there is none no send has failed with it and only messages were    *)
(* passed on.                                                                                      *)
LEMMA EndKeeps ==
    ASSUME CallInv, NEW how \in Ends \ {"running"}, end' \in {end, Ended(how)},
           UNCHANGED <<send, handle>>
    PROVE  /\ end' \in Ends /\ ResultInv'
           /\ \A items : items \in Seq(Passed(end)) => items \in Seq(Passed(end'))
<1>1. CASE end' = end
  BY <1>1, Zenon DEF CallInv, TypeOK, ResultInv
<1>2. CASE end = "running" /\ end' = how
  <2>1. \A s \in Sends : send[s] \notin {"status", "failed"}
                         /\ (send[s] = "cancelled" => handle = "finished")
    BY <1>2, Zenon DEF CallInv, ResultInv
  <2>2. \A items \in Seq(Passed("running")) : items \in Seq(Passed(how))
    BY PassedGrows
  <2> QED
    BY <1>2, <2>1, <2>2, Zenon DEF ResultInv
<1> QED
  BY <1>1, <1>2, Zenon DEF Ended

(* Settling the upload never finishes it, and never lets it run. *)
LEMMA SettleKeeps ==
    ASSUME CallInv, Settle \/ UNCHANGED upload, UNCHANGED <<handle, dropAt, queued>>
    PROVE  CancelInv'
  BY Zenon DEF CallInv, CancelInv, Settle

(* The reader passes messages on, and records the end with the frame that tells it. *)
LEMMA ReaderKeeps ==
    ASSUME CallInv, ReaderSteps \/ CallerReads \/ DropResponse
    PROVE  CallInv'
<1>0. UNCHANGED <<send, handle, dropAt, queued, produced, answered>> /\ CancelInv'
  <2>1. UNCHANGED <<send, handle, dropAt, queued, produced, answered>>
    BY Zenon DEF ReaderSteps, ReadMessage, ReadTerminal, ReadEnd, GiveUp, Forward, ReaderDone,
                 CallerReads, DropResponse, server
  <2>2. Settle \/ UNCHANGED upload
    BY Zenon DEF ReaderSteps, ReadMessage, ReadTerminal, ReadEnd, GiveUp, Forward, ReaderDone,
                 CallerReads, DropResponse, server
  <2> QED
    BY <2>1, <2>2, SettleKeeps, Zenon
<1> USE DEF server
<1>10. ASSUME NEW how \in Ends \ {"running"}, end' \in {end, Ended(how)}, wire' \in Seq(WireFrames),
             (backlog \in Seq(Passed(end')) /\ frames \in Seq(Passed(end')) /\ received \in Seq(Passed(end')))
                 => PassedInv',
             WireInv'
      PROVE  CallInv'
  <2>1. end' \in Ends /\ ResultInv' /\ \A items : items \in Seq(Passed(end)) => items \in Seq(Passed(end'))
    BY <1>0, <1>10, EndKeeps, Zenon
  <2>2. PassedInv'
    BY <1>10, <2>1, Zenon DEF CallInv, PassedInv
  <2>3. TypeOK'
    BY <1>0, <1>10, <2>1, Zenon DEF CallInv, TypeOK
  <2> QED
    BY <1>0, <1>10, <2>1, <2>2, <2>3, Zenon DEF CallInv
<1>11. WireInv
  BY Zenon DEF CallInv
(* What is next on the wire is a message, or nothing but messages was there before it. *)
<1>12. wire # <<>> /\ Head(wire).kind # "message" => answered
  <2>1. ASSUME wire \in Seq(MessageFrames), wire # <<>> PROVE Head(wire).kind = "message"
    <3>1. Head(wire) \in MessageFrames
      BY <2>1
    <3>2. \A frame \in MessageFrames : frame.kind = "message"
      BY Zenon DEF MessageFrames
    <3> QED
      BY <3>1, <3>2, Zenon
  <2> QED
    BY <2>1, <1>11, Zenon DEF WireInv
<1>13. Head(<<Frame("cut", 0)>>).kind = "cut"
  BY DEF Frame
<1>1. CASE ReadMessage
  <2>1. Head(wire) \in MessageFrames /\ Tail(wire) \in Seq(WireFrames)
    <3>1. Head(wire) \in WireFrames /\ Tail(wire) \in Seq(WireFrames)
      BY <1>1 DEF ReadMessage, CallInv, TypeOK
    <3>2. Head(wire).kind = "message"
      BY <1>1, Zenon DEF ReadMessage
    <3>3. ASSUME NEW frame \in WireFrames, frame.kind = "message" PROVE frame \in MessageFrames
      BY <3>3, Zenon DEF WireFrames, MessageFrames
    <3> QED
      BY <3>1, <3>2, <3>3, Zenon
  <2>2. end' \in {end, Ended("backlog")} /\ wire' \in Seq(WireFrames)
    BY <1>1, <2>1, Zenon DEF ReadMessage
  <2>3. backlog' = Append(backlog, Head(wire)) /\ UNCHANGED <<frames, received>>
    BY <1>1, Zenon DEF ReadMessage
  <2>4. Head(wire) \in Passed(end')
    BY <2>1, Zenon DEF Passed
  <2>5. ASSUME backlog \in Seq(Passed(end')) PROVE backlog' \in Seq(Passed(end'))
    BY <2>3, <2>4, <2>5
  <2>6. WireInv'
    <3>1. wire # <<>> /\ wire' = Tail(wire) /\ reader = "reading" /\ Head(wire).kind = "message"
      BY <1>1, Zenon DEF ReadMessage
    <3>2. ASSUME wire \in Seq(MessageFrames) PROVE Tail(wire) \in Seq(MessageFrames)
      BY <3>1, <3>2
    <3>3. end \in {"running", "backlog"}
      BY <1>13, <1>11, <3>1, Zenon DEF WireInv
    <3>4. end' \in {"running", "backlog"}
      BY <2>2, <3>3, Zenon DEF Ended
    <3> QED
      BY <1>0, <1>11, <3>1, <3>2, <3>4, Zenon DEF WireInv
  <2> QED
    BY <1>10, <2>2, <2>3, <2>5, <2>6, Zenon DEF PassedInv, Ends
<1>2. CASE ReadTerminal
  <2>1. Item \in Terminal /\ Item \in Ends \ {"running"}
    BY Zenon DEF Item, Terminal, Ends
  <2>2. end' = Ended(Item) /\ backlog' = Append(backlog, Frame(Item, 0)) /\ UNCHANGED <<frames, received>>
    BY <1>2, Zenon DEF ReadTerminal
  <2>3. wire' \in Seq(WireFrames)
    BY <1>2 DEF ReadTerminal, Frame, WireFrames
  <2>4. end \in {"running", "backlog"} /\ answered /\ wire' = <<Frame("cut", 0)>>
    <3>1. reader = "reading" /\ wire # <<>> /\ Head(wire).kind \in {"ok", "error", "lost"}
          /\ wire' = <<Frame("cut", 0)>>
      BY <1>2, Zenon DEF ReadTerminal
    <3> QED
      BY <1>13, <1>12, <1>11, <3>1, Zenon DEF WireInv
  <2>5. Frame(Item, 0) \in Passed(end')
    <3>1. end' \in {Item, "backlog"}
      BY <2>2, <2>4, Zenon DEF Ended
    <3>2. \A item \in Terminal, how \in Ends : how \in {item, "backlog"} => Frame(item, 0) \in Passed(how)
      BY DEF Frame, Passed
    <3> QED
      BY <2>1, <3>1, <3>2, Zenon DEF Ends
  <2>6. ASSUME backlog \in Seq(Passed(end')) PROVE backlog' \in Seq(Passed(end'))
    BY <2>2, <2>5, <2>6
  <2>7. WireInv'
    BY <1>0, <2>4, Zenon DEF WireInv
  <2> QED
    BY <1>10, <2>1, <2>2, <2>3, <2>6, <2>7, Zenon DEF PassedInv
<1>3. CASE ReadEnd
  <2>1. end' = Ended("unknown") /\ UNCHANGED <<backlog, frames, received>> /\ wire' = <<>>
        /\ reader' = "ended" /\ wire # <<>> /\ Head(wire).kind = "cut"
    BY <1>3, Zenon DEF ReadEnd
  <2>2. WireInv'
    BY <1>0, <1>12, <2>1, Zenon DEF WireInv
  <2> QED
    BY <1>10, <2>1, <2>2, EmptyWire, Zenon DEF PassedInv, Ends
<1>4. CASE GiveUp \/ ReaderDone
  <2>1. end' \in {end, Ended("backlog")} /\ UNCHANGED <<backlog, frames, received, wire>>
    BY <1>4, Zenon DEF GiveUp, ReaderDone, Ended
  <2>2. WireInv'
    BY <1>0, <1>4, <1>11, <2>1, Zenon DEF WireInv, GiveUp, ReaderDone
  <2>3. wire' \in Seq(WireFrames)
    BY <2>1, Zenon DEF CallInv, TypeOK
  <2> QED
    BY <1>10, <2>1, <2>2, <2>3, Zenon DEF PassedInv, Ends
<1>5. CASE Forward
  <2>1. UNCHANGED <<end, wire, reader, received>>
    BY <1>5, Zenon DEF Forward
  <2>2. ASSUME backlog \in Seq(Passed(end)), frames \in Seq(Passed(end))
        PROVE  backlog' \in Seq(Passed(end)) /\ frames' \in Seq(Passed(end))
    BY <1>5, <2>2 DEF Forward
  <2>3. WireInv' /\ wire' \in Seq(WireFrames) /\ "ok" \in Ends \ {"running"}
    BY <1>0, <1>11, <2>1, Zenon DEF WireInv, CallInv, TypeOK, Ends
  <2>4. PassedInv'
    BY <2>1, <2>2, Zenon DEF CallInv, PassedInv
  <2> QED
    BY <1>10, <2>1, <2>3, <2>4, Zenon
<1>6. CASE CallerReads
  <2>1. UNCHANGED <<end, wire, reader, backlog>>
    BY <1>6, Zenon DEF CallerReads
  <2>2. ASSUME received \in Seq(Passed(end)), frames \in Seq(Passed(end))
        PROVE  received' \in Seq(Passed(end)) /\ frames' \in Seq(Passed(end))
    BY <1>6, <2>2 DEF CallerReads
  <2>3. WireInv' /\ wire' \in Seq(WireFrames) /\ "ok" \in Ends \ {"running"}
    BY <1>0, <1>11, <2>1, Zenon DEF WireInv, CallInv, TypeOK, Ends
  <2>4. PassedInv'
    BY <2>1, <2>2, Zenon DEF CallInv, PassedInv
  <2> QED
    BY <1>10, <2>1, <2>3, <2>4, Zenon
<1>7. CASE DropResponse
  <2>1. end' = Ended("unknown") /\ backlog' = <<>> /\ frames' = <<>> /\ wire' = <<>> /\ UNCHANGED received
        /\ reader' = "dropped"
    BY <1>7, Zenon DEF DropResponse
  <2>2. WireInv'
    BY <2>1, EmptyWire, Zenon DEF WireInv
  <2> QED
    BY <1>10, <2>1, <2>2, EmptyWire, Zenon DEF PassedInv, Ends
<1> QED
  BY <1>1, <1>2, <1>3, <1>4, <1>5, <1>6, <1>7, Zenon DEF ReaderSteps

(* The invariant holds in every behaviour of a call. *)
THEOREM CallInductive == StreamingSpec => []CallInv
<1>1. ASSUME CallInv, [StreamingNext]_streamingVars PROVE CallInv'
  <2>1. CASE UNCHANGED streamingVars
    BY <1>1, <2>1, Zenon DEF streamingVars, server, response, CallInv, TypeOK, PassedInv,
                              ResultInv, CancelInv, WireInv
  <2> QED
    BY <1>1, <2>1, SendKeeps, UploadKeeps, ServerKeeps, ReaderKeeps, Zenon DEF StreamingNext
<1> QED
  BY <1>1, CallInitial, PTL DEF StreamingSpec

(* However sends, upload, reader and caller interleave, what a send fails with is what the         *)
(* response tells (End::error, EndSender::end), and the request stream of a dropped sender ends    *)
(* cleanly only if Cancel came between the two polls of the poll_next that ends it                 *)
(* (RequestMessageStream, Drop for RequestSender).                                                 *)
THEOREM TheHalvesAgree == StreamingSpec => []HalvesAgree
<1>1. CallInv => SendsAgree
  <2> SUFFICES ASSUME CallInv, NEW s \in Sends, NEW item \in Told
               PROVE  /\ send[s] = "status" => item = "error"
                      /\ send[s] = "failed" => item = "failure"
                      /\ send[s] = "cancelled" /\ handle # "finished" => item = "ok"
    BY Zenon DEF SendsAgree
  <2>1. backlog \o frames \o received \in Seq(Passed(end))
    BY DEF CallInv, PassedInv
  <2>2. PICK i \in DOMAIN (backlog \o frames \o received) :
            Frame(item, 0) = (backlog \o frames \o received)[i]
    BY Zenon DEF Range, Told
  <2>3. Frame(item, 0) \in Passed(end) /\ item \in Terminal
    BY <2>1, <2>2 DEF Told
  <2>4. end \in {item, "backlog"}
    BY <2>3 DEF Passed, Frame, MessageFrames, Terminal
  <2> QED
    BY <2>3, <2>4, Zenon DEF CallInv, ResultInv, Terminal
<1>2. CallInv => CleanUnlessMissed
  BY Zenon DEF CallInv, CancelInv, CleanUnlessMissed
<1> QED
  BY <1>1, <1>2, CallInductive, PTL DEF HalvesAgree

-----------------------------------------------------------------------------
(* StreamContexts.  What ties the two ends together is the path: its frames, taken one after the   *)
(* other, lead from the state the receiver's context is in to the state the sender's is in.        *)

OptDicts == Dicts \cup {"none"}
Contexts == [live : BOOLEAN, dict : OptDicts, history : Seq(Nat)]
MessagesSent == [id : Nat, len : Lengths]
Chunks == [empty : {TRUE}]
          \cup [empty : {FALSE}, header : BOOLEAN, dict : OptDicts, last : BOOLEAN, against : Seq(Nat)]
Frames == [kind : {"stream", "zstd", "message"}, message : MessagesSent, chunk : Chunks, dict : OptDicts]
Senders == [dict : OptDicts, enabled : BOOLEAN, sent : Nat, state : {"waiting", "active", "off"},
            context : Contexts, inFrame : Nat]
Inflaters == [accept : SUBSET Dicts, context : Contexts, atFrameStart : BOOLEAN, count : Nat]

ContextTypes ==
    /\ inflater \in Inflaters /\ path \in Seq(Frames)
    /\ log \in Seq(MessagesSent) /\ decoded \in Seq(MessagesSent) /\ ended \in BOOLEAN

(* What a decoder must have seen before the next chunk: nothing at the start of a frame, and       *)
(* within one its dictionary and its messages.                                                     *)
Points == [start : BOOLEAN, dict : OptDicts, history : Seq(Nat)]
Point(start, dict, history) ==
    IF start THEN [start |-> TRUE, dict |-> "none", history |-> <<>>]
    ELSE [start |-> FALSE, dict |-> dict, history |-> history]
FrameStart == Point(TRUE, "none", <<>>)

(* A frame takes a decoder that accepts these dictionaries from point p to point q. *)
Takes(accept, p, frame, q) ==
    IF frame.kind # "stream" \/ frame.chunk.empty
    THEN /\ q = p
         /\ frame.kind = "stream" => frame.message.len = 0
         /\ frame.kind = "zstd" => frame.dict \in accept
    ELSE /\ frame.chunk.header = p.start
         /\ frame.chunk.dict \in accept \cup {"none"}
         /\ p.start => frame.chunk.against = <<>>
         /\ ~p.start => frame.chunk.dict = p.dict /\ frame.chunk.against = p.history
         /\ q = Point(frame.chunk.last, frame.chunk.dict,
                      Append(frame.chunk.against, frame.message.id))

(* The points that the frames of a path take a decoder through. *)
Chain(accept, route, f) ==
    /\ f \in [0..Len(route) -> Points]
    /\ \A i \in 1..Len(route) : Takes(accept, f[i - 1], route[i], f[i])

ReceiverPoint == Point(inflater.atFrameStart, inflater.context.dict, inflater.context.history)
SenderPoint(s) == Point(s.context.history = <<>>, s.context.dict, s.context.history)
(* Where a sender may be while its frames lead to point p. *)
LeadsTo(s, p) ==
    (s.state = "waiting" => p = FrameStart) /\ (s.state = "active" => p = SenderPoint(s))

(* The frames on their way lead from where the receiver is to where the sender is. *)
InStep ==
    \E f \in [0..Len(path) -> Points] :
        /\ Chain(inflater.accept, path, f)
        /\ f[0] = ReceiverPoint /\ LeadsTo(sender, f[Len(path)])

ValidSender(s) ==
    /\ s \in Senders /\ s.dict \in inflater.accept \cup {"none"}
    /\ s.state = "active" =>
           s.inFrame < FrameLimit /\ s.context.dict \in inflater.accept \cup {"none"}
ReceiverInv == ~inflater.atFrameStart => inflater.context.live

(* The messages decoded and those on their way are those sent. *)
InOrder ==
    /\ \A i \in 1..Len(decoded) : log[i] = decoded[i]
    /\ ~ended => /\ Len(log) = Len(decoded) + Len(path)
                 /\ \A i \in 1..Len(path) : log[Len(decoded) + i] = path[i].message
    /\ ended => Len(decoded) < Len(log) /\ log[Len(decoded) + 1].len > MaxLen

ContextInv ==
    ContextTypes /\ ValidSender(sender) /\ ReceiverInv /\ InOrder /\ (~ended => InStep)

(* A point is one. *)
LEMMA PointType ==
    ASSUME NEW start \in BOOLEAN, NEW dict \in OptDicts, NEW history \in Seq(Nat)
    PROVE  Point(start, dict, history) \in Points
<1>1. <<>> \in Seq(Nat) /\ "none" \in OptDicts
  BY DEF OptDicts
<1> QED
  BY <1>1, Zenon DEF Point, Points

(* The points of a path with one more frame, and of a path without its first. *)
Extended(f, n, q) == [i \in 0..(n + 1) |-> IF i = n + 1 THEN q ELSE f[i]]
Shifted(f, n) == [i \in 0..(n - 1) |-> f[i + 1]]

(* A frame appended to a path leads on from where the path leads. *)
LEMMA ChainAppend ==
    ASSUME NEW accept, NEW route \in Seq(Frames), NEW f, Chain(accept, route, f),
           NEW frame \in Frames, NEW q \in Points, Takes(accept, f[Len(route)], frame, q),
           NEW g, g = Extended(f, Len(route), q)
    PROVE  Chain(accept, Append(route, frame), g) /\ g[0] = f[0] /\ g[Len(route) + 1] = q
<1> DEFINE n == Len(route)
           more == Append(route, frame)
<1>1. /\ n \in Nat /\ Len(more) = n + 1 /\ more[n + 1] = frame
      /\ \A i \in 1..n : more[i] = route[i]
  OBVIOUS
<1>2. f \in [0..n -> Points] /\ \A i \in 1..n : Takes(accept, f[i - 1], route[i], f[i])
  BY Zenon DEF Chain
<1> HIDE DEF n, more
<1>3. g \in [0..(n + 1) -> Points]
  BY <1>1, <1>2 DEF Extended, n
<1>4. g[n + 1] = q /\ \A i \in 0..n : g[i] = f[i]
  BY <1>1 DEF Extended, n
<1>5. \A i \in 1..n : Takes(accept, g[i - 1], more[i], g[i])
  <2> SUFFICES ASSUME NEW i \in 1..n PROVE Takes(accept, g[i - 1], more[i], g[i])
    BY Zenon
  <2>1. i \in 0..n /\ i - 1 \in 0..n
    BY <1>1
  <2> QED
    BY <1>1, <1>2, <1>4, <2>1, Zenon
<1>6. \A i \in 1..(n + 1) : i \in 1..n \/ i = n + 1
  BY <1>1
<1>7. Chain(accept, more, g)
  <2>1. \A i \in 1..(n + 1) : Takes(accept, g[i - 1], more[i], g[i])
    <3> TAKE i \in 1..(n + 1)
    <3>1. CASE i \in 1..n
      BY <1>5, <3>1, Zenon
    <3>2. CASE i = n + 1
      <4>1. i - 1 = n /\ n \in 0..n
        BY <1>1, <3>2
      <4>2. g[i - 1] = f[n] /\ more[i] = frame /\ g[i] = q
        BY <1>1, <1>4, <3>2, <4>1, Zenon
      <4> QED
        BY <4>2, Zenon DEF n
    <3> QED
      BY <1>6, <3>1, <3>2, Zenon
  <2> QED
    BY <1>1, <1>3, <2>1, Zenon DEF Chain
<1>8. g[0] = f[0]
  BY <1>1, <1>4
<1> QED
  BY <1>4, <1>7, <1>8, Zenon DEF n, more

(* Without its first frame, a path leads on from where that frame led. *)
LEMMA ChainTail ==
    ASSUME NEW accept, NEW route \in Seq(Frames), route # <<>>, NEW f, Chain(accept, route, f),
           NEW g, g = Shifted(f, Len(route))
    PROVE  Chain(accept, Tail(route), g) /\ g[0] = f[1] /\ g[Len(route) - 1] = f[Len(route)]
<1> DEFINE n == Len(route)
           rest == Tail(route)
<1>1. /\ n \in Nat \ {0} /\ Len(rest) = n - 1
      /\ \A i \in 1..(n - 1) : rest[i] = route[i + 1]
  OBVIOUS
<1>2. f \in [0..n -> Points] /\ \A i \in 1..n : Takes(accept, f[i - 1], route[i], f[i])
  BY Zenon DEF Chain
<1> HIDE DEF n, rest
<1>3. g \in [0..(n - 1) -> Points]
  BY <1>1, <1>2 DEF Shifted, n
<1>4. \A i \in 0..(n - 1) : g[i] = f[i + 1]
  BY Zenon DEF Shifted, n
<1>5. ASSUME NEW i \in 1..(n - 1) PROVE Takes(accept, g[i - 1], rest[i], g[i])
  <2>1. i \in 0..(n - 1) /\ i - 1 \in 0..(n - 1) /\ (i - 1) + 1 = i /\ (i + 1) - 1 = i /\ i + 1 \in 1..n
    BY <1>1
  <2>2. Takes(accept, f[(i + 1) - 1], route[i + 1], f[i + 1])
    BY <1>2, <2>1, Zenon
  <2>3. g[i - 1] = f[i] /\ g[i] = f[i + 1] /\ rest[i] = route[i + 1]
    BY <1>1, <1>4, <2>1, Zenon
  <2> QED
    BY <2>1, <2>2, <2>3, Zenon
<1>6. Chain(accept, rest, g)
  BY <1>1, <1>3, <1>5, Zenon DEF Chain
<1>7. g[0] = f[1] /\ g[n - 1] = f[n]
  <2>1. 0 \in 0..(n - 1) /\ n - 1 \in 0..(n - 1) /\ 0 + 1 = 1 /\ (n - 1) + 1 = n
    BY <1>1
  <2> QED
    BY <1>4, <2>1, Zenon
<1> QED
  BY <1>1, <1>6, <1>7, Zenon DEF rest, n

(* StreamSender::start begins where the receiver's next frame does. *)
LEMMA Starting ==
    ASSUME ContextInv, NEW room \in BOOLEAN, NEW p \in Points, LeadsTo(sender, p),
           NEW s, s = Started([sender EXCEPT !.sent = @ + 1], room)
    PROVE  ValidSender(s) /\ LeadsTo(s, p)
<1> DEFINE counted == [sender EXCEPT !.sent = @ + 1]
<1>1. /\ sender \in Senders /\ sender.sent + 1 \in Nat /\ inflater.accept \subseteq Dicts
      /\ sender.dict \in inflater.accept \cup {"none"}
  BY DEF ContextInv, ContextTypes, ValidSender, Senders, Inflaters
<1>2. /\ counted \in Senders /\ counted.state = sender.state /\ counted.context = sender.context
      /\ counted.inFrame = sender.inFrame /\ counted.dict = sender.dict
  BY <1>1, Zenon DEF Senders
<1>3. ValidSender(counted) /\ LeadsTo(counted, p)
  BY <1>2, Zenon DEF ContextInv, ValidSender, LeadsTo, SenderPoint
<1> HIDE DEF counted
<1>4. CASE ~MayStart
  BY <1>3, <1>4, Zenon DEF Started, counted
<1>5. CASE MayStart /\ ~room
  <2>1. s = [counted EXCEPT !.state = "off"]
    BY <1>5, Zenon DEF Started, counted
  <2>2. s \in Senders /\ s.state = "off" /\ s.dict = counted.dict
    BY <1>2, <2>1, Zenon DEF Senders
  <2> QED
    BY <1>1, <1>2, <2>2, Zenon DEF ValidSender, LeadsTo
<1>6. CASE MayStart /\ room
  <2> DEFINE context == Context(sender.dict)
  <2>1. s = [counted EXCEPT !.state = "active", !.context = context, !.inFrame = 0]
    BY <1>2, <1>6, Zenon DEF Started, counted
  <2>2. /\ context \in Contexts /\ context.history = <<>>
        /\ context.dict \in inflater.accept \cup {"none"}
    <3>1. <<>> \in Seq(Nat) /\ sender.dict \in OptDicts /\ "none" \in OptDicts
      BY <1>1 DEF OptDicts
    <3> QED
      BY <1>1, <3>1, Zenon DEF Context, Contexts
  <2> HIDE DEF context
  <2>3. 0 \in Nat /\ 0 < FrameLimit
    BY ContextLimits
  <2>4. /\ s \in Senders /\ s.state = "active" /\ s.dict = sender.dict /\ s.context = context
        /\ s.inFrame = 0
    BY <1>2, <2>1, <2>2, <2>3, ZenonT(30) DEF Senders
  <2>5. p = FrameStart
    BY <1>6, Zenon DEF MayStart, LeadsTo
  <2>6. SenderPoint(s) = FrameStart
    BY <2>2, <2>4, Zenon DEF SenderPoint, FrameStart, Point
  <2> QED
    BY <1>1, <2>2, <2>3, <2>4, <2>5, <2>6, Zenon DEF ValidSender, LeadsTo
<1> QED
  BY <1>4, <1>5, <1>6, Zenon

(* A message in its context leads on to where the sender then is. *)
LEMMA Streaming ==
    ASSUME ContextInv, NEW s, ValidSender(s), s.state = "active",
           NEW message \in MessagesSent, NEW frame \in Frames, frame.kind = "stream",
           frame.message = message,
           frame.chunk = Chunk(s.context, message, s.inFrame + message.len >= FrameLimit),
           NEW t, t = Encoded(s, message)
    PROVE  ValidSender(t) /\ SenderPoint(t) \in Points
           /\ Takes(inflater.accept, SenderPoint(s), frame, SenderPoint(t))
<1> DEFINE h == s.context.history
           ends == s.inFrame + message.len >= FrameLimit
           inFrame == IF ends THEN 0 ELSE s.inFrame + message.len
           more == IF message.len = 0 THEN h ELSE Append(h, message.id)
           history == IF ends THEN <<>> ELSE more
<1>1. /\ s \in Senders /\ s.context \in Contexts /\ h \in Seq(Nat) /\ message.id \in Nat
      /\ message.len \in Nat /\ s.inFrame \in Nat /\ s.inFrame < FrameLimit
      /\ s.context.dict \in inflater.accept \cup {"none"} /\ s.context.dict \in OptDicts
  BY ContextLimits, Zenon DEF ValidSender, Senders, Contexts, MessagesSent
<1>2. /\ inFrame \in Nat /\ inFrame < FrameLimit /\ history \in Seq(Nat)
      /\ Append(h, message.id) \in Seq(Nat) /\ Append(h, message.id) # <<>>
  <2>1. Append(h, message.id) \in Seq(Nat) /\ Append(h, message.id) # <<>> /\ <<>> \in Seq(Nat)
    <3> HIDE DEF h
    <3> QED
      BY <1>1
  <2>2. inFrame \in Nat /\ inFrame < FrameLimit
    BY <1>1, ContextLimits
  <2> HIDE DEF inFrame, ends, h
  <2> QED
    BY <1>1, <2>1, <2>2, Zenon
<1>3. t = [s EXCEPT !.inFrame = inFrame, !.context.history = history]
  BY Zenon DEF Encoded
<1> HIDE DEF inFrame, history
<1>4. /\ t \in Senders /\ t.state = "active" /\ t.dict = s.dict /\ t.inFrame = inFrame
      /\ t.context.history = history /\ t.context.dict = s.context.dict
  <2> DEFINE context == [s.context EXCEPT !.history = history]
  <2>1. context \in Contexts /\ context.history = history /\ context.dict = s.context.dict
    BY <1>1, <1>2, Zenon DEF Contexts
  <2>2. t = [s EXCEPT !.inFrame = inFrame, !.context = context]
    BY <1>3, Zenon
  <2> HIDE DEF context
  <2> QED
    BY <1>1, <1>2, <2>1, <2>2, Zenon DEF Senders
<1>5. ValidSender(t)
  BY <1>1, <1>2, <1>4, Zenon DEF ValidSender
<1>6. SenderPoint(t) \in Points
  BY <1>1, <1>2, <1>4, PointType, Zenon DEF SenderPoint
<1>7. CASE message.len = 0
  <2>1. history = h
    <3>1. ~ends
      BY <1>1, <1>7, ContextLimits
    <3> HIDE DEF ends, h
    <3> QED
      BY <1>7, <3>1, Zenon DEF history
  <2>2. frame.chunk.empty
    BY <1>7 DEF Chunk
  <2>3. SenderPoint(t) = SenderPoint(s)
    BY <1>4, <2>1, Zenon DEF SenderPoint
  <2> QED
    BY <1>5, <1>6, <1>7, <2>2, <2>3, Zenon DEF Takes
<1>8. CASE message.len # 0
  <2>1. /\ ~frame.chunk.empty /\ frame.chunk.header = (h = <<>>) /\ frame.chunk.dict = s.context.dict
        /\ frame.chunk.last = ends /\ frame.chunk.against = h
    BY <1>8 DEF Chunk
  <2>2. history = IF ends THEN <<>> ELSE Append(h, message.id)
    BY <1>8, Zenon DEF history
  <2>3. (history = <<>>) = ends
    BY <1>2, <2>2
  <2> HIDE DEF ends, h
  <2>4. SenderPoint(t) = Point(ends, s.context.dict, Append(h, message.id))
    BY <1>4, <2>2, <2>3, Zenon DEF SenderPoint, Point
  <2>5. /\ SenderPoint(s).start = (h = <<>>)
        /\ h # <<>> => SenderPoint(s).dict = s.context.dict /\ SenderPoint(s).history = h
    BY Zenon DEF SenderPoint, Point, h
  <2> QED
    BY <1>1, <1>5, <1>6, <2>1, <2>4, <2>5, Zenon DEF Takes
<1> QED
  BY <1>7, <1>8, Zenon

(* A frame that leads on to where the sender then is may be sent. *)
LEMMA PathGrows ==
    ASSUME ContextInv, ~ended, NEW f, Chain(inflater.accept, path, f), f[0] = ReceiverPoint,
           NEW frame \in Frames, NEW q \in Points, Takes(inflater.accept, f[Len(path)], frame, q),
           path' = Append(path, frame), log' = Append(log, frame.message),
           UNCHANGED <<inflater, decoded, ended>>, ValidSender(sender'), LeadsTo(sender', q)
    PROVE  ContextInv'
<1>1. path \in Seq(Frames) /\ log \in Seq(MessagesSent) /\ frame.message \in MessagesSent
  BY Zenon DEF ContextInv, ContextTypes, Frames
<1>2. path' \in Seq(Frames) /\ log' \in Seq(MessagesSent)
  BY <1>1
<1>3. ContextTypes' /\ ValidSender(sender)' /\ ReceiverInv'
  BY <1>2, Zenon DEF ContextInv, ContextTypes, ValidSender, ReceiverInv
<1>4. InOrder'
  <2>1. /\ Len(path) \in Nat /\ Len(log) \in Nat /\ Len(decoded) \in Nat
        /\ Len(log) = Len(decoded) + Len(path)
        /\ \A i \in 1..Len(decoded) : log[i] = decoded[i]
        /\ \A i \in 1..Len(path) : log[Len(decoded) + i] = path[i].message
    BY DEF ContextInv, ContextTypes, InOrder
  <2>2. /\ Len(path') = Len(path) + 1 /\ path'[Len(path) + 1] = frame
        /\ \A i \in 1..Len(path) : path'[i] = path[i]
    BY <1>1
  <2>3. /\ Len(log') = Len(log) + 1 /\ log'[Len(log) + 1] = frame.message
        /\ \A i \in 1..Len(log) : log'[i] = log[i]
    BY <1>1
  <2>4. \A i \in 1..Len(decoded) : log'[i] = decoded[i]
    BY <2>1, <2>3
  <2>5. \A i \in 1..(Len(path) + 1) : log'[Len(decoded) + i] = path'[i].message
    <3>1. ASSUME NEW i \in 1..Len(path) PROVE log'[Len(decoded) + i] = path'[i].message
      <4>1. Len(decoded) + i \in 1..Len(log)
        BY <2>1
      <4> QED
        BY <2>1, <2>2, <2>3, <4>1, Zenon
    <3>2. log'[Len(decoded) + (Len(path) + 1)] = path'[Len(path) + 1].message
      <4>1. Len(decoded) + (Len(path) + 1) = Len(log) + 1
        BY <2>1
      <4> QED
        BY <2>2, <2>3, <4>1, Zenon
    <3>3. \A i \in 1..(Len(path) + 1) : i \in 1..Len(path) \/ i = Len(path) + 1
      BY <2>1
    <3> QED
      BY <3>1, <3>2, <3>3, Zenon
  <2>6. Len(log') = Len(decoded) + Len(path')
    BY <2>1, <2>2, <2>3
  <2> QED
    BY <2>2, <2>4, <2>5, <2>6, Zenon DEF InOrder
<1>5. InStep'
  <2> DEFINE g == Extended(f, Len(path), q)
  <2>1. Chain(inflater.accept, Append(path, frame), g) /\ g[0] = f[0] /\ g[Len(path) + 1] = q
    <3> HIDE DEF g
    <3>1. g = Extended(f, Len(path), q)
      BY Zenon DEF g
    <3> QED
      BY <1>1, <3>1, ChainAppend
  <2> HIDE DEF g
  <2>2. Len(path') = Len(path) + 1
    BY <1>1
  <2>3. ReceiverPoint' = ReceiverPoint /\ inflater'.accept = inflater.accept
    BY Zenon DEF ReceiverPoint
  <2>4. g \in [0..Len(path') -> Points]
    BY <2>1, Zenon DEF Chain
  <2> QED
    BY <2>1, <2>2, <2>3, <2>4, Zenon DEF InStep
<1> QED
  BY <1>3, <1>4, <1>5, Zenon DEF ContextInv

(* MessageEncoder::encode, however it sends the message. *)
LEMMA Encoding ==
    ASSUME ContextInv, NEW len \in Lengths, NEW room \in BOOLEAN, NEW works \in BOOLEAN,
           NEW shorter \in BOOLEAN, Encode(len, room, works, shorter)
    PROVE  ContextInv'
<1> DEFINE message == [id |-> Len(log) + 1, len |-> len]
           s == Started([sender EXCEPT !.sent = @ + 1], room)
           alone == IF shorter /\ s.dict # "none" THEN "zstd" ELSE "message"
           chunk == Chunk(s.context, message, s.inFrame + len >= FrameLimit)
           streamed == [kind |-> "stream", message |-> message, chunk |-> chunk, dict |-> s.dict]
           single == [kind |-> alone, message |-> message, chunk |-> [empty |-> TRUE], dict |-> s.dict]
<1>1. /\ ~ended /\ log' = Append(log, message) /\ UNCHANGED <<inflater, decoded, ended>>
      /\ (s.state = "active" /\ works) =>
            sender' = Encoded(s, message) /\ path' = Append(path, streamed)
      /\ ~(s.state = "active" /\ works) =>
            /\ sender' = IF s.state = "active" THEN Failed(s, message) ELSE s
            /\ path' = Append(path, single)
  BY Zenon DEF Encode
<1>2. PICK f \in [0..Len(path) -> Points] : /\ Chain(inflater.accept, path, f)
                                            /\ f[0] = ReceiverPoint /\ LeadsTo(sender, f[Len(path)])
  BY <1>1, Zenon DEF ContextInv, InStep
<1>3. f[Len(path)] \in Points
  <2>1. Len(path) \in 0..Len(path)
    BY DEF ContextInv, ContextTypes
  <2> QED
    BY <1>2, <2>1, Zenon
<1>4. ValidSender(s) /\ LeadsTo(s, f[Len(path)])
  BY <1>2, <1>3, Starting, Zenon
<1>5. message \in MessagesSent /\ message.len = len
  BY DEF ContextInv, ContextTypes, MessagesSent
<1>6. /\ s \in Senders /\ s.dict \in OptDicts /\ s.dict \in inflater.accept \cup {"none"}
      /\ s.context \in Contexts
  BY <1>4, Zenon DEF ValidSender, Senders
<1> HIDE DEF s, message
<1>7. CASE s.state = "active" /\ works
  <2>1. streamed \in Frames
    <3>1. chunk \in Chunks
      <4>1. CASE message.len = 0
        BY <4>1, Zenon DEF Chunk, Chunks
      <4>2. CASE message.len # 0
        <5>1. /\ (s.context.history = <<>>) \in BOOLEAN /\ (s.inFrame + len >= FrameLimit) \in BOOLEAN
              /\ s.context.dict \in OptDicts /\ s.context.history \in Seq(Nat)
          BY <1>6 DEF Contexts
        <5> QED
          BY <4>2, <5>1, Zenon DEF Chunk, Chunks
      <4> QED
        BY <4>1, <4>2, Zenon
    <3> HIDE DEF chunk
    <3> QED
      BY <1>5, <1>6, <3>1, Zenon DEF Frames
  <2>2. streamed.kind = "stream" /\ streamed.message = message /\ streamed.chunk = chunk
    BY Zenon
  <2> HIDE DEF streamed
  <2>3. /\ ValidSender(sender') /\ SenderPoint(sender') \in Points
        /\ Takes(inflater.accept, SenderPoint(s), streamed, SenderPoint(sender'))
    BY <1>1, <1>4, <1>5, <1>7, <2>1, <2>2, Streaming, Zenon
  <2>4. f[Len(path)] = SenderPoint(s)
    BY <1>4, <1>7, Zenon DEF LeadsTo
  <2>5. sender'.state = "active"
    BY <1>1, <1>6, <1>7, Zenon DEF Encoded, Senders
  <2>6. LeadsTo(sender', SenderPoint(sender'))
    BY <2>5, Zenon DEF LeadsTo
  <2> QED
    BY <1>1, <1>2, <1>7, <2>1, <2>2, <2>3, <2>4, <2>6, PathGrows, Zenon
<1>8. CASE ~(s.state = "active" /\ works)
  <2>1. /\ single \in Frames /\ single.message = message /\ single.kind # "stream"
        /\ single.kind = "zstd" => single.dict \in inflater.accept
    BY <1>5, <1>6, Zenon DEF Frames, Chunks
  <2> HIDE DEF single
  <2>2. Takes(inflater.accept, f[Len(path)], single, f[Len(path)])
    BY <2>1, Zenon DEF Takes
  <2>3. ValidSender(sender') /\ LeadsTo(sender', f[Len(path)])
    <3>1. CASE s.state = "active"
      <4>1. sender' = [s EXCEPT !.state = "off", !.context = NoContext]
        BY <1>1, <1>8, <3>1, Zenon DEF Failed
      <4>2. NoContext \in Contexts
        <5>1. <<>> \in Seq(Nat) /\ "none" \in OptDicts
          BY DEF OptDicts
        <5> QED
          BY <5>1, Zenon DEF NoContext, Contexts
      <4>3. sender' \in Senders /\ sender'.state = "off" /\ sender'.dict = s.dict
        BY <1>6, <4>1, <4>2, Zenon DEF Senders
      <4> QED
        BY <1>6, <4>3, Zenon DEF ValidSender, LeadsTo
    <3>2. CASE s.state # "active"
      BY <1>1, <1>4, <1>8, <3>2, Zenon
    <3> QED
      BY <3>1, <3>2, Zenon
  <2> QED
    BY <1>1, <1>2, <1>3, <1>8, <2>1, <2>2, <2>3, PathGrows, Zenon
<1> QED
  BY <1>7, <1>8, Zenon

(* The receiver decodes the first frame and is where that leads. *)
LEMMA PathShrinks ==
    ASSUME ContextInv, ~ended, path # <<>>, NEW f, Chain(inflater.accept, path, f),
           LeadsTo(sender, f[Len(path)]), path' = Tail(path), UNCHANGED <<sender, log>>,
           decoded' = Append(decoded, Head(path).message), ended' = ended,
           inflater' \in Inflaters, inflater'.accept = inflater.accept, ReceiverInv',
           ReceiverPoint' = f[1]
    PROVE  ContextInv'
<1>1. /\ path \in Seq(Frames) /\ decoded \in Seq(MessagesSent) /\ Head(path) \in Frames
      /\ Head(path) = path[1] /\ Head(path).message \in MessagesSent
  <2>1. path \in Seq(Frames) /\ decoded \in Seq(MessagesSent)
    BY Zenon DEF ContextInv, ContextTypes
  <2>2. Head(path) \in Frames /\ Head(path) = path[1]
    BY <2>1
  <2> QED
    BY <2>1, <2>2, Zenon DEF Frames
<1>2. path' \in Seq(Frames) /\ decoded' \in Seq(MessagesSent)
  BY <1>1
<1>3. ContextTypes' /\ ValidSender(sender)'
  BY <1>2, Zenon DEF ContextInv, ContextTypes, ValidSender
<1>4. InOrder'
  <2> DEFINE d == Len(decoded)
             n == Len(path)
  <2>1. /\ n \in Nat \ {0} /\ Len(log) = d + n /\ d \in Nat
        /\ \A i \in 1..d : log[i] = decoded[i]
        /\ \A i \in 1..n : log[d + i] = path[i].message
    BY <1>1 DEF ContextInv, InOrder
  <2>2. Len(path') = n - 1 /\ \A i \in 1..(n - 1) : path'[i] = path[i + 1]
    BY <1>1
  <2>3. /\ Len(decoded') = d + 1 /\ decoded'[d + 1] = path[1].message
        /\ \A i \in 1..d : decoded'[i] = decoded[i]
    BY <1>1
  <2> HIDE DEF n, d
  <2>4. \A i \in 1..(d + 1) : log[i] = decoded'[i]
    BY <2>1, <2>3
  <2>5. \A i \in 1..(n - 1) : log[(d + 1) + i] = path'[i].message
    <3> SUFFICES ASSUME NEW i \in 1..(n - 1) PROVE log[(d + 1) + i] = path'[i].message
      BY Zenon
    <3>1. i + 1 \in 1..n /\ d + (i + 1) = (d + 1) + i
      BY <2>1
    <3> QED
      BY <2>1, <2>2, <3>1, Zenon
  <2>6. Len(log) = (d + 1) + (n - 1)
    BY <2>1
  <2> QED
    BY <2>2, <2>3, <2>4, <2>5, <2>6, ZenonT(30) DEF InOrder
<1>5. InStep'
  <2> DEFINE g == Shifted(f, Len(path))
  <2>1. Chain(inflater.accept, Tail(path), g) /\ g[0] = f[1] /\ g[Len(path) - 1] = f[Len(path)]
    <3> HIDE DEF g
    <3>1. g = Shifted(f, Len(path))
      BY Zenon DEF g
    <3> QED
      BY <1>1, <3>1, ChainTail
  <2> HIDE DEF g
  <2>2. Len(path') = Len(path) - 1
    BY <1>1
  <2>3. g \in [0..Len(path') -> Points]
    BY <2>1, Zenon DEF Chain
  <2> QED
    BY <2>1, <2>2, <2>3, Zenon DEF InStep
<1> QED
  BY <1>3, <1>4, <1>5, Zenon DEF ContextInv

(* A message is only rejected for its length. *)
LEMMA Rejecting ==
    ASSUME ContextInv, ~ended, path # <<>>, Head(path).message.len > MaxLen, RejectFrame,
           path' = Tail(path), UNCHANGED <<sender, log>>
    PROVE  ContextInv'
<1>1. path \in Seq(Frames)
  BY Zenon DEF ContextInv, ContextTypes
<1>2. path' \in Seq(Frames) /\ Head(path) = path[1] /\ Len(path) \in Nat \ {0}
  BY <1>1
<1>3. ended' /\ UNCHANGED <<inflater, decoded>>
  BY Zenon DEF RejectFrame
<1>4. ContextTypes' /\ ValidSender(sender)' /\ ReceiverInv'
  BY <1>2, <1>3, Zenon DEF ContextInv, ContextTypes, ValidSender, ReceiverInv
<1>5. /\ Len(decoded) \in Nat /\ Len(log) = Len(decoded) + Len(path)
      /\ \A i \in 1..Len(path) : log[Len(decoded) + i] = path[i].message
  BY DEF ContextInv, ContextTypes, InOrder
<1>6. Len(decoded) < Len(log) /\ log[Len(decoded) + 1].len > MaxLen
  BY <1>2, <1>5
<1>7. InOrder'
  BY <1>3, <1>6, Zenon DEF ContextInv, InOrder
<1> QED
  BY <1>3, <1>4, <1>7, Zenon DEF ContextInv

(* Inflater::decode takes the receiver where the frame leads. *)
LEMMA Inflating ==
    ASSUME ContextInv, NEW frame \in Frames, frame.kind = "stream", Inflate(frame),
           ~(frame.message.len > MaxLen), NEW q, Takes(inflater.accept, ReceiverPoint, frame, q)
    PROVE  /\ decoded' = Append(decoded, frame.message) /\ ended' = ended
           /\ inflater' \in Inflaters /\ inflater'.accept = inflater.accept /\ ReceiverInv'
           /\ ReceiverPoint' = q
<1>1. /\ inflater \in Inflaters /\ inflater.count + 1 \in Nat /\ inflater.context \in Contexts
      /\ inflater.accept \subseteq Dicts /\ frame.chunk \in Chunks
      /\ frame.message.id \in Nat
  BY DEF ContextInv, ContextTypes, Inflaters, Frames, MessagesSent
<1>2. ReceiverPoint.start = inflater.atFrameStart
  BY <1>1, Zenon DEF ReceiverPoint, Point, Inflaters
<1>3. CASE frame.chunk.empty
  <2>1. frame.message.len = 0 /\ q = ReceiverPoint
    BY <1>3, Zenon DEF Takes
  <2>2. AcceptFrame(frame, inflater)
    BY <1>3, <2>1, Zenon DEF Inflate, ParseStreamChunk
  <2>3. inflater' = [inflater EXCEPT !.count = inflater.count + 1]
    BY <2>2, Zenon DEF AcceptFrame
  <2>4. /\ inflater' \in Inflaters /\ inflater'.accept = inflater.accept
        /\ inflater'.context = inflater.context /\ inflater'.atFrameStart = inflater.atFrameStart
    BY <1>1, <2>3, Zenon DEF Inflaters
  <2> QED
    BY <2>1, <2>2, <2>4, Zenon DEF AcceptFrame, ContextInv, ReceiverInv, ReceiverPoint
<1>4. CASE ~frame.chunk.empty
  <2> DEFINE chunk == frame.chunk
             history == Append(chunk.against, frame.message.id)
             context == [live |-> TRUE, dict |-> chunk.dict, history |-> chunk.against]
             after == [inflater EXCEPT !.atFrameStart = chunk.last,
                           !.context = [context EXCEPT !.history = history]]
  <2>1. /\ chunk.header = inflater.atFrameStart
        /\ chunk.dict \in inflater.accept \cup {"none"}
        /\ inflater.atFrameStart => chunk.against = <<>>
        /\ ~inflater.atFrameStart => /\ chunk.dict = inflater.context.dict
                                     /\ chunk.against = inflater.context.history
        /\ q = Point(chunk.last, chunk.dict, history)
    BY <1>2, <1>4, Zenon DEF Takes, ReceiverPoint, Point
  <2>2. chunk.last \in BOOLEAN /\ chunk.against \in Seq(Nat) /\ chunk.dict \in OptDicts
    BY <1>1, <1>4, Zenon DEF Chunks
  <2>3. history \in Seq(Nat)
    BY <1>1, <2>2
  <2>4. AcceptFrame(frame, after)
    <3> DEFINE parsed == ParseStreamChunk(chunk, inflater.atFrameStart)
               current == IF parsed.starts THEN FrameContext(parsed.dict) ELSE inflater.context
    <3>1. /\ parsed.valid /\ parsed.starts = inflater.atFrameStart /\ parsed.ends = chunk.last
          /\ inflater.atFrameStart => parsed.dict = chunk.dict
      BY <1>4, <2>1, Zenon DEF ParseStreamChunk
    <3>2. current = context
      <4> HIDE DEF parsed
      <4>1. CASE inflater.atFrameStart
        BY <2>1, <3>1, <4>1, Zenon DEF FrameContext
      <4>2. CASE ~inflater.atFrameStart
        BY <1>1, <2>1, <3>1, <4>2, Zenon DEF ContextInv, ReceiverInv, Contexts
      <4> QED
        BY <1>1, <4>1, <4>2, Zenon DEF Inflaters
    <3>3. \/ frame.message.len > MaxLen \/ ~parsed.valid \/ chunk.empty \/ ~current.live
          \/ current.dict # chunk.dict \/ current.history # chunk.against
          \/ AcceptFrame(frame, [inflater EXCEPT !.atFrameStart = parsed.ends,
                       !.context = [current EXCEPT !.history = Append(@, frame.message.id)]])
      BY Zenon DEF Inflate
    <3> HIDE DEF parsed, current
    <3>4. current.live /\ current.dict = chunk.dict /\ current.history = chunk.against
      BY <3>2, Zenon
    <3>5. [current EXCEPT !.history = Append(@, frame.message.id)] = [context EXCEPT !.history = history]
      BY <3>2, Zenon
    <3> QED
      BY <1>4, <3>1, <3>3, <3>4, <3>5, Zenon
  <2>5. /\ inflater' \in Inflaters /\ inflater'.accept = inflater.accept
        /\ inflater'.atFrameStart = chunk.last /\ inflater'.context.live
        /\ inflater'.context.dict = chunk.dict /\ inflater'.context.history = history
    <3>1. after \in Inflaters /\ after.accept = inflater.accept /\ after.count + 1 \in Nat
      BY <1>1, <2>2, <2>3, Zenon DEF Inflaters, Contexts
    <3> QED
      BY <1>1, <2>2, <2>3, <2>4, <3>1, Zenon DEF AcceptFrame, Inflaters, Contexts
  <2>6. ReceiverPoint' = q
    BY <2>1, <2>5, Zenon DEF ReceiverPoint
  <2> QED
    BY <2>4, <2>5, <2>6, Zenon DEF AcceptFrame, ReceiverInv
<1> QED
  BY <1>3, <1>4, Zenon

(* The receiver decodes a frame, whatever its type. *)
LEMMA Decoding ==
    ASSUME ContextInv, Decode
    PROVE  ContextInv'
<1> DEFINE frame == Head(path)
<1>1. /\ ~ended /\ path # <<>> /\ path' = Tail(path) /\ UNCHANGED <<sender, log>>
      /\ frame.kind = "stream" => Inflate(frame)
      /\ frame.kind # "stream" =>
            IF frame.message.len > MaxLen \/ (frame.kind = "zstd" /\ frame.dict \notin inflater.accept)
            THEN RejectFrame
            ELSE UNCHANGED <<inflater, ended>> /\ decoded' = Append(decoded, frame.message)
  BY Zenon DEF Decode
<1>2. frame \in Frames /\ frame = path[1] /\ Len(path) \in Nat \ {0}
  BY <1>1 DEF ContextInv, ContextTypes
<1>3. PICK f \in [0..Len(path) -> Points] :
          /\ Chain(inflater.accept, path, f)
          /\ f[0] = ReceiverPoint /\ LeadsTo(sender, f[Len(path)])
  BY <1>1, Zenon DEF ContextInv, InStep
<1>4. Takes(inflater.accept, ReceiverPoint, frame, f[1])
  <2>1. 1 \in 1..Len(path) /\ 1 - 1 = 0
    BY <1>2
  <2>2. Takes(inflater.accept, f[1 - 1], path[1], f[1])
    BY <1>3, <2>1, Zenon DEF Chain
  <2> QED
    BY <1>2, <1>3, <2>1, <2>2, Zenon
<1> HIDE DEF frame
<1>5. CASE frame.message.len > MaxLen
  <2>1. RejectFrame
    BY <1>1, <1>5, Zenon DEF Inflate
  <2> QED
    BY <1>1, <1>5, <2>1, Rejecting, Zenon DEF frame
<1>6. CASE ~(frame.message.len > MaxLen) /\ frame.kind = "stream"
  <2>1. Inflate(frame)
    BY <1>1, <1>6, Zenon
  <2>2. /\ decoded' = Append(decoded, frame.message) /\ ended' = ended
        /\ inflater' \in Inflaters /\ inflater'.accept = inflater.accept /\ ReceiverInv'
        /\ ReceiverPoint' = f[1]
    BY <1>2, <1>4, <1>6, <2>1, Inflating, Zenon
  <2> QED
    BY <1>1, <1>3, <2>2, PathShrinks, Zenon DEF frame
<1>7. CASE ~(frame.message.len > MaxLen) /\ frame.kind # "stream"
  <2>1. f[1] = ReceiverPoint /\ (frame.kind = "zstd" => frame.dict \in inflater.accept)
    BY <1>4, <1>7, Zenon DEF Takes
  <2>2. UNCHANGED <<inflater, ended>> /\ decoded' = Append(decoded, frame.message)
    BY <1>1, <1>7, <2>1, Zenon
  <2>3. /\ inflater' \in Inflaters /\ inflater'.accept = inflater.accept /\ ReceiverInv'
        /\ ReceiverPoint' = f[1]
    BY <2>1, <2>2, Zenon DEF ContextInv, ContextTypes, ReceiverInv, ReceiverPoint
  <2> QED
    BY <1>1, <1>3, <2>2, <2>3, PathShrinks, Zenon DEF frame
<1> QED
  BY <1>5, <1>6, <1>7, Zenon

(* A sender that learns its dictionary, or that it may stream, is still where it was. *)
LEMMA Answering ==
    ASSUME ContextInv, ValidSender(sender'), UNCHANGED <<path, inflater, log, decoded, ended>>,
           sender'.state = sender.state, sender'.context = sender.context
    PROVE  ContextInv'
<1>1. ContextTypes' /\ ValidSender(sender)' /\ ReceiverInv' /\ InOrder'
  BY Zenon DEF ContextInv, ContextTypes, ValidSender, ReceiverInv, InOrder
<1>2. ~ended' => InStep'
  <2>1. \A p : LeadsTo(sender, p) <=> LeadsTo(sender', p)
    BY Zenon DEF LeadsTo, SenderPoint
  <2>2. ReceiverPoint' = ReceiverPoint
    BY Zenon DEF ReceiverPoint
  <2> QED
    BY <2>1, <2>2, Zenon DEF ContextInv, InStep
<1> QED
  BY <1>1, <1>2, Zenon DEF ContextInv

(* Nothing is sent and no answer is there. *)
LEMMA ContextsStart == ContextsInit => ContextInv
<1> SUFFICES ASSUME ContextsInit PROVE ContextInv
  BY Zenon
<1>1. /\ sender = NewSender /\ path = <<>> /\ log = <<>> /\ decoded = <<>> /\ ended = FALSE
      /\ inflater \in Receivers
  BY Zenon DEF ContextsInit, StartContexts
<1>2. NoContext \in Contexts
  BY DEF NoContext, Contexts, OptDicts
<1>3. PICK accept \in SUBSET Dicts : inflater = NewInflater(accept)
  BY <1>1, Zenon DEF Receivers
<1>4. ContextTypes /\ ValidSender(sender) /\ ReceiverInv /\ InOrder
  <2>1. inflater \in Inflaters /\ inflater.atFrameStart
    BY <1>2, <1>3, Zenon DEF NewInflater, Inflaters
  <2>2. NewSender \in Senders /\ NewSender.dict = "none" /\ NewSender.state # "active"
    BY <1>2, Zenon DEF NewSender, Senders, OptDicts
  <2>3. ContextTypes
    <3>1. <<>> \in Seq(Frames) /\ <<>> \in Seq(MessagesSent)
      OBVIOUS
    <3> QED
      BY <1>1, <2>1, <3>1, Zenon DEF ContextTypes
  <2>4. ValidSender(sender) /\ ReceiverInv
    BY <1>1, <2>1, <2>2, Zenon DEF ValidSender, ReceiverInv
  <2>5. InOrder
    BY <1>1 DEF InOrder
  <2> QED
    BY <2>3, <2>4, <2>5, Zenon
<1>5. InStep
  <2> DEFINE f == [i \in 0..Len(path) |-> FrameStart]
  <2>1. Len(path) = 0 /\ FrameStart \in Points
    <3>1. TRUE \in BOOLEAN /\ "none" \in OptDicts /\ <<>> \in Seq(Nat)
      BY DEF OptDicts
    <3>2. Point(TRUE, "none", <<>>) \in Points
      BY <3>1, PointType, Zenon
    <3> QED
      BY <1>1, <3>2, Zenon DEF FrameStart
  <2>2. f \in [0..Len(path) -> Points] /\ Chain(inflater.accept, path, f)
    BY <2>1 DEF Chain
  <2>3. f[0] = ReceiverPoint /\ LeadsTo(sender, f[Len(path)])
    BY <1>1, <1>3, <2>1
       DEF ReceiverPoint, LeadsTo, NewInflater, NewSender, FrameStart, Point
  <2> QED
    BY <2>2, <2>3, Zenon DEF InStep
<1> QED
  BY <1>4, <1>5, Zenon DEF ContextInv

(* What the two ends rely on, after every step of either. *)
LEMMA ContextsStep == ContextInv /\ [ContextsNext]_contextVars => ContextInv'
<1> SUFFICES ASSUME ContextInv, [ContextsNext]_contextVars PROVE ContextInv'
  BY Zenon
<1>1. /\ sender \in Senders /\ sender.dict \in inflater.accept \cup {"none"}
      /\ inflater.accept \subseteq Dicts
  BY Zenon DEF ContextInv, ValidSender, ContextTypes, Inflaters
<1>2. CASE Enable
  <2>1. ValidSender(sender') /\ sender'.state = sender.state /\ sender'.context = sender.context
    BY <1>1, <1>2, Zenon DEF Enable, ContextInv, ValidSender, Senders
  <2> QED
    BY <1>2, <2>1, Answering, Zenon DEF Enable
<1>3. ASSUME NEW d \in Dicts, LearnDict(d) PROVE ContextInv'
  <2>1. ValidSender(sender') /\ sender'.state = sender.state /\ sender'.context = sender.context
    BY <1>1, <1>3, Zenon DEF LearnDict, ContextInv, ValidSender, Senders, OptDicts
  <2> QED
    BY <1>3, <2>1, Answering, Zenon DEF LearnDict
<1>4. CASE UNCHANGED contextVars
  BY <1>4, Answering, Zenon DEF contextVars, ContextInv
<1> QED
  BY <1>2, <1>3, <1>4, Decoding, Encoding, Zenon DEF ContextsNext

(* Every message of a stream-compressed direction is decoded as it was sent and in order, and only *)
(* one over the receiver's limit is rejected (StreamSender::encode, Inflater::decode).             *)
THEOREM ContextsStayInStep == ContextsSpec => []ContextsAgree
<1>1. ContextInv => ContextsAgree
  <2> SUFFICES ASSUME ContextInv PROVE ContextsAgree
    BY Zenon
  <2>1. log \in Seq(MessagesSent) /\ decoded \in Seq(MessagesSent) /\ path \in Seq(Frames)
    BY Zenon DEF ContextInv, ContextTypes
  <2>2. Len(decoded) <= Len(log) /\ \A i \in 1..Len(decoded) : log[i] = decoded[i]
    BY <2>1 DEF ContextInv, InOrder
  <2>3. decoded = SubSeq(log, 1, Len(decoded))
    BY <2>1, <2>2
  <2> QED
    BY <2>3, Zenon DEF ContextInv, InOrder, ContextsAgree
<1> QED
  BY <1>1, ContextsStart, ContextsStep, PTL DEF ContextsSpec

=============================================================================
