---------------------------- MODULE StreamingCall ----------------------------
(* The client's two halves of a streaming call: sends and their queue, the     *)
(* upload task, and the task that reads the response ahead of the caller so     *)
(* that blocked sends learn how the call ended (client.rs RequestSender,        *)
(* client/call_end.rs, client/upload.rs, client/native.rs).                     *)
(*                                                                            *)
(* The request queue is a count (MessageQueue models it); responses are          *)
(* numbered messages, then "ok", "error", "lost" or nothing.                     *)
EXTENDS Naturals, Sequences, FiniteSets, Functions

CONSTANTS
    Sends,         \* the sends of the call
    QueueCap,      \* request messages the queue holds
    Messages,      \* bound: response messages
    QueuedFrames,  \* QUEUED_FRAMES
    ReadAhead      \* the frames the reader may buffer for a stalled or stopped upload

ASSUME StreamingAssumption ==
    /\ IsFiniteSet(Sends)
    /\ QueueCap \in Nat \ {0} /\ QueuedFrames \in Nat \ {0} /\ ReadAhead \in Nat \ {0}
    /\ Messages \in Nat

Terminal == {"ok", "error", "failure"}
Frame(kind, number) == [kind |-> kind, number |-> number]

VARIABLES
    send,       \* where each send is: "new", "waiting" for room, "stopped", or its result
    handle,     \* the RequestSender: "open", "finished", "cancelling", or "dropped" with its queue sender
    dropAt,     \* ghost: where the upload was when the sender's drop sent Cancel
    queued,     \* accepted messages the upload has not taken
    upload,     \* its next step (Live), or how it ended: "finished", "failed" or "aborted"
    wire,       \* response frames on their way; "cut" ends one without a STATUS
    produced,   \* response messages the server sent
    answered,   \* the server sent its terminal frame, or the connection is lost
    reader,     \* the reading task: "reading", "ended" (no more to read), "gone" or "dropped" by the caller
    backlog,    \* frames read and not yet queued for the caller
    frames,     \* frames queued for the caller
    received,   \* frames the caller took
    end,        \* End: "running", "ok", "error", "failure", "unknown" or "backlog"
    stopped     \* Upload::stopped

streamingVars == <<send, handle, dropAt, queued, upload, wire, produced, answered, reader, backlog, frames, received, end, stopped>>
(* An upload writes the REQUEST or a message, or polls its stream: the control, then the queue. *)
Live == {"writing", "control", "receiver"}

server == <<wire, produced, answered>>
response == <<reader, backlog, frames, received, end>>

StreamingInit ==
    /\ send = [s \in Sends |-> "new"] /\ handle = "open" /\ dropAt = "none" /\ queued = 0
    /\ upload = "writing"
    /\ wire = <<>> /\ produced = 0 /\ answered = FALSE
    /\ reader = "reading" /\ backlog = <<>> /\ frames = <<>> /\ received = <<>>
    /\ end = "running" /\ stopped = FALSE

-----------------------------------------------------------------------------
(* Sends. *)

(* Sends that count as waiting: the guard lives until the send returns. *)
Waiting == {s \in Sends : send[s] \in {"waiting", "stopped"}}

(* End::error: what a send fails with once the call has ended. *)
Failure == CASE end = "error" -> "status" [] end = "failure" -> "failed"
             [] end = "backlog" -> "exhausted" [] OTHER -> "cancelled"

Result(s, result) == send' = [send EXCEPT ![s] = result]

(* RequestSenderState::try_send under the lock, and what send_encoded does with it. *)
TrySend(s) ==
    /\ send[s] = "new" /\ handle # "dropped"
    /\ \/ handle = "finished" /\ Result(s, "cancelled") /\ UNCHANGED <<queued, stopped>>
       \/ handle # "finished" /\ end # "running" /\ Result(s, Failure) /\ UNCHANGED <<queued, stopped>>
       \/ /\ handle # "finished" /\ end = "running" /\ upload \in Live
          /\ IF queued < QueueCap THEN Result(s, "sent") /\ queued' = queued + 1
                                  ELSE Result(s, "waiting") /\ UNCHANGED queued
          /\ UNCHANGED stopped
       \/ /\ handle # "finished" /\ end = "running" /\ upload \notin Live
          /\ Result(s, "stopped") /\ stopped' = TRUE /\ UNCHANGED queued
    /\ UNCHANGED <<handle, dropAt, upload, server, response>>

(* The select of send_encoded: the end of the call first, then room, then a closed queue. *)
FailEnded(s) ==
    /\ send[s] \in {"waiting", "stopped"} /\ end # "running"
    /\ Result(s, Failure)
    /\ UNCHANGED <<handle, dropAt, queued, upload, server, response, stopped>>
FindRoom(s) ==
    /\ send[s] = "waiting" /\ end = "running" /\ upload \in Live /\ queued < QueueCap
    /\ Result(s, "sent") /\ queued' = queued + 1
    /\ UNCHANGED <<handle, dropAt, upload, server, response, stopped>>
FindStopped(s) ==
    /\ send[s] = "waiting" /\ end = "running" /\ upload \notin Live
    /\ Result(s, "stopped") /\ stopped' = TRUE
    /\ UNCHANGED <<handle, dropAt, queued, upload, server, response>>

(* EndWatch::ended gives up at the call's deadline. *)
Expire(s) ==
    /\ send[s] \in {"waiting", "stopped"} /\ end = "running"
    /\ Result(s, "deadline")
    /\ UNCHANGED <<handle, dropAt, queued, upload, server, response, stopped>>

(* The caller drops a send that waits, and its WaitingSend with it. *)
AbandonSend(s) ==
    /\ send[s] \in {"waiting", "stopped"}
    /\ Result(s, "abandoned")
    /\ UNCHANGED <<handle, dropAt, queued, upload, server, response, stopped>>

(* finish and close_send take the queue's sender; a waiting send has a clone of it. *)
FinishSends ==
    /\ handle = "open" /\ handle' = "finished"
    /\ UNCHANGED <<send, dropAt, queued, upload, server, response, stopped>>

(* The drop of a sender that was not finished sends Cancel, and then lets go of the queue, which   *)
(* the last send still under way keeps open.                                                       *)
SendCancel ==
    /\ handle = "open" /\ handle' = "cancelling" /\ dropAt' = upload
    /\ UNCHANGED <<send, queued, upload, server, response, stopped>>
DropQueue ==
    /\ handle = "cancelling" /\ Waiting = {} /\ handle' = "dropped"
    /\ UNCHANGED <<send, dropAt, queued, upload, server, response, stopped>>

-----------------------------------------------------------------------------
(* The upload task, and the server at the other end of it. *)

Uploads(step) == upload' = step /\ UNCHANGED <<send, handle, dropAt, server, response, stopped>>

(* The peer's flow control lets a write end, or the peer stops the stream. *)
Written == upload = "writing" /\ Uploads("control") /\ UNCHANGED queued
StopUpload == upload = "writing" /\ Uploads("failed") /\ UNCHANGED queued

(* RequestMessageStream::poll_next reads the control: Cancel ends the upload with an error. *)
PollControl ==
    /\ upload = "control"
    /\ Uploads(IF handle \in {"cancelling", "dropped"} THEN "failed" ELSE "receiver")
    /\ UNCHANGED queued

(* Then, without looking at the control again, the queue: a message is taken and written, a queue  *)
(* that is empty and has no sender ends the stream with FIN, and any other is waited for.          *)
QueueClosed == handle \in {"finished", "dropped"} /\ \A s \in Sends : send[s] # "waiting"
Take ==
    /\ upload = "receiver" /\ queued > 0
    /\ queued' = queued - 1 /\ Uploads("writing")
FinishUpload ==
    /\ upload = "receiver" /\ queued = 0 /\ QueueClosed
    /\ \E how \in {"finished", "failed"} : Uploads(how)
    /\ UNCHANGED queued
Park ==
    /\ upload = "receiver" /\ queued = 0 /\ ~QueueClosed
    /\ Uploads("control") /\ UNCHANGED queued

(* The server sends responses and ends them, until it learns that nobody reads them. *)
Produce ==
    /\ reader # "dropped" /\ ~answered /\ produced < Messages
    /\ produced' = produced + 1 /\ wire' = Append(wire, Frame("message", produced + 1))
    /\ UNCHANGED <<send, handle, dropAt, queued, upload, answered, response, stopped>>
Answer(how) ==
    /\ reader # "dropped" /\ ~answered /\ answered' = TRUE
    /\ wire' = Append(wire, Frame(how, 0))
    /\ UNCHANGED <<send, handle, dropAt, queued, upload, produced, response, stopped>>

(* UploadWriter::abort_and_settle. *)
Settle == upload' = IF upload \in Live THEN "aborted" ELSE upload

-----------------------------------------------------------------------------
(* The reading task, pump, and the caller. *)

(* pump selects, in this order, room in the caller's queue, a change of the upload, and the     *)
(* response.  It polls one after the other while both ends run, so no order is ruled out.         *)
Full(items) == Len(items) >= ReadAhead

(* It reads ahead, up to the bound, while a send is blocked or found the upload stopped. *)
MayRead == IF stopped \/ Waiting # {} THEN ~Full(backlog) ELSE backlog = <<>>

(* EndSender::end: the first end is kept. *)
Ended(how) == IF end = "running" THEN how ELSE end

(* A message may fill the backlog, which the loop finds at once. *)
ReadMessage ==
    /\ reader = "reading" /\ MayRead /\ wire # <<>> /\ Head(wire).kind = "message"
    /\ backlog' = Append(backlog, Head(wire)) /\ wire' = Tail(wire)
    /\ end' = IF Full(backlog') /\ stopped THEN Ended("backlog") ELSE end
    /\ UNCHANGED <<send, handle, dropAt, queued, upload, produced, answered, reader, frames, received, stopped>>

(* What a terminal frame becomes: OK yields to the failure of the upload. *)
Item == CASE Head(wire).kind = "error" -> "error"
          [] Head(wire).kind = "ok" /\ upload # "failed" -> "ok"
          [] OTHER -> "failure"

(* next_response: a STATUS or an error settles the upload, and the end is *)
(* recorded before the frame is passed on.                                  *)
ReadTerminal ==
    /\ reader = "reading" /\ MayRead /\ wire # <<>> /\ Head(wire).kind \in {"ok", "error", "lost"}
    /\ backlog' = Append(backlog, Frame(Item, 0)) /\ end' = Ended(Item)
    /\ Settle /\ wire' = <<Frame("cut", 0)>>
    /\ UNCHANGED <<send, handle, dropAt, queued, produced, answered, reader, frames, received, stopped>>

(* An end that replaces what the STATUS told. *)
ReadEndForgets ==
    /\ reader = "reading" /\ MayRead /\ wire # <<>> /\ Head(wire).kind = "cut"
    /\ reader' = "ended" /\ end' = "unknown" /\ Settle /\ wire' = <<>>
    /\ UNCHANGED <<send, handle, dropAt, queued, produced, answered, backlog, frames, received, stopped>>

(* The response ended, with or without a STATUS before. *)
ReadEnd ==
    /\ reader = "reading" /\ MayRead /\ wire # <<>> /\ Head(wire).kind = "cut"
    /\ reader' = "ended" /\ end' = Ended("unknown") /\ Settle /\ wire' = <<>>
    /\ UNCHANGED <<send, handle, dropAt, queued, produced, answered, backlog, frames, received, stopped>>

(* The upload stops, and the bound is reached already: the STATUS cannot be found. *)
GiveUp ==
    /\ reader = "reading" /\ Full(backlog) /\ stopped /\ end = "running"
    /\ end' = "backlog"
    /\ UNCHANGED <<send, handle, dropAt, queued, upload, server, reader, backlog, frames, received, stopped>>

(* The next frame goes to the caller's queue when that has room. *)
Forward ==
    /\ reader \in {"reading", "ended"} /\ backlog # <<>> /\ Len(frames) < QueuedFrames
    /\ frames' = Append(frames, Head(backlog)) /\ backlog' = Tail(backlog)
    /\ UNCHANGED <<send, handle, dropAt, queued, upload, server, reader, received, end, stopped>>
ReaderDone ==
    /\ reader = "ended" /\ backlog = <<>>
    /\ reader' = "gone"
    /\ UNCHANGED <<send, handle, dropAt, queued, upload, server, backlog, frames, received, end, stopped>>

CallerReads ==
    /\ frames # <<>>
    /\ received' = Append(received, Head(frames)) /\ frames' = Tail(frames)
    /\ UNCHANGED <<send, handle, dropAt, queued, upload, server, reader, backlog, end, stopped>>

(* ReadResponse's drop aborts the task, which drops its EndSender, the response and the upload. *)
DropResponse ==
    /\ reader # "dropped" /\ reader' = "dropped" /\ end' = Ended("unknown") /\ Settle
    /\ backlog' = <<>> /\ frames' = <<>> /\ wire' = <<>>
    /\ UNCHANGED <<send, handle, dropAt, queued, produced, answered, received, stopped>>

SendSteps(s) == TrySend(s) \/ FailEnded(s) \/ FindRoom(s) \/ FindStopped(s)
UploadSteps == PollControl \/ Take \/ FinishUpload \/ Park
ReaderSteps == ReadMessage \/ ReadTerminal \/ ReadEnd \/ GiveUp \/ Forward \/ ReaderDone
StreamingNext ==
    \/ \E s \in Sends : SendSteps(s) \/ Expire(s) \/ AbandonSend(s)
    \/ FinishSends \/ SendCancel \/ DropQueue
    \/ UploadSteps \/ Written \/ StopUpload
    \/ Produce \/ \E how \in {"ok", "error", "lost", "cut"} : Answer(how)
    \/ ReaderSteps \/ CallerReads \/ DropResponse

(* Tasks are scheduled.  A server that ended the call goes on taking requests or stops them, *)
(* and so does a lost connection; one that has not may leave both sides waiting.                *)
Fairness ==
    /\ \A s \in Sends : WF_streamingVars(SendSteps(s))
    /\ WF_streamingVars(UploadSteps) /\ WF_streamingVars(ReaderSteps)
    /\ WF_streamingVars(answered /\ (Written \/ StopUpload))
StreamingSpec == StreamingInit /\ [][StreamingNext]_streamingVars
FairSpec == StreamingSpec /\ Fairness

-----------------------------------------------------------------------------
(* Properties. *)

(* What the caller was told, or is about to be, of how the call ended. *)
Told == {item \in Terminal : Frame(item, 0) \in Range(backlog \o frames \o received)}

(* Both halves of a call tell the same end: a send fails with the server's status, with a failure  *)
(* or because the call is over exactly when that is what the response ends with, whichever of them *)
(* comes first, unless it was told that the response is not read (End::error, EndSender::end).     *)
SendsAgree ==
    \A s \in Sends, item \in Told :
        /\ send[s] = "status" => item = "error"
        /\ send[s] = "failed" => item = "failure"
        /\ send[s] = "cancelled" /\ handle # "finished" => item = "ok"

(* A request stream that ends cleanly has nothing left to send, and its sender was finished; or it *)
(* was dropped while the upload was between the two polls of one poll_next (RequestMessageStream). *)
CleanUnlessMissed ==
    upload = "finished" => queued = 0 /\ (handle = "finished" \/ dropAt = "receiver")

(* What sends fail with is what the response tells (client/call_end.rs), and the request stream of *)
(* a sender that is dropped ends cleanly only if Cancel comes within the poll that finds the queue *)
(* closed (client.rs RequestMessageStream, Drop for RequestSender).                                *)
HalvesAgree == SendsAgree /\ CleanUnlessMissed

(* The request stream of a sender that was dropped unfinished is cancelled: it never ends cleanly  *)
(* (Drop for RequestSender, RequestMessageStream).                                                 *)
DropCancels == upload = "finished" => handle = "finished"

(* Once one side ended the call no send stays blocked, whether the caller reads or not, and    *)
(* however many responses are in front of the STATUS (call_end.rs).                              *)
SendsEnd == \A s \in Sends : ((answered \/ reader = "dropped") /\ s \in Waiting) ~> (s \notin Waiting)

=============================================================================
