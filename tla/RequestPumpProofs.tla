------------------------- MODULE RequestPumpProofs --------------------------
(***************************************************************************)
(* That a request cut off never looks complete and that an answered one is *)
(* drained, for any number of messages, any room and any limit; and of     *)
(* what streams of messages wait on: that a latest cell misses no change,  *)
(* for any number of sends, and that a wake gate strands no item, for any  *)
(* number of items.  And of a Server's clones: that each reads what was    *)
(* configured through it, and that a call is decided by one configuration, *)
(* for any number of handles, routes, options, requests and changes.       *)
(***************************************************************************)
EXTENDS RequestPump, WakeUps, ServerConfig, TLAPS

TypeOK ==
    /\ kind \in Kinds
    /\ sent \in Nat /\ unread \in Nat /\ ending \in {"none", "fin", "stray", "trailers", "trailersEnd", "reset", "lost"}
    /\ pump \in {"reserving", "reading", "validating", "failed", "ended"}
    /\ charged \in Nat
    /\ failure \in {"none", "Protocol", "PeerReset", "ConnectionLost"}
    /\ reader \in {"held", "discarding", "stopped", "finished"}
    /\ queue \in Seq({"message", "error"})
    /\ body \in {"open", "dropped"} /\ got \in Nat /\ seen \in {"nothing", "error", "end"}
    /\ reason \in Reasons \cup {"none"}
    /\ call \in {"running", "settling", "done"}

(* The reason is sent when the call stops running. *)
ReasonInv == call = "running" <=> reason = "none"

(* A pump that failed waits for the reason, and only its failure puts an error in the queue. *)
FailureInv ==
    /\ pump \in {"reserving", "reading", "validating"} => failure = "none"
    /\ (pump = "ended" /\ reason = "none") => failure = "none"
    /\ failure = "none" => queue \in Seq({"message"})

(* What was sent is unread, or charged; what was charged is queued, or received. *)
CountInv ==
    /\ (kind = "streaming" /\ failure = "none" /\ ending \notin {"reset", "lost"}) => charged + unread = sent
    /\ (kind = "streaming" /\ failure = "none" /\ body = "open") => got + Len(queue) = charged

(* A pump that ended by itself read the FIN, unless the body was dropped; and what its handler saw *)
(* of it then stays.                                                                               *)
EndInv ==
    /\ (pump = "ended" /\ reason = "none" /\ body = "open") =>
           ending = "fin" /\ unread = 0 /\ reader = "finished"
    /\ seen = "end" => kind = "streaming" /\ pump = "ended" /\ queue = <<>>
    /\ (seen = "end" /\ reason = "none") => ending = "fin" /\ got = sent /\ reader = "finished"

(* A pump that is past the settle channel when the reason arrives is excused; no other stops the   *)
(* stream of an answered call.                                                                     *)
StopInv ==
    /\ (pump = "reserving" /\ polled /\ reason # "none") => excused
    /\ (reader = "stopped" /\ reason = "ResponseCommitted") => excused

PumpInv == TypeOK /\ ReasonInv /\ FailureInv /\ CountInv /\ EndInv

-----------------------------------------------------------------------------
(* A request that has not begun. *)
LEMMA PumpInitial == Init => PumpInv
  BY DEF Init, PumpInv, TypeOK, ReasonInv, FailureInv, CountInv, EndInv, Kinds

(* The client sends, or ends its stream: only while the pump has not read its end. *)
LEMMA ClientKeeps ==
    ASSUME PumpInv, Client
    PROVE  PumpInv'
<1> USE DEF PumpInv, TypeOK, ReasonInv, FailureInv, CountInv, EndInv, handler, Kinds, Reasons
<1>1. CASE SendMessage
  BY <1>1 DEF SendMessage
<1>2. ASSUME NEW how \in {"fin", "stray", "trailers", "trailersEnd", "reset", "lost"}, End(how) PROVE PumpInv'
  BY <1>2 DEF End
<1> QED
  BY <1>1, <1>2, Zenon DEF Client

(* A failure is published before it is queued, and the pump waits. *)
LEMMA FailureKeeps ==
    ASSUME PumpInv, pump \in {"reserving", "reading", "validating"},
           pump' = "failed", polled' = FALSE, failure' \in {"Protocol", "PeerReset", "ConnectionLost"},
           queue' \in {queue, Append(queue, "error")}, reader' \in {reader, "finished"},
           unread' \in Nat, UNCHANGED <<kind, sent, ending, charged, handler, reason, call, excused>>
    PROVE  PumpInv'
<1> USE DEF handler
<1>1. queue' \in Seq({"message", "error"})
  BY DEF PumpInv, TypeOK
<1>2. TypeOK'
  BY <1>1 DEF PumpInv, TypeOK
<1>3. ReasonInv' /\ FailureInv' /\ CountInv' /\ EndInv'
  BY Zenon DEF PumpInv, TypeOK, ReasonInv, FailureInv, CountInv, EndInv
<1> QED
  BY <1>2, <1>3, Zenon DEF PumpInv

(* The pump reads, fails, and ends once it is settled or has read the FIN. *)
LEMMA PumpKeeps ==
    ASSUME PumpInv, Pumps
    PROVE  PumpInv'
<1> USE DEF PumpInv, TypeOK, ReasonInv, FailureInv, CountInv, EndInv, handler, stream, Kinds,
            Reasons
<1>1. CASE SeesSettle
  BY <1>1 DEF SeesSettle, SettleReader, Stop, PumpEnds
<1>9. CASE PollsSettle
  BY <1>9 DEF PollsSettle
<1>10. CASE ReadTrailers
  BY <1>10 DEF ReadTrailers, Reading
<1>11. CASE ValidateFails
  <2>1. failure' \in {"Protocol", "PeerReset", "ConnectionLost"}
    BY <1>11 DEF ValidateFails, FailAndWait, Classified
  <2>2. /\ pump = "validating" /\ pump' = "failed" /\ polled' = FALSE /\ queue' = queue
        /\ reader' \in {reader, "finished"} /\ unread' \in Nat
        /\ UNCHANGED <<kind, sent, ending, charged, handler, reason, call, excused>>
    BY <1>11, Zenon DEF ValidateFails, FailAndWait
  <2> QED
    BY <2>1, <2>2, FailureKeeps, Zenon
<1>12. CASE Parks
  BY <1>12 DEF Parks
<1>2. CASE FailedSettles
  BY <1>2 DEF FailedSettles, SettleReader, Stop, PumpEnds
<1>3. CASE Reserve
  BY <1>3 DEF Reserve
<1>4. CASE ReserveFails
  BY <1>4 DEF ReserveFails, Stop, PumpEnds
<1>5. CASE BackpressureEvent
  BY <1>5 DEF BackpressureEvent, FailAndWait, TransportEvent
<1>6. CASE ReadMessage
  <2>1. CASE charged >= MaxMessages
    BY <1>6, <2>1, FailureKeeps, SMTT(30) DEF ReadMessage, FailAndWait
  <2>2. CASE ~(charged >= MaxMessages)
    <3>1. /\ pump = "reading" /\ pump' = "reserving" /\ unread' = unread - 1 /\ unread > 0
          /\ charged' = charged + 1 /\ kind = "streaming"
          /\ polled' = FALSE
          /\ UNCHANGED <<kind, sent, ending, body, got, seen, reason, call, failure, reader, excused>>
      BY <1>6, <2>2, Zenon DEF ReadMessage
    <3>2. CASE body = "open"
      <4>1. queue' = Append(queue, "message")
        BY <1>6, <2>2, <3>2, Zenon DEF ReadMessage
      <4>2. queue' \in Seq({"message"}) /\ Len(queue') = Len(queue) + 1
        BY <3>1, <4>1
      <4>3. queue' \in Seq({"message", "error"})
        BY <4>1
      <4> QED
        BY <3>1, <4>2, <4>3, SMTT(30)
    <3>3. CASE body # "open"
      BY <1>6, <2>2, <3>1, <3>3 DEF ReadMessage
    <3> QED
      BY <3>2, <3>3, Zenon
  <2> QED
    BY <2>1, <2>2, Zenon
<1>7. CASE ReadFin
  BY <1>7, Zenon DEF ReadFin, Reading, PumpEnds
<1>8. CASE ReadFails
  <2>1. failure' \in {"Protocol", "PeerReset", "ConnectionLost"}
    BY <1>8 DEF ReadFails, FailAndWait, Classified
  <2>2. /\ pump' = "failed" /\ polled' = FALSE /\ queue' \in {queue, Append(queue, "error")}
        /\ reader' \in {reader, "finished"} /\ UNCHANGED excused
    BY <1>8, Zenon DEF ReadFails, FailAndWait
  <2>3. /\ pump = "reading" /\ unread' \in Nat
        /\ UNCHANGED <<kind, sent, ending, charged, handler, reason, call>>
    BY <1>8, Zenon DEF ReadFails, Reading
  <2> QED
    BY <2>1, <2>2, <2>3, FailureKeeps, Zenon
<1> QED
  BY <1>1, <1>2, <1>3, <1>4, <1>5, <1>6, <1>7, <1>8, <1>9, <1>10, <1>11, <1>12, Zenon DEF Pumps

(* The handler takes from its queue, sees its end, or drops it. *)
LEMMA HandlerKeeps ==
    ASSUME PumpInv, Handler
    PROVE  PumpInv'
<1> USE DEF PumpInv, TypeOK, ReasonInv, FailureInv, CountInv, EndInv, stream, Kinds, Reasons
<1>1. CASE Receive
  BY <1>1, SMTT(30) DEF Receive
<1>2. CASE SeesEnd
  BY <1>2 DEF SeesEnd
<1>3. CASE DropBody
  BY <1>3 DEF DropBody
<1> QED
  BY <1>1, <1>2, <1>3, Zenon DEF Handler

(* The call settles, or is aborted, and what is left of the request is discarded. *)
LEMMA CallKeeps ==
    ASSUME PumpInv, Call \/ DiscardEnds
    PROVE  PumpInv'
<1> USE DEF PumpInv, TypeOK, ReasonInv, FailureInv, CountInv, EndInv, stream, handler, Kinds,
            Reasons
<1>1. CASE Settled
  BY <1>1 DEF Settled
<1>2. CASE Abort
  BY <1>2 DEF Abort, PumpEnds, Stop
<1>3. ASSUME NEW r \in Reasons, Settle(r) PROVE PumpInv'
  BY <1>3 DEF Settle, SettleInline, SettleReader, Stop, Ends
<1>4. CASE DiscardEnds
  BY <1>4, SMTT(30) DEF DiscardEnds, Stop, Ends
<1> QED
  BY <1>1, <1>2, <1>3, <1>4, Zenon DEF Call

(* The invariant holds in every behaviour of a pump, its client, its handler and its call. *)
THEOREM PumpInductive == Spec => []PumpInv
<1>1. ASSUME PumpInv, [Next]_vars PROVE PumpInv'
  <2>1. CASE UNCHANGED vars
    BY <1>1, <2>1, SMTT(30) DEF vars, stream, handler, PumpInv, TypeOK, ReasonInv, FailureInv, CountInv, EndInv
  <2> QED
    BY <1>1, <2>1, ClientKeeps, PumpKeeps, HandlerKeeps, CallKeeps, Zenon DEF Next
<1> QED
  BY <1>1, PumpInitial, PTL DEF Spec

(* A handler that sees the end of its body before the call is settled received everything the      *)
(* client sent, and the client ended its stream (fail_and_wait keeps the body of any other open).   *)
THEOREM EndsAreComplete == Spec => []EndIsComplete
<1>1. PumpInv => EndIsComplete
  BY Zenon DEF PumpInv, EndInv, EndIsComplete
<1> QED
  BY <1>1, PumpInductive, PTL

(* No step of the pump, the call or a discard stops the stream of an answered call unexcused. *)
LEMMA StopKeeps ==
    ASSUME ReasonInv, StopInv, Next
    PROVE  StopInv'
<1> USE DEF ReasonInv, StopInv
<1>1. CASE Client
  <2>1. UNCHANGED <<pump, polled, reader, reason, excused>>
    BY <1>1, Zenon DEF Client, SendMessage, End
  <2> QED
    BY <2>1, Zenon
<1>2. CASE Handler
  <2>1. UNCHANGED <<pump, polled, reader, reason, excused>>
    BY <1>2, Zenon DEF Handler, Receive, SeesEnd, DropBody
  <2> QED
    BY <2>1, Zenon
<1>3. CASE Pumps
  <2>1. CASE SeesSettle
    BY <2>1, Zenon DEF SeesSettle, SettleReader, PumpEnds
  <2>2. CASE PollsSettle
    BY <2>2, Zenon DEF PollsSettle
  <2>3. CASE FailedSettles
    BY <2>3, Zenon DEF FailedSettles, SettleReader, PumpEnds
  <2>4. CASE Reserve \/ ReserveFails \/ Parks
    BY <2>4, Zenon DEF Reserve, ReserveFails, Parks, PumpEnds
  <2>5. CASE BackpressureEvent \/ ReadFails \/ ValidateFails
    BY <2>5, Zenon DEF BackpressureEvent, ReadFails, ValidateFails, FailAndWait
  <2>6. CASE ReadMessage \/ ReadFin \/ ReadTrailers
    BY <2>6, Zenon DEF ReadMessage, ReadFin, ReadTrailers, FailAndWait, PumpEnds
  <2> QED
    BY <1>3, <2>1, <2>2, <2>3, <2>4, <2>5, <2>6, Zenon DEF Pumps
<1>4. CASE Call
  <2>1. CASE Settled
    BY <2>1, Zenon DEF Settled
  <2>2. CASE Abort
    BY <2>2, Zenon DEF Abort, PumpEnds
  <2>3. ASSUME NEW r \in Reasons, Settle(r) PROVE StopInv'
    BY <2>3, Zenon DEF Settle, SettleInline, SettleReader
  <2> QED
    BY <1>4, <2>1, <2>2, <2>3, Zenon DEF Call
<1>5. CASE DiscardEnds
  BY <1>5, Zenon DEF DiscardEnds
<1> QED
  BY <1>1, <1>2, <1>3, <1>4, <1>5, Zenon DEF Next

(* A stream that was not stopped when its call was answered is stopped later only at the bounds of *)
(* its discard, or by the poll that had missed the answer, whenever the body is dropped            *)
(* (run_streaming_pump, settle_reader).                                                            *)
THEOREM AnsweredAreDrained == Spec => []AnsweredIsDrained
<1>1. Init => StopInv
  BY Zenon DEF Init, StopInv
<1>2. PumpInv /\ StopInv /\ [Next]_vars => StopInv'
  <2>1. UNCHANGED vars => UNCHANGED <<pump, polled, reader, reason, excused>>
    BY Zenon DEF vars
  <2>2. ASSUME StopInv, UNCHANGED <<pump, polled, reader, reason, excused>> PROVE StopInv'
    BY <2>2, Zenon DEF StopInv
  <2> QED
    BY <2>1, <2>2, StopKeeps, Zenon DEF PumpInv
<1>3. StopInv => AnsweredIsDrained
  BY Zenon DEF StopInv, AnsweredIsDrained
<1> QED
  BY <1>1, <1>2, <1>3, PumpInductive, PTL DEF Spec

-----------------------------------------------------------------------------
(* WakeUps: the latest cell. *)

LatestTypeOK ==
    /\ value \in Nat /\ version \in Nat /\ receiverSeen \in Nat /\ loaded \in Nat /\ borrowed \in Nat
    /\ closed \in BOOLEAN /\ waker \in BOOLEAN /\ receiverWoken \in BOOLEAN
    /\ sender \in {"idle", "stored", "counted", "closing", "dropped"}
    /\ receiverAt \in {"idle", "registered", "looked", "again", "pending", "ended", "borrowing"}

(* The sender's order: a version trails its value only between the two. *)
SenderInv ==
    /\ value = IF sender = "stored" THEN version + 1 ELSE version
    /\ closed <=> sender \in {"closing", "dropped"}

(* The receiver's: what it counts as seen was there, and what it borrowed is as new. *)
SeenInv ==
    /\ receiverSeen <= version /\ loaded <= version
    /\ receiverAt # "borrowing" => borrowed >= loaded
    /\ receiverAt \in {"again", "ended"} => closed
    /\ receiverAt = "ended" => receiverSeen = version

(* Once registered, the waker is there or was called. *)
WakerInv ==
    /\ receiverAt \in {"registered", "looked", "again", "pending"} => waker \/ receiverWoken
    /\ (receiverAt \in {"looked", "pending"} /\ ~receiverWoken) => version = receiverSeen \/ sender = "counted"
    /\ (receiverAt = "pending" /\ ~receiverWoken) => ~closed \/ sender = "closing"

LatestInv == LatestTypeOK /\ SenderInv /\ SeenInv /\ WakerInv

(* A new cell: nothing was sent, and nothing is waited for. *)
LEMMA LatestInitial == LatestInit => LatestInv
<1> SUFFICES ASSUME LatestInit PROVE LatestInv
  BY Zenon
<1>1. LatestTypeOK
  <2>1. closed \in BOOLEAN /\ waker \in BOOLEAN /\ receiverWoken \in BOOLEAN
    BY Zenon DEF LatestInit
  <2> QED
    BY <2>1, Zenon DEF LatestInit, LatestTypeOK
<1>2. ~closed /\ SenderInv
  <2>1. ~closed
    BY Zenon DEF LatestInit
  <2> QED
    BY <2>1, Zenon DEF LatestInit, SenderInv
<1>3. SeenInv
  BY DEF LatestInit, SeenInv
<1>4. WakerInv
  BY Zenon DEF LatestInit, WakerInv
<1> QED
  BY <1>1, <1>2, <1>3, <1>4, Zenon DEF LatestInv

(* send and drop keep the invariant, wherever the receiver is. *)
LEMMA SenderKeeps ==
    ASSUME LatestInv, Sends
    PROVE  LatestInv'
<1>1. CASE StoreValue
  BY <1>1 DEF LatestInv, LatestTypeOK, SenderInv, SeenInv, WakerInv, StoreValue, receiverVars
<1>2. CASE CountVersion
  BY <1>2 DEF LatestInv, LatestTypeOK, SenderInv, SeenInv, WakerInv, CountVersion, receiverVars
<1>3. CASE SenderGone
  BY <1>3, Zenon DEF LatestInv, LatestTypeOK, SenderInv, SeenInv, WakerInv, SenderGone, receiverVars
<1>4. CASE WakeReceiver
  BY <1>4, Zenon
     DEF LatestInv, LatestTypeOK, SenderInv, SeenInv, WakerInv, WakeReceiver, shared, receiverVars
<1> QED
  BY <1>1, <1>2, <1>3, <1>4, Zenon DEF Sends

(* changed and borrow_and_update keep it, wherever the sender is. *)
LEMMA ReceiverKeeps ==
    ASSUME LatestInv, Receives
    PROVE  LatestInv'
<1>1. CASE Register
  BY <1>1, Zenon DEF LatestInv, LatestTypeOK, SenderInv, SeenInv, WakerInv, Register, shared
<1>2. CASE LookVersion
  BY <1>2 DEF LatestInv, LatestTypeOK, SenderInv, SeenInv, WakerInv, LookVersion, Look, shared
<1>3. CASE LookClosed
  BY <1>3, Zenon DEF LatestInv, LatestTypeOK, SenderInv, SeenInv, WakerInv, LookClosed, shared
<1>4. CASE LookAgain
  BY <1>4 DEF LatestInv, LatestTypeOK, SenderInv, SeenInv, WakerInv, LookAgain, Look, shared
<1>5. CASE DropChanged
  BY <1>5, Zenon DEF LatestInv, LatestTypeOK, SenderInv, SeenInv, WakerInv, DropChanged, shared
<1>6. CASE LoadVersion
  BY <1>6 DEF LatestInv, LatestTypeOK, SenderInv, SeenInv, WakerInv, LoadVersion, shared
<1>7. CASE ReadValue
  BY <1>7 DEF LatestInv, LatestTypeOK, SenderInv, SeenInv, WakerInv, ReadValue, shared
<1> QED
  BY <1>1, <1>2, <1>3, <1>4, <1>5, <1>6, <1>7, Zenon DEF Receives

(* Whatever the interleaving of send, drop, changed and borrow_and_update, and however many values *)
(* are sent: the receiver never sleeps over a change, hears of the end only after the last value,  *)
(* and borrows nothing older than what it counts as seen.                                                  *)
THEOREM LatestMissesNothing == LatestSpec => []NoMissedChange
<1>1. LatestInv /\ [LatestNext]_latestVars => LatestInv'
  <2> SUFFICES ASSUME LatestInv, [LatestNext]_latestVars
               PROVE  LatestInv'
    BY Zenon
  <2>1. CASE UNCHANGED latestVars
    BY <2>1 DEF LatestInv, LatestTypeOK, SenderInv, SeenInv, WakerInv, latestVars, shared, receiverVars
  <2> QED
    BY <2>1, SenderKeeps, ReceiverKeeps, Zenon DEF LatestNext
<1>2. LatestInv => NoMissedChange
  BY Zenon DEF LatestInv, LatestTypeOK, SenderInv, SeenInv, WakerInv, NoMissedChange
<1> QED
  BY LatestInitial, <1>1, <1>2, PTL DEF LatestSpec

-----------------------------------------------------------------------------
(* WakeUps: the wake gate. *)

GateTypeOK ==
    /\ added \in Nat /\ taken \in Nat /\ taken <= added
    /\ innerWaker \in BOOLEAN /\ gateWoken \in BOOLEAN /\ task \in BOOLEAN /\ scheduled \in BOOLEAN
    /\ source \in {"idle", "waking", "stored"}
    /\ poll \in {"idle", "registered", "polling", "yielding", "pending"}

(* The inner stream keeps a waker only while it is empty. *)
InnerInv == innerWaker => taken = added

(* A closed gate that nobody polls behind is opened by the inner stream's waker, or by a wake      *)
(* already under way.                                                                              *)
ClosedInv == (~gateWoken /\ poll \in {"idle", "registered", "pending"}) => innerWaker \/ source = "waking"

(* A task that polled is registered or woken; one that waits will be woken, or has been. *)
TaskInv ==
    /\ poll # "idle" => task \/ scheduled
    /\ poll = "pending" => innerWaker \/ scheduled \/ source \in {"waking", "stored"}

GateInv == GateTypeOK /\ InnerInv /\ ClosedInv /\ TaskInv

(* Every step of the source, of its wake and of a poll keeps the invariant. *)
LEMMA GateStep ==
    ASSUME GateInv, [GateNext]_gateVars
    PROVE  GateInv'
<1> USE DEF GateInv, GateTypeOK, InnerInv, ClosedInv, TaskInv, inner
<1>1. CASE AddItem
  <2>1. ~innerWaker' /\ innerWaker' \in BOOLEAN
    BY <1>1, Zenon DEF AddItem
  <2>2. CASE innerWaker
    BY <1>1, <2>1, <2>2 DEF AddItem
  <2>3. CASE ~innerWaker
    BY <1>1, <2>1, <2>3 DEF AddItem
  <2> QED
    BY <2>2, <2>3, Zenon
<1>2. CASE StoreWoken
  BY <1>2, Zenon DEF StoreWoken
<1>3. CASE WakeTask
  BY <1>3, Zenon DEF WakeTask
<1>4. CASE RegisterTask
  <2>1. task' /\ ~scheduled' /\ task' \in BOOLEAN /\ scheduled' \in BOOLEAN
    BY <1>4, Zenon DEF RegisterTask
  <2> QED
    BY <1>4, <2>1, Zenon DEF RegisterTask
<1>5. CASE SwapWoken
  BY <1>5, Zenon DEF SwapWoken
<1>6. CASE PollInner
  <2>1. CASE taken < added
    BY <1>6, <2>1 DEF PollInner
  <2>2. CASE ~(taken < added)
    <3>1. innerWaker' /\ innerWaker' \in BOOLEAN
      BY <1>6, <2>2, Zenon DEF PollInner
    <3> QED
      BY <1>6, <2>2, <3>1 DEF PollInner
  <2> QED
    BY <2>1, <2>2, Zenon
<1>7. CASE OpenGate
  BY <1>7, Zenon DEF OpenGate
<1>8. CASE UNCHANGED gateVars
  BY <1>8, Zenon DEF gateVars
<1> QED
  BY <1>1, <1>2, <1>3, <1>4, <1>5, <1>6, <1>7, <1>8, Zenon DEF GateNext

(* However many items there are and however the task's polls interleave with the source's wakes, a *)
(* task that waits with an item to take was woken or is about to be, and finds the gate open.      *)
THEOREM GateStrandsNothing == GateSpec => []NoItemStranded
<1>1. GateInit => GateInv
  <2> SUFFICES ASSUME GateInit PROVE GateInv
    BY Zenon
  <2>1. /\ gateWoken /\ ~innerWaker
        /\ {innerWaker, gateWoken, task, scheduled} \subseteq BOOLEAN
    BY Zenon DEF GateInit
  <2> QED
    BY <2>1 DEF GateInit, GateInv, GateTypeOK, InnerInv, ClosedInv, TaskInv
<1>2. GateInv => NoItemStranded
  BY DEF GateInv, GateTypeOK, InnerInv, ClosedInv, TaskInv, NoItemStranded
<1> QED
  BY <1>1, <1>2, GateStep, PTL DEF GateSpec

-----------------------------------------------------------------------------
(* ServerHandles point to states, and states to route maps. *)
ConfigTypes ==
    /\ handles \in [ServerHandles -> Pointers \cup {Nobody}]
    /\ DOMAIN states = Pointers /\ DOMAIN maps = Pointers /\ DOMAIN own = ServerHandles
    /\ \A id \in Pointers : DOMAIN states[id] = {"config", "routes"} /\ states[id].routes \in Pointers
    /\ \A h \in ServerHandles : DOMAIN own[h] = {"config", "routes"}

(* What a handle reads is its own. *)
HandleInv(h) ==
    handles[h] # Nobody =>
        /\ states[handles[h]].config = own[h].config
        /\ maps[states[handles[h]].routes] = own[h].routes

(* What set_options derives is that of the options in place. *)
ConfigFields == {"options", "authorizer", "interceptors", "metrics", "compression", "budget"}
ConfigOK(config) ==
    /\ DOMAIN config = ConfigFields
    /\ config.compression # "unset" =>
           /\ config.compression = Digest(config.options)
           /\ config.budget = NewBudget(config.options.memory)

ClonesInv ==
    /\ ConfigTypes
    /\ \A h \in ServerHandles : HandleInv(h)
    /\ \A h \in ServerHandles : ConfigOK(own[h].config)

(* What is settled of a call at each of its stages, by the configuration of its clone. *)
RpcFields == {"stage", "server", "request", "asked", "compress", "types", "decodes", "stream",
              "answered", "unreliable", "outcome"}
SettledSoFar(c, route, admitted) ==
    /\ c.stage \in {"read", "admitted", "negotiated", "answered", "done"}
    /\ c.asked \in BOOLEAN /\ c.decodes \in BOOLEAN /\ c.answered \in BOOLEAN
    /\ c.stage # "done" => c.outcome = "none"
    /\ c.stage \in {"read", "admitted"} => ~c.decodes /\ c.stream = {}
    /\ c.stage \in {"read", "admitted", "negotiated"} => ~c.answered /\ c.unreliable = {}
    /\ c.stage = "read" => ~c.asked
    /\ c.stage \in {"admitted", "answered"} => c.asked
    /\ c.asked => admitted /\ Kind(c.request) # "unary"
    /\ c.stage = "negotiated" /\ ~c.asked => Kind(c.request) = "unary"
    /\ c.stage = "answered" => c.answered = AnswersAtDispatch(route)
    /\ c.answered => admitted
    /\ c.decodes => AnswersAtDispatch(route)
    /\ c.stage \in {"negotiated", "answered"} => ~RefusesOptimistic(route, c.request, c.decodes)
    /\ c.stream \subseteq RouteCompressStream(route)
    /\ c.unreliable \subseteq RouteUnreliable(route)

Decided(c, route, admitted) ==
    LET matches == route.kind = Kind(c.request)
    IN  /\ c.outcome \in {"refused", "mismatch", "unimplemented", "handled"} => admitted
        /\ c.outcome = "handled" =>
               matches /\ ~RefusesOptimistic(route, c.request, c.decodes)
        /\ c.outcome = "refused" => matches /\ Offer(c.request) = "optimistic"
        /\ c.outcome = "unimplemented" => ~matches
        /\ c.outcome = "mismatch" => ~matches /\ IsStreaming(route)
        /\ c.stage = "done" /\ c.decodes /\ matches => c.answered

(* A call is at one of its stages, and its clone, which keeps what it was configured with, is     *)
(* there until the call leaves.                                                                    *)
OwnRoute == RouteOf(own[rpc.server].routes, rpc.request.path)
OwnAdmits == AdmitRequest(own[rpc.server].config, rpc.request) = "admitted"
CallInv ==
    /\ rpc.stage = "none" => rpc = NoCall
    /\ InCall =>
           /\ DOMAIN rpc = RpcFields /\ rpc.server \in ServerHandles /\ handles[rpc.server] # Nobody
           /\ rpc.request \in Requests
           /\ SettledSoFar(rpc, OwnRoute, OwnAdmits) /\ Decided(rpc, OwnRoute, OwnAdmits)

(* What the proofs use of finite sets and their sizes; the last section takes it from              *)
(* FiniteSetTheorems.                                                                              *)
Onto(S, T) == \E f \in [S -> T] : \A y \in T : \E x \in S : f[x] = y
SizeFacts ==
    /\ \A S : IsFiniteSet(S) => /\ Cardinality(S) \in Nat
                               /\ (Cardinality(S) = 0 <=> S = {}) /\ (Cardinality(S) = 1 <=> \E x : S = {x})
    /\ \A S, T : IsFiniteSet(S) /\ T \subseteq S => IsFiniteSet(T) /\ Cardinality(T) <= Cardinality(S)
    /\ \A n \in Nat : IsFiniteSet(1..n) /\ Cardinality(1..n) = n
    /\ \A S, T : Onto(S, T) /\ IsFiniteSet(S) => IsFiniteSet(T) /\ Cardinality(T) <= Cardinality(S)

(* A set with one element has no other. *)
LEMMA OnlyOne ==
    ASSUME SizeFacts, NEW S, IsFiniteSet(S), Cardinality(S) = 1, NEW x \in S, NEW y \in S
    PROVE  x = y
<1>1. PICK z : S = {z}
  BY Zenon DEF SizeFacts
<1> QED
  BY <1>1, Zenon

(* A set with at most one element that has an element has one. *)
LEMMA NotMany ==
    ASSUME SizeFacts, NEW S, IsFiniteSet(S), NEW x \in S, ~(Cardinality(S) > 1)
    PROVE  Cardinality(S) = 1
<1>1. Cardinality(S) \in Nat
  BY Zenon DEF SizeFacts
<1>2. Cardinality(S) # 0
  BY Zenon DEF SizeFacts
<1> QED
  BY <1>1, <1>2

(* There is a pointer to no state: there are more pointers than handles. *)
LEMMA SomeFree ==
    ASSUME SizeFacts, ConfigTypes
    PROVE  /\ FreeState \in Pointers /\ ~Live(FreeState)
           /\ FreeMap \in Pointers /\ ~LiveMap(FreeMap)
           /\ IsFiniteSet(Pointers)
<1> DEFINE N == Cardinality(ServerHandles)
           Used == {handles[h] : h \in ServerHandles}
           Mapped == {states[handles[h]].routes : h \in ServerHandles}
<1>1. N \in Nat
  BY HandlesAssumption, Zenon DEF SizeFacts
<1>2. IsFiniteSet(Pointers) /\ Cardinality(Pointers) = N + 1
  BY <1>1, SMTT(30) DEF SizeFacts, Pointers
<1>3. IsFiniteSet(Used) /\ Cardinality(Used) <= N
  <2> DEFINE f == [h \in ServerHandles |-> handles[h]]
  <2>1. f \in [ServerHandles -> Used] /\ \A y \in Used : \E h \in ServerHandles : f[h] = y
    BY Zenon
  <2> HIDE DEF f, Used
  <2>2. Onto(ServerHandles, Used)
    BY <2>1, Zenon DEF Onto
  <2> QED
    BY <2>2, HandlesAssumption, Zenon DEF SizeFacts
<1>4. IsFiniteSet(Mapped) /\ Cardinality(Mapped) <= N
  <2> DEFINE f == [h \in ServerHandles |-> states[handles[h]].routes]
  <2>1. f \in [ServerHandles -> Mapped] /\ \A y \in Mapped : \E h \in ServerHandles : f[h] = y
    BY Zenon
  <2> HIDE DEF f, Mapped
  <2>2. Onto(ServerHandles, Mapped)
    BY <2>1, Zenon DEF Onto
  <2> QED
    BY <2>2, HandlesAssumption, Zenon DEF SizeFacts
<1> HIDE DEF N, Used, Mapped
<1>5. ASSUME NEW S, IsFiniteSet(S), Cardinality(S) <= N PROVE \E id \in Pointers : id \notin S
  <2> SUFFICES ASSUME Pointers \subseteq S PROVE FALSE
    BY Zenon
  <2>1. Cardinality(Pointers) <= Cardinality(S)
    BY <1>5, Zenon DEF SizeFacts
  <2>2. Cardinality(S) \in Nat
    BY <1>5, Zenon DEF SizeFacts
  <2> QED
    BY <1>1, <1>2, <1>5, <2>1, <2>2
<1>6. \E id \in Pointers : ~Live(id)
  BY <1>3, <1>5 DEF Live, Used
<1>7. \E m \in Pointers : ~LiveMap(m)
  BY <1>4, <1>5 DEF LiveMap, Live, Mapped
<1> QED
  BY <1>2, <1>6, <1>7, Zenon DEF FreeState, FreeMap

(* A state one handle points to has no other, and a map one live state points to has no other. *)
LEMMA OnlyHandle ==
    ASSUME SizeFacts, NEW h \in ServerHandles, Refs(handles[h]) = 1, NEW g \in ServerHandles, handles[g] = handles[h]
    PROVE  g = h
<1> DEFINE S == {x \in ServerHandles : handles[x] = handles[h]}
<1>1. IsFiniteSet(S)
  BY HandlesAssumption, Zenon DEF SizeFacts
<1>2. Cardinality(S) = 1 /\ g \in S /\ h \in S
  BY Zenon DEF Refs
<1> QED
  BY <1>1, <1>2, OnlyOne, Zenon

LEMMA OnlyState ==
    ASSUME SizeFacts, ConfigTypes, NEW id \in Pointers, Live(id), ~(MapRefs(states[id].routes) > 1),
           NEW i \in Pointers, Live(i), states[i].routes = states[id].routes
    PROVE  i = id
<1> DEFINE S == {x \in Pointers : Live(x) /\ states[x].routes = states[id].routes}
<1>1. IsFiniteSet(S)
  <2>1. S \in SUBSET Pointers
    BY Zenon
  <2> QED
    BY <2>1, SomeFree, Zenon DEF SizeFacts
<1>2. i \in S /\ id \in S /\ ~(Cardinality(S) > 1)
  BY Zenon DEF MapRefs
<1> HIDE DEF S
<1>3. Cardinality(S) = 1
  BY <1>1, <1>2, NotMany, Zenon
<1> QED
  BY <1>1, <1>2, <1>3, OnlyOne, Zenon

(* state_mut, under each setter: the handle gets its own state, and no other handle sees it. *)
LEMMA SetKeeps ==
    ASSUME SizeFacts, ClonesInv, NEW h \in ServerHandles, handles[h] # Nobody, NEW config, ConfigOK(config), Set(h, config)
    PROVE  ClonesInv'
<1> DEFINE id == IF Refs(handles[h]) = 1 THEN handles[h] ELSE FreeState
<1>0. ConfigTypes /\ HandleInv(h) /\ handles[h] \in Pointers
  BY Zenon DEF ClonesInv, ConfigTypes
<1>1. id \in Pointers /\ id # Nobody
  BY <1>0, SomeFree DEF Pointers, Nobody
<1>2. ASSUME NEW g \in ServerHandles \ {h}, handles[g] # Nobody PROVE handles[g] # id
  BY <1>0, <1>2, SomeFree, OnlyHandle, Zenon DEF Live
<1>3. /\ handles' = [handles EXCEPT ![h] = id]
      /\ states' = [states EXCEPT ![id] = [states[handles[h]] EXCEPT !.config = config]]
      /\ own' = [own EXCEPT ![h].config = config] /\ maps' = maps
  BY Zenon DEF Set, StateMut
<1> HIDE DEF id
<1>4. ConfigTypes'
  BY <1>0, <1>1, <1>3 DEF ConfigTypes
<1>5. HandleInv(h)'
  BY <1>0, <1>1, <1>3, Zenon DEF ConfigTypes, HandleInv
<1>6. ASSUME NEW g \in ServerHandles \ {h} PROVE HandleInv(g)'
  BY <1>0, <1>1, <1>2, <1>3 DEF ConfigTypes, HandleInv, ClonesInv
<1>7. \A g \in ServerHandles : ConfigOK(own'[g].config)
  BY <1>0, <1>3 DEF ConfigTypes, ClonesInv
<1> QED
  BY <1>4, <1>5, <1>6, <1>7, Zenon DEF ClonesInv, HandleInv, ConfigOK

(* insert_route: the routes are copied with the state, or when another state points to them. *)
LEMMA InsertKeeps ==
    ASSUME SizeFacts, ClonesInv, NEW h \in ServerHandles, NEW path, NEW route, InsertRoute(h, path, route)
    PROVE  ClonesInv'
<1> DEFINE id == IF Refs(handles[h]) = 1 THEN handles[h] ELSE FreeState
           old == states[handles[h]].routes
           m == IF id # handles[h] \/ MapRefs(old) > 1 THEN FreeMap ELSE old
           routes == [own[h].routes EXCEPT ![path] = route]
<1>0. /\ ConfigTypes /\ handles[h] \in Pointers /\ handles[h] # Nobody /\ Live(handles[h])
      /\ Config(h) = own[h].config /\ RoutesOf(h) = own[h].routes
  <2>1. ConfigTypes /\ HandleInv(h) /\ handles[h] # Nobody
    BY Zenon DEF ClonesInv, InsertRoute, Changes
  <2> QED
    BY <2>1, Zenon DEF ConfigTypes, HandleInv, Config, RoutesOf, Live
<1>1. id \in Pointers /\ id # Nobody /\ m \in Pointers
  BY <1>0, SomeFree, SMTT(30) DEF Pointers, Nobody, ConfigTypes
<1>2. ASSUME NEW g \in ServerHandles \ {h}, handles[g] # Nobody
      PROVE  handles[g] # id /\ handles[g] \in Pointers /\ states[handles[g]].routes # m
  <2>1. handles[g] # id
    BY <1>0, <1>2, SomeFree, OnlyHandle, Zenon DEF Live
  <2>2. handles[g] \in Pointers /\ Live(handles[g])
    BY <1>0, <1>2, Zenon DEF ConfigTypes, Live
  <2>3. CASE m = FreeMap
    <3>1. LiveMap(states[handles[g]].routes) /\ ~LiveMap(FreeMap)
      BY <1>0, <2>2, SomeFree, Zenon DEF LiveMap
    <3> QED
      BY <2>1, <2>2, <2>3, <3>1, Zenon
  <2>4. CASE m # FreeMap
    <3>1. id = handles[h] /\ ~(MapRefs(old) > 1) /\ m = old
      BY <2>4, Zenon
    <3> QED
      BY <1>0, <2>1, <2>2, <3>1, OnlyState, Zenon
  <2> QED
    BY <2>1, <2>2, <2>3, <2>4, Zenon
<1>3. /\ handles' = [handles EXCEPT ![h] = id]
      /\ maps' = [maps EXCEPT ![m] = routes]
      /\ states' = [states EXCEPT ![id] = [config |-> own[h].config, routes |-> m]]
      /\ own' = [own EXCEPT ![h].routes = routes]
  BY <1>0, Zenon DEF InsertRoute
<1> HIDE DEF id, m, routes
<1>4. ConfigTypes'
  BY <1>0, <1>1, <1>3, Zenon DEF ConfigTypes
<1>5. HandleInv(h)'
  BY <1>0, <1>1, <1>3, Zenon DEF ConfigTypes, HandleInv
<1>6. ASSUME NEW g \in ServerHandles \ {h} PROVE HandleInv(g)'
  BY <1>0, <1>1, <1>2, <1>3, Zenon DEF ConfigTypes, HandleInv, ClonesInv
<1>7. \A g \in ServerHandles : ConfigOK(own'[g].config)
  BY <1>0, <1>3, Zenon DEF ConfigTypes, ClonesInv
<1> QED
  BY <1>4, <1>5, <1>6, <1>7, Zenon DEF ClonesInv, HandleInv, ConfigOK

(* Server::clone: the clone reads what the handle reads. *)
LEMMA CopyKeeps ==
    ASSUME ClonesInv, NEW h \in ServerHandles, Copy(h), UNCHANGED <<states, maps>>
    PROVE  ClonesInv' /\ FreeHandle \in ServerHandles /\ handles[FreeHandle] = Nobody
<1> DEFINE f == FreeHandle
<1>1. f \in ServerHandles /\ handles[f] = Nobody
  BY Zenon DEF Copy, FreeHandle
<1>2. handles' = [handles EXCEPT ![f] = handles[h]] /\ own' = [own EXCEPT ![f] = own[h]]
  BY Zenon DEF Copy
<1> HIDE DEF f
<1>3. ConfigTypes'
  BY <1>1, <1>2, Zenon DEF ClonesInv, ConfigTypes
<1>4. \A g \in ServerHandles : HandleInv(g)'
  BY <1>1, <1>2, Zenon DEF ClonesInv, ConfigTypes, HandleInv
<1>5. \A g \in ServerHandles : ConfigOK(own'[g].config)
  BY <1>1, <1>2, Zenon DEF ClonesInv, ConfigTypes
<1> QED
  BY <1>1, <1>3, <1>4, <1>5, Zenon DEF f, ClonesInv, HandleInv, ConfigOK

(* Dropping a handle frees the state if it was its last, and the routes if that was their last. *)
LEMMA ReleaseKeeps ==
    ASSUME SizeFacts, ClonesInv, NEW h \in ServerHandles, handles[h] # Nobody, DropHandle(h)
    PROVE  ClonesInv'
<1> DEFINE id == handles[h]
           m == states[id].routes
           last == Refs(id) = 1
           freed == last /\ MapRefs(m) = 1
<1>0. ConfigTypes /\ id \in Pointers /\ Live(id) /\ m \in Pointers /\ 1 \in Pointers
  <2>1. Cardinality(ServerHandles) \in Nat
    BY HandlesAssumption, Zenon DEF SizeFacts
  <2> QED
    BY <2>1, SMTT(30) DEF ClonesInv, ConfigTypes, Live, Pointers
<1>1. ASSUME NEW g \in ServerHandles \ {h}, handles[g] # Nobody
      PROVE  /\ handles[g] \in Pointers
             /\ last => handles[g] # id
             /\ freed => states[handles[g]].routes # m
  <2>1. handles[g] \in Pointers /\ Live(handles[g])
    BY <1>0, <1>1, Zenon DEF ConfigTypes, Live
  <2>2. last => handles[g] # id
    BY <1>0, OnlyHandle, Zenon
  <2>3. freed => states[handles[g]].routes # m
    <3> SUFFICES ASSUME freed, states[handles[g]].routes = m PROVE FALSE
      BY Zenon
    <3>1. ~(MapRefs(m) > 1)
      OBVIOUS
    <3> QED
      BY <1>0, <2>1, <2>2, <3>1, OnlyState, Zenon
  <2> QED
    BY <2>1, <2>2, <2>3, Zenon
<1>2. /\ handles' = [handles EXCEPT ![h] = Nobody]
      /\ own' = [own EXCEPT ![h] = Unused]
      /\ states' = IF last THEN [states EXCEPT ![id] = [config |-> NewConfig, routes |-> 1]] ELSE states
      /\ maps' = IF freed THEN [maps EXCEPT ![m] = NoRoutes] ELSE maps
  BY Zenon DEF DropHandle
<1> HIDE DEF last, freed
<1>3. ConfigTypes'
  BY <1>0, <1>2, Zenon DEF ConfigTypes, Unused
<1>4. HandleInv(h)'
  BY <1>0, <1>2, Zenon DEF ConfigTypes, HandleInv
<1>5. ASSUME NEW g \in ServerHandles \ {h} PROVE HandleInv(g)'
  BY <1>0, <1>1, <1>2, Zenon DEF ConfigTypes, HandleInv, ClonesInv
<1>6. ConfigOK(NewConfig)
  BY Zenon DEF ConfigOK, NewConfig, ConfigFields
<1>7. \A g \in ServerHandles : ConfigOK(own'[g].config)
  BY <1>0, <1>2, <1>6, Zenon DEF ConfigTypes, ClonesInv, Unused
<1> QED
  BY <1>3, <1>4, <1>5, <1>7, Zenon DEF ClonesInv, HandleInv, ConfigOK

(* What set_options and the other setters leave is derived from the options in place. *)
LEMMA SettersOK ==
    ASSUME NEW config, ConfigOK(config)
    PROVE  /\ \A options : ConfigOK(WithOptions(config, options))
           /\ \A chain : ConfigOK([config EXCEPT !.authorizer = chain])
           /\ \A chain : ConfigOK([config EXCEPT !.interceptors = chain])
           /\ \A metrics : ConfigOK([config EXCEPT !.metrics = metrics])
BY Zenon DEF ConfigOK, ConfigFields, WithOptions

(* What one handle is configured with is its own. *)
LEMMA ConfigReads ==
    ASSUME ClonesInv, NEW h \in ServerHandles, handles[h] # Nobody
    PROVE  Config(h) = own[h].config /\ RoutesOf(h) = own[h].routes /\ ConfigOK(Config(h))
BY Zenon DEF ClonesInv, HandleInv, Config, RoutesOf

LEMMA ClonesInit ==
    ASSUME SizeFacts, NEW routes, NEW chain, Start(routes, chain)
    PROVE  ClonesInv
<1> DEFINE first == CHOOSE h \in ServerHandles : TRUE
           config == [NewConfig EXCEPT !.authorizer = chain]
<1>1. 1 \in Pointers
  <2>1. Cardinality(ServerHandles) \in Nat
    BY HandlesAssumption, Zenon DEF SizeFacts
  <2> QED
    BY <2>1 DEF Pointers
<1>2. ConfigOK(NewConfig) /\ ConfigOK(config)
  BY Zenon DEF ConfigOK, NewConfig, ConfigFields
<1>3. /\ handles = [h \in ServerHandles |-> IF h = first THEN 1 ELSE Nobody]
      /\ states = [id \in Pointers |->
                      [config |-> IF id = 1 THEN config ELSE NewConfig, routes |-> 1]]
      /\ maps = [m \in Pointers |-> IF m = 1 THEN routes ELSE NoRoutes]
      /\ own = [h \in ServerHandles |->
                   IF h = first THEN [config |-> config, routes |-> routes] ELSE Unused]
  BY Zenon DEF Start
<1> HIDE DEF first, config
<1>4. ConfigTypes
  BY <1>1, <1>3, Zenon DEF ConfigTypes, Unused
<1>5. \A h \in ServerHandles : HandleInv(h)
  BY <1>1, <1>3, Zenon DEF HandleInv
<1>6. \A h \in ServerHandles : ConfigOK(own[h].config)
  BY <1>2, <1>3, Zenon DEF Unused
<1> QED
  BY <1>4, <1>5, <1>6, Zenon DEF ClonesInv

(* A step that leaves the call and its clone alone. *)
LEMMA CallFrame ==
    ASSUME CallInv, rpc' = rpc,
           InCall => own'[rpc.server] = own[rpc.server] /\ handles'[rpc.server] # Nobody
    PROVE  CallInv'
BY Zenon DEF CallInv, InCall, OwnRoute, OwnAdmits

(* A step of the call reads the configuration of its clone. *)
LEMMA CallReads ==
    ASSUME ClonesInv, CallInv, InCall
    PROVE  /\ Config(rpc.server) = own[rpc.server].config /\ CallRoute = OwnRoute
           /\ Kind(rpc.request) \in {"unary", "client", "server", "bidi"}
           /\ DOMAIN rpc = RpcFields
           /\ SettledSoFar(rpc, OwnRoute, OwnAdmits) /\ Decided(rpc, OwnRoute, OwnAdmits)
<1>1. rpc.server \in ServerHandles /\ handles[rpc.server] # Nobody /\ rpc.request \in Requests
  BY Zenon DEF CallInv
<1>2. Config(rpc.server) = own[rpc.server].config /\ RoutesOf(rpc.server) = own[rpc.server].routes
  BY <1>1, ConfigReads, Zenon
<1>3. Kind(rpc.request) \in {"unary", "client", "server", "bidi"}
  BY <1>1, RequestKinds, Zenon DEF Kind
<1> QED
  BY <1>2, <1>3, Zenon DEF CallRoute, CallInv, OwnRoute

(* A step of the call changes nothing else. *)
LEMMA StepKeeps ==
    ASSUME CallInv, InCall, NEW c, Step(c),
           DOMAIN c = RpcFields, c.server = rpc.server, c.request = rpc.request,
           SettledSoFar(c, OwnRoute, OwnAdmits), Decided(c, OwnRoute, OwnAdmits)
    PROVE  CallInv'
<1>1. c.stage \notin {"none", "gone"}
  BY Zenon DEF SettledSoFar
<1>2. OwnRoute' = OwnRoute /\ OwnAdmits' = OwnAdmits
  BY Zenon DEF Step, OwnRoute, OwnAdmits
<1> QED
  BY <1>1, <1>2, Zenon DEF CallInv, InCall, Step

(* The admission of a streaming call. *)
LEMMA AdmitKeeps ==
    ASSUME ClonesInv, CallInv, AdmitStreaming
    PROVE  CallInv'
<1> DEFINE result == AdmitRequest(Config(rpc.server), rpc.request)
           c == IF result = "admitted" THEN [rpc EXCEPT !.stage = "admitted", !.asked = TRUE]
                ELSE Ended(result)
<1>1. InCall /\ Step(c) /\ rpc.stage = "read" /\ Kind(rpc.request) # "unary"
  BY Zenon DEF AdmitStreaming, AtStage, InCall
<1>2. OwnAdmits <=> result = "admitted"
  BY <1>1, CallReads, Zenon DEF OwnAdmits
<1>3. result \in {"invalid", "unauthenticated", "admitted"}
  BY Zenon DEF AdmitRequest
<1>4. DOMAIN rpc = RpcFields /\ SettledSoFar(rpc, OwnRoute, OwnAdmits)
  BY <1>1, CallReads, Zenon
<1> HIDE DEF result
<1>5. /\ DOMAIN c = RpcFields /\ c.server = rpc.server /\ c.request = rpc.request
      /\ SettledSoFar(c, OwnRoute, OwnAdmits)
  BY <1>1, <1>2, <1>3, <1>4, Zenon DEF SettledSoFar, RpcFields, Ended
<1>6. Decided(c, OwnRoute, OwnAdmits)
  BY <1>1, <1>2, <1>3, <1>4, Zenon DEF SettledSoFar, Decided, RpcFields, Ended
<1> QED
  BY <1>1, <1>5, <1>6, StepKeeps, Zenon

(* What settles the compression of the call's streams. *)
LEMMA NegotiateKeeps ==
    ASSUME ClonesInv, CallInv, Negotiate
    PROVE  CallInv'
<1>1. rpc.stage = "admitted" \/ (rpc.stage = "read" /\ Kind(rpc.request) = "unary")
  BY Zenon DEF Negotiate, AtStage
<1>2. InCall
  BY <1>1, Zenon DEF InCall
<1>3. DOMAIN rpc = RpcFields /\ CallRoute = OwnRoute /\ SettledSoFar(rpc, OwnRoute, OwnAdmits)
  BY <1>2, CallReads, Zenon
<1>4. PICK room \in BOOLEAN : NegotiateWith(room)
  BY Zenon DEF Negotiate
<1> DEFINE usable == Offer(rpc.request) # "none" /\ Config(rpc.server).budget # "none"
           allowed == IF usable THEN RouteCompressStream(OwnRoute) ELSE {}
           decodes == "requests" \in allowed /\ room
           left == allowed \ (IF decodes THEN {} ELSE {"requests"})
           c == [rpc EXCEPT !.stage = "negotiated", !.decodes = decodes, !.stream = left]
           refuses == RefusesOptimistic(OwnRoute, rpc.request, decodes)
<1>5. Step(IF refuses THEN Ended("refused") ELSE c)
  BY <1>3, <1>4, Zenon DEF NegotiateWith
<1>6. decodes \in BOOLEAN
  BY Zenon
<1>7. decodes => AnswersAtDispatch(OwnRoute)
  BY Zenon DEF AnswersAtDispatch
<1>8. left \subseteq RouteCompressStream(OwnRoute)
  BY Zenon
<1>9. /\ rpc.outcome = "none" /\ ~rpc.answered /\ rpc.unreliable = {} /\ rpc.asked \in BOOLEAN
      /\ ~rpc.decodes /\ rpc.stream = {}
      /\ rpc.answered \in BOOLEAN /\ rpc.decodes \in BOOLEAN
      /\ rpc.asked => OwnAdmits /\ Kind(rpc.request) # "unary"
      /\ ~rpc.asked => Kind(rpc.request) = "unary"
  BY <1>1, <1>3, Zenon DEF SettledSoFar
<1> HIDE DEF decodes, left
<1>10. CASE refuses
  <2> DEFINE e == Ended("refused")
  <2>1. /\ Offer(rpc.request) = "optimistic" /\ IsStreaming(OwnRoute)
        /\ OwnRoute.kind = Kind(rpc.request)
    BY <1>10, Zenon DEF RefusesOptimistic
  <2>2. rpc.asked /\ OwnAdmits
    BY <1>9, <2>1, Zenon DEF IsStreaming
  <2>3. /\ DOMAIN e = RpcFields /\ e.server = rpc.server /\ e.request = rpc.request
        /\ e.stage = "done" /\ e.outcome = "refused" /\ e.asked = rpc.asked
        /\ e.decodes = rpc.decodes /\ e.stream = rpc.stream /\ e.answered = rpc.answered
        /\ e.unreliable = rpc.unreliable
    BY <1>3, Zenon DEF RpcFields, Ended
  <2> HIDE DEF e
  <2>4. SettledSoFar(e, OwnRoute, OwnAdmits)
    BY <1>9, <2>2, <2>3, Zenon DEF SettledSoFar
  <2>5. Decided(e, OwnRoute, OwnAdmits)
    BY <1>9, <2>1, <2>2, <2>3, Zenon DEF Decided
  <2> QED
    BY <1>2, <1>5, <1>10, <2>3, <2>4, <2>5, StepKeeps, Zenon DEF e
<1>11. CASE ~refuses
  <2>1. /\ DOMAIN c = RpcFields /\ c.server = rpc.server /\ c.request = rpc.request
        /\ c.stage = "negotiated" /\ c.decodes = decodes /\ c.stream = left
        /\ c.asked = rpc.asked /\ c.answered = rpc.answered /\ c.unreliable = rpc.unreliable
        /\ c.outcome = rpc.outcome
    BY <1>3, Zenon DEF RpcFields
  <2> HIDE DEF c
  <2>2. SettledSoFar(c, OwnRoute, OwnAdmits)
    BY <1>6, <1>7, <1>8, <1>9, <1>11, <2>1, Zenon DEF SettledSoFar
  <2>3. Decided(c, OwnRoute, OwnAdmits)
    BY <1>9, <2>1, Zenon DEF Decided
  <2> QED
    BY <1>2, <1>5, <1>11, <2>1, <2>2, <2>3, StepKeeps, Zenon
<1> QED
  BY <1>10, <1>11, Zenon

(* The answer is written with what the route's streams may use. *)
LEMMA AnswerKeeps ==
    ASSUME ClonesInv, CallInv, AnswerDispatch
    PROVE  CallInv'
<1> DEFINE c == [rpc EXCEPT !.stage = "answered", !.answered = AnswersAtDispatch(OwnRoute),
                            !.unreliable = RouteUnreliable(OwnRoute)]
<1>1. InCall /\ rpc.stage = "negotiated" /\ rpc.asked
  BY Zenon DEF AnswerDispatch, AtStage, InCall
<1>2. DOMAIN rpc = RpcFields /\ CallRoute = OwnRoute /\ SettledSoFar(rpc, OwnRoute, OwnAdmits)
  BY <1>1, CallReads, Zenon
<1>3. Step(c)
  BY <1>2, Zenon DEF AnswerDispatch
<1>4. AnswersAtDispatch(OwnRoute) \in BOOLEAN
  BY DEF AnswersAtDispatch
<1>5. /\ DOMAIN c = RpcFields /\ c.server = rpc.server /\ c.request = rpc.request
      /\ c.stage = "answered" /\ c.answered = AnswersAtDispatch(OwnRoute)
      /\ c.unreliable = RouteUnreliable(OwnRoute) /\ c.asked = rpc.asked
      /\ c.decodes = rpc.decodes /\ c.stream = rpc.stream /\ c.outcome = rpc.outcome
  BY <1>2, Zenon DEF RpcFields
<1> HIDE DEF c
<1>6. SettledSoFar(c, OwnRoute, OwnAdmits)
  BY <1>1, <1>2, <1>4, <1>5, Zenon DEF SettledSoFar
<1>7. Decided(c, OwnRoute, OwnAdmits)
  BY <1>1, <1>2, <1>5, Zenon DEF SettledSoFar, Decided
<1> QED
  BY <1>1, <1>3, <1>5, <1>6, <1>7, StepKeeps, Zenon

(* The end of the call: the handler, or what is told of the route instead. *)
LEMMA DispatchKeeps ==
    ASSUME ClonesInv, CallInv, DispatchStreaming \/ DispatchUnary
    PROVE  CallInv'
<1> DEFINE result == AdmitRequest(own[rpc.server].config, rpc.request)
           streaming == IF ~IsStreaming(OwnRoute) THEN "unimplemented"
                        ELSE IF OwnRoute.kind # Kind(rpc.request) THEN "mismatch" ELSE "handled"
           unary == IF result # "admitted" THEN result
                    ELSE IF OwnRoute.kind # "unary" THEN "unimplemented" ELSE "handled"
<1>1. InCall /\ (rpc.stage = "answered" \/ rpc.stage = "negotiated")
  BY Zenon DEF DispatchStreaming, DispatchUnary, AtStage, InCall
<1>2. /\ DOMAIN rpc = RpcFields /\ CallRoute = OwnRoute /\ SettledSoFar(rpc, OwnRoute, OwnAdmits)
      /\ Config(rpc.server) = own[rpc.server].config
      /\ Kind(rpc.request) \in {"unary", "client", "server", "bidi"}
  BY <1>1, CallReads, Zenon
<1>3. result \in {"invalid", "unauthenticated", "admitted"} /\ (OwnAdmits <=> result = "admitted")
  BY Zenon DEF AdmitRequest, OwnAdmits
<1>4. ASSUME NEW outcome, Step(Ended(outcome)), Decided(Ended(outcome), OwnRoute, OwnAdmits)
      PROVE  CallInv'
  <2> DEFINE e == Ended(outcome)
  <2>1. /\ DOMAIN e = RpcFields /\ e.server = rpc.server /\ e.request = rpc.request
        /\ e.stage = "done" /\ e.asked = rpc.asked /\ e.decodes = rpc.decodes
        /\ e.stream = rpc.stream /\ e.answered = rpc.answered /\ e.unreliable = rpc.unreliable
    BY <1>2, Zenon DEF RpcFields, Ended
  <2> HIDE DEF e
  <2>2. SettledSoFar(e, OwnRoute, OwnAdmits)
    BY <1>1, <1>2, <2>1, Zenon DEF SettledSoFar
  <2> QED
    BY <1>1, <1>4, <2>1, <2>2, StepKeeps, Zenon DEF e
<1>5. ASSUME NEW outcome
      PROVE  /\ Ended(outcome).outcome = outcome /\ Ended(outcome).stage = "done"
             /\ Ended(outcome).request = rpc.request /\ Ended(outcome).decodes = rpc.decodes
             /\ Ended(outcome).answered = rpc.answered
  BY <1>2, Zenon DEF RpcFields, Ended
<1>6. ASSUME DispatchStreaming PROVE CallInv'
  <2>1. rpc.stage = "answered" /\ Step(Ended(streaming))
    BY <1>2, <1>6, Zenon DEF DispatchStreaming, AtStage
  <2>2. /\ OwnAdmits /\ Kind(rpc.request) # "unary"
        /\ ~RefusesOptimistic(OwnRoute, rpc.request, rpc.decodes)
        /\ rpc.decodes => rpc.answered
    BY <1>2, <2>1, Zenon DEF SettledSoFar
  <2>3. /\ streaming \in {"unimplemented", "mismatch", "handled"}
        /\ streaming = "unimplemented" => OwnRoute.kind # Kind(rpc.request)
        /\ streaming = "mismatch" => OwnRoute.kind # Kind(rpc.request) /\ IsStreaming(OwnRoute)
        /\ streaming = "handled" => OwnRoute.kind = Kind(rpc.request)
    BY <1>2, <2>2, Zenon DEF IsStreaming
  <2> HIDE DEF streaming
  <2>4. Decided(Ended(streaming), OwnRoute, OwnAdmits)
    BY <1>5, <2>2, <2>3, Zenon DEF Decided
  <2> QED
    BY <1>4, <2>1, <2>4, Zenon
<1>7. ASSUME DispatchUnary PROVE CallInv'
  <2>1. rpc.stage = "negotiated" /\ ~rpc.asked /\ Step(Ended(unary))
    BY <1>2, <1>7, Zenon DEF DispatchUnary, AtStage
  <2>2. /\ Kind(rpc.request) = "unary"
        /\ rpc.decodes => AnswersAtDispatch(OwnRoute)
        /\ ~RefusesOptimistic(OwnRoute, rpc.request, rpc.decodes)
    BY <1>2, <2>1, Zenon DEF SettledSoFar
  <2>3. OwnRoute.kind = "unary" => ~AnswersAtDispatch(OwnRoute)
    BY Zenon DEF AnswersAtDispatch, RouteCompressStream, IsStreaming
  <2>4. /\ unary \in {"unimplemented", "handled"} => OwnAdmits
        /\ unary \notin {"mismatch", "refused"}
        /\ unary = "unimplemented" => OwnRoute.kind # "unary"
        /\ unary = "handled" => OwnRoute.kind = "unary"
    BY <1>3, Zenon
  <2> HIDE DEF unary
  <2>5. Decided(Ended(unary), OwnRoute, OwnAdmits)
    BY <1>5, <2>2, <2>3, <2>4, Zenon DEF Decided
  <2> QED
    BY <1>4, <2>1, <2>5, Zenon
<1> QED
  BY <1>6, <1>7, Zenon

(* A stream's task takes a clone of its own. *)
LEMMA AcceptKeeps ==
    ASSUME ClonesInv, NEW h \in ServerHandles, NEW request \in Requests, AcceptRequest(h, request)
    PROVE  CallInv'
<1>1. /\ FreeHandle \in ServerHandles /\ handles' = [handles EXCEPT ![FreeHandle] = handles[h]]
      /\ handles[h] # Nobody
  BY Zenon DEF AcceptRequest, Copy, FreeHandle
<1>2. handles'[FreeHandle] # Nobody
  BY <1>1, Zenon DEF ClonesInv, ConfigTypes
<1>3. /\ DOMAIN rpc' = RpcFields /\ rpc'.stage = "read" /\ rpc'.server = FreeHandle
      /\ rpc'.request = request /\ rpc'.asked = FALSE /\ rpc'.decodes = FALSE /\ rpc'.stream = {}
      /\ rpc'.answered = FALSE /\ rpc'.unreliable = {} /\ rpc'.outcome = "none"
  BY Zenon DEF AcceptRequest, RpcFields
<1>4. ASSUME NEW route, NEW admitted \in BOOLEAN
      PROVE  SettledSoFar(rpc', route, admitted) /\ Decided(rpc', route, admitted)
  BY <1>3, Zenon DEF SettledSoFar, Decided
<1>5. OwnAdmits' \in BOOLEAN
  BY Zenon DEF OwnAdmits
<1> QED
  BY <1>1, <1>2, <1>3, <1>4, <1>5, Zenon DEF CallInv

(* The call's clone is dropped with the call. *)
LEMMA LeaveKeeps ==
    ASSUME EndRpc
    PROVE  CallInv'
BY Zenon DEF EndRpc, Gone, CallInv, InCall

(* What another handle does is not seen by the call. *)
LEMMA OthersKeep ==
    ASSUME ClonesInv, CallInv, NEW h \in ServerHandles, rpc' = rpc, InCall => h # rpc.server,
           \A g \in ServerHandles \ {h} : handles'[g] = handles[g] /\ own'[g] = own[g]
    PROVE  CallInv'
<1>1. InCall => rpc.server \in ServerHandles \ {h} /\ handles[rpc.server] # Nobody
  BY Zenon DEF CallInv
<1> QED
  BY <1>1, CallFrame, Zenon

(* A setter, a clone or a drop keeps both invariants. *)
LEMMA HandleStep ==
    ASSUME SizeFacts, ClonesInv, CallInv, NEW h \in ServerHandles,
           \/ \E options \in Options : SetOptions(h, options)
           \/ \E chain \in Authorizers : SetAuthorizer(h, chain)
           \/ ClearAuthorizer(h) \/ AddInterceptor(h) \/ ClearInterceptors(h) \/ SetMetrics(h)
    PROVE  ClonesInv' /\ CallInv'
<1>1. handles[h] # Nobody /\ Changes(h)
  BY Zenon DEF Changes, SetOptions, SetAuthorizer, ClearAuthorizer, AddInterceptor,
               ClearInterceptors, SetMetrics
<1>2. ConfigOK(Config(h))
  BY <1>1, ConfigReads, Zenon
<1>3. PICK config : ConfigOK(config) /\ Set(h, config)
  <2> DEFINE longer == Append(Config(h).interceptors, "interceptor")
  <2>1. CASE \E options \in Options : SetOptions(h, options)
    BY <1>2, <2>1, SettersOK, Zenon DEF SetOptions
  <2>2. CASE \E chain \in Authorizers : SetAuthorizer(h, chain)
    BY <1>2, <2>2, SettersOK, Zenon DEF SetAuthorizer
  <2>3. CASE ClearAuthorizer(h)
    BY <1>2, <2>3, SettersOK, Zenon DEF ClearAuthorizer
  <2>4. CASE AddInterceptor(h)
    <3>1. Set(h, [Config(h) EXCEPT !.interceptors = longer])
      BY <2>4, Zenon DEF AddInterceptor
    <3> QED
      BY <1>2, <3>1, SettersOK, Zenon
  <2>5. CASE ClearInterceptors(h)
    BY <1>2, <2>5, SettersOK, Zenon DEF ClearInterceptors
  <2>6. CASE SetMetrics(h)
    BY <1>2, <2>6, SettersOK, Zenon DEF SetMetrics
  <2> QED
    BY <2>1, <2>2, <2>3, <2>4, <2>5, <2>6, Zenon
<1>4. ClonesInv'
  BY <1>1, <1>3, SetKeeps, Zenon
<1>5. \A g \in ServerHandles \ {h} : handles'[g] = handles[g] /\ own'[g] = own[g]
  BY <1>3, Zenon DEF ClonesInv, ConfigTypes, Set, StateMut
<1> QED
  BY <1>1, <1>4, <1>5, OthersKeep, Zenon DEF Changes

(* Each step keeps both invariants. *)
LEMMA ConfigStep ==
    ASSUME SizeFacts, ClonesInv, CallInv, [ConfigNext]_cfgVars
    PROVE  ClonesInv' /\ CallInv'
<1>1. ASSUME NEW h \in ServerHandles, NEW path \in Paths, NEW route \in Routes, InsertRoute(h, path, route)
      PROVE  ClonesInv' /\ CallInv'
  <2>1. \A g \in ServerHandles \ {h} : handles'[g] = handles[g] /\ own'[g] = own[g]
    BY <1>1, Zenon DEF ClonesInv, ConfigTypes, InsertRoute
  <2> QED
    BY <1>1, <2>1, InsertKeeps, OthersKeep, Zenon DEF InsertRoute, Changes
<1>2. ASSUME NEW h \in ServerHandles, Clone(h) PROVE ClonesInv' /\ CallInv'
  <2>1. ClonesInv' /\ FreeHandle \in ServerHandles /\ handles[FreeHandle] = Nobody
    BY <1>2, CopyKeeps, Zenon DEF Clone
  <2>2. \A g \in ServerHandles \ {FreeHandle} : handles'[g] = handles[g] /\ own'[g] = own[g]
    BY <1>2, Zenon DEF ClonesInv, ConfigTypes, Clone, Copy
  <2>3. InCall => FreeHandle # rpc.server
    BY <2>1, Zenon DEF CallInv
  <2> QED
    BY <1>2, <2>1, <2>2, <2>3, OthersKeep, Zenon DEF Clone
<1>3. ASSUME NEW h \in ServerHandles, Drop(h) PROVE ClonesInv' /\ CallInv'
  <2>1. \A g \in ServerHandles \ {h} : handles'[g] = handles[g] /\ own'[g] = own[g]
    BY <1>3, Zenon DEF ClonesInv, ConfigTypes, Drop, DropHandle
  <2> QED
    BY <1>3, <2>1, ReleaseKeeps, OthersKeep, Zenon DEF Drop
<1>4. ASSUME NEW h \in ServerHandles, NEW request \in Requests, AcceptRequest(h, request)
      PROVE  ClonesInv' /\ CallInv'
  BY <1>4, AcceptKeeps, CopyKeeps, Zenon DEF AcceptRequest
<1>5. ASSUME NEW c, Step(c) PROVE ClonesInv'
  BY <1>5, Zenon DEF Step, ClonesInv, ConfigTypes, HandleInv
<1>6. CASE AdmitStreaming
  BY <1>5, <1>6, AdmitKeeps, Zenon DEF AdmitStreaming
<1>7. CASE Negotiate
  BY <1>5, <1>7, NegotiateKeeps, Zenon DEF Negotiate, NegotiateWith
<1>8. CASE AnswerDispatch
  BY <1>5, <1>8, AnswerKeeps, Zenon DEF AnswerDispatch
<1>9. CASE DispatchStreaming \/ DispatchUnary
  BY <1>5, <1>9, DispatchKeeps, Zenon DEF DispatchStreaming, DispatchUnary
<1>10. CASE EndRpc
  <2>1. InCall
    BY <1>10, Zenon DEF EndRpc, AtStage, InCall
  <2>2. rpc.server \in ServerHandles /\ handles[rpc.server] # Nobody /\ DropHandle(rpc.server)
    BY <1>10, <2>1, Zenon DEF CallInv, EndRpc
  <2> QED
    BY <1>10, <2>2, ReleaseKeeps, LeaveKeeps, Zenon
<1>11. CASE UNCHANGED cfgVars
  <2>1. ClonesInv'
    BY <1>11, Zenon DEF cfgVars, ClonesInv, ConfigTypes, HandleInv
  <2>2. CallInv'
    BY <1>11, CallFrame, Zenon DEF cfgVars, CallInv
  <2> QED
    BY <2>1, <2>2, Zenon
<1> QED
  BY <1>1, <1>2, <1>3, <1>4, <1>6, <1>7, <1>8, <1>9, <1>10, <1>11, HandleStep, Zenon DEF ConfigNext

(* What is settled of a call, and what is decided of it, is consistent. *)
LEMMA CallsAreConsistent ==
    ASSUME CallInv, InCall
    PROVE  DispatchIsConsistent
<1>1. /\ SettledSoFar(rpc, OwnRoute, OwnAdmits) /\ Decided(rpc, OwnRoute, OwnAdmits)
      /\ rpc.request \in Requests
  BY Zenon DEF CallInv
<1>2. rpc.stream \cap rpc.unreliable = {}
  BY <1>1, Zenon DEF SettledSoFar, RouteCompressStream, RouteUnreliable, WithoutUnreliable, Effective,
              StreamEffective
<1>3. StreamsRequests(Kind(rpc.request)) /\ OwnRoute.kind = Kind(rpc.request) => IsStreaming(OwnRoute)
  BY Zenon DEF StreamsRequests, IsStreaming
<1>4. /\ rpc.outcome = "handled" => ~RefusesOptimistic(OwnRoute, rpc.request, rpc.decodes)
      /\ rpc.outcome = "handled" => OwnRoute.kind = Kind(rpc.request)
  BY <1>1, Zenon DEF Decided
<1>5. rpc.outcome = "handled" /\ Offer(rpc.request) = "optimistic"
          /\ StreamsRequests(Kind(rpc.request)) => rpc.decodes
  BY <1>3, <1>4, Zenon DEF RefusesOptimistic
<1>6. /\ rpc.decodes /\ rpc.stage \in {"answered", "done"} /\ OwnRoute.kind = Kind(rpc.request)
          => rpc.answered
      /\ rpc.answered => OwnAdmits
  BY <1>1, Zenon DEF SettledSoFar, Decided
<1> QED
  BY <1>1, <1>2, <1>5, <1>6, Zenon DEF DispatchIsConsistent, Decided, OwnRoute, OwnAdmits

-----------------------------------------------------------------------------
(* With what is known of finite sets. *)
Finite == INSTANCE FiniteSetTheorems

(* The library speaks of the same finite sets and of the same sizes. *)
LEMMA SameSizes ==
    ASSUME NEW S
    PROVE  (IsFiniteSet(S) <=> Finite!IsFiniteSet(S)) /\ Cardinality(S) = Finite!Cardinality(S)
  BY Zenon DEF IsFiniteSet, Finite!IsFiniteSet, Cardinality, Finite!Cardinality

LEMMA SizesKnown == SizeFacts
<1>1. ASSUME NEW S, IsFiniteSet(S)
      PROVE  /\ Cardinality(S) \in Nat
             /\ (Cardinality(S) = 0 <=> S = {}) /\ (Cardinality(S) = 1 <=> \E x : S = {x})
  <2>1. Finite!IsFiniteSet(S) /\ Cardinality(S) = Finite!Cardinality(S)
    BY <1>1, SameSizes, Zenon
  <2> QED
    BY <2>1, Finite!FS_CardinalityType, Finite!FS_EmptySet, Finite!FS_Singleton, Zenon
<1>2. ASSUME NEW S, IsFiniteSet(S), NEW T,
             T \subseteq S \/ \E f : f \in Finite!Surjection(S, T)
      PROVE  IsFiniteSet(T) /\ Cardinality(T) <= Cardinality(S)
  <2>1. Finite!IsFiniteSet(S) /\ Cardinality(S) = Finite!Cardinality(S) /\ Cardinality(T) = Finite!Cardinality(T)
    BY <1>2, SameSizes, Zenon
  <2>2. Finite!IsFiniteSet(T) /\ Finite!Cardinality(T) <= Finite!Cardinality(S)
    BY <1>2, <2>1, Finite!FS_Subset, Finite!FS_Surjection, Zenon
  <2>3. IsFiniteSet(T)
    BY <2>2, SameSizes, Zenon
  <2> QED
    BY <2>1, <2>2, <2>3, Zenon
<1>3. ASSUME NEW n \in Nat PROVE IsFiniteSet(1..n) /\ Cardinality(1..n) = n
  <2>1. Finite!IsFiniteSet(1..n) /\ Finite!Cardinality(1..n) = n
    BY Finite!FS_Interval
  <2> QED
    BY <2>1, SameSizes, Zenon
<1>4. ASSUME NEW S, NEW T, Onto(S, T) PROVE \E f : f \in Finite!Surjection(S, T)
  BY <1>4, Zenon DEF Onto, Finite!Surjection
<1> QED
  BY <1>1, <1>2, <1>3, <1>4, Zenon DEF SizeFacts

(* Every Server handle reads what was configured through it, however clones share state with it,   *)
(* and a call is decided by the one configuration of its clone, in the order admission,            *)
(* negotiation, answer, dispatch (ServerState, state_mut, handle_stream, handle_streaming_rpc):    *)
(* for any number of handles, paths, routes, options, requests and changes.                        *)
THEOREM ServersStayConsistent == ConfigSpec => []ServersAreConsistent
<1>1. ConfigInit => ClonesInv /\ CallInv
  <2> SUFFICES ASSUME ConfigInit PROVE ClonesInv /\ CallInv
    BY Zenon
  <2>1. PICK routes, chain : Start(routes, chain)
    BY Zenon DEF ConfigInit
  <2>2. ClonesInv
    BY <2>1, SizesKnown, ClonesInit, Zenon
  <2>3. CallInv
    BY <2>1, Zenon DEF Start, NoCall, CallInv, InCall
  <2> QED
    BY <2>2, <2>3, Zenon
<1>2. ClonesInv /\ CallInv /\ [ConfigNext]_cfgVars => (ClonesInv /\ CallInv)'
  BY SizesKnown, ConfigStep, Zenon
<1>3. ClonesInv => ClonesIsolated
  BY ConfigReads, Zenon DEF ClonesIsolated, ConfigOK
<1>4. CallInv => DispatchIsConsistent
  BY CallsAreConsistent, Zenon DEF DispatchIsConsistent
<1> QED
  BY <1>1, <1>2, <1>3, <1>4, PTL DEF ConfigSpec, ServersAreConsistent

=============================================================================
