-------------------------- MODULE ServerCallProofs --------------------------
(***************************************************************************)
(* That the server gives the slots of a call back before its peer sees the *)
(* end, accounts for it once and with the code it sent, and cancels it if  *)
(* it is cut short, for any number of calls, limits and interceptors; and  *)
(* that the metadata a response is sent with is what was set last, for any *)
(* keys, values and interleaving of the sets with the takes.               *)
(***************************************************************************)
EXTENDS ServerCall, ResponseMetadata, TLAPS

(* The sets of metadata a call made, as they are logged. *)
SetEntries == [kind : Kinds, key : {NormalizeMetadataKey(k) : k \in Keys}, value : Values, ok : BOOLEAN]

(* What is appended follows all the rest. *)
LEMMA Appended ==
    ASSUME NEW sets \in Seq(SetEntries), NEW entry \in SetEntries
    PROVE  /\ Len(sets) \in Nat /\ DOMAIN sets = 1..Len(sets)
           /\ Append(sets, entry) \in Seq(SetEntries) /\ DOMAIN Append(sets, entry) = 1..(Len(sets) + 1)
           /\ Append(sets, entry)[Len(sets) + 1] = entry
           /\ \A i \in 1..Len(sets) : Append(sets, entry)[i] = sets[i]
  OBVIOUS

LEMMA Successor ==
    ASSUME NEW m \in Nat
    PROVE  /\ m + 1 \in Nat /\ (m + 1) - 1 = m
           /\ m + 1 \in 1..(m + 1) /\ m + 1 \notin 1..m /\ 1..(m + 1) = 1..m \cup {m + 1}
  OBVIOUS

LEMMA NothingSet == DOMAIN <<>> = {} /\ <<>> \in Seq(SetEntries)
  OBVIOUS

LEMMA UpTo ==
    ASSUME NEW n \in Nat, NEW j \in 1..n
    PROVE  j <= n
  BY SMTT(30)

Phases == {"unopened", "reading", "overflow", "authorizing", "answering", "handling", "responding",
           "writing", "closing", "finishing", "dropping", "done"}
Before == {"unopened", "reading", "overflow", "authorizing", "answering"}
Holding == {"reading", "authorizing", "answering", "handling", "responding", "writing", "dropping"}

Codes == {"none", "rejected", "ok", "error", "deadline", "failure", "cancelled"}
Sources == {"none", "Deadline", "PeerReset", "ConnectionLost", "ServerShutdown"}

TypeOK ==
    /\ phase \in [Calls -> Phases]
    /\ started \in [Calls -> Nat] /\ finished \in [Calls -> Nat]
    /\ recorded \in [Calls -> Codes] /\ sent \in [Calls -> Codes]
    /\ returned \in [Calls -> Nat] /\ ran \in [Calls -> Nat] /\ intercepted \in [Calls -> Nat]
    /\ completion \in [Calls -> {"none", "open", "closed"}]
    /\ code \in [Calls -> {"none", "failure"}]
    /\ token \in [Calls -> Sources]
    /\ failure \in [Calls -> Failures] /\ stopped \in [Calls -> {"no", "stop", "lost"}]
    /\ wire \in [Calls -> {"open", "status", "fin", "reset", "truncated"}]
    /\ streamSlots \subseteq Calls /\ requestSlots \subseteq Calls

(* A call holds slots between the first read and the last answer, and while its task is dropped. *)
SlotInv(c) == c \in streamSlots \cup requestSlots => phase[c] \in Holding

(* What the peer can see follows the phase. *)
WireInv(c) ==
    /\ phase[c] \notin {"finishing", "dropping", "done"} => wire[c] = "open"
    /\ phase[c] = "finishing" => wire[c] = "status"
    /\ phase[c] = "dropping" => wire[c] = "truncated"

(* Started once, when the handler runs or the call is rejected; finished by the status or the      *)
(* response stream that ends it.                                                                   *)
CountInv(c) ==
    /\ phase[c] \in Before => started[c] = 0 /\ finished[c] = 0 /\ completion[c] = "none"
    /\ phase[c] = "handling" => started[c] = 1 /\ finished[c] = 0 /\ completion[c] = "none"
    /\ phase[c] \in {"responding", "writing", "closing", "finishing"} =>
           started[c] = 1 /\ (completion[c] = "none" => finished[c] = 1)
    /\ phase[c] \in {"authorizing", "answering", "responding", "writing"} => c \in Streaming
    /\ phase[c] = "writing" => completion[c] = "open"
    /\ phase[c] \in {"dropping", "done"} =>
           completion[c] # "open" /\ finished[c] <= started[c] /\ started[c] <= 1
    /\ completion[c] = "open" => finished[c] = 0 /\ c \in Streaming
    /\ completion[c] = "closed" =>
           finished[c] = 1 /\ ran[c] = returned[c] /\ c \in Streaming
           /\ phase[c] \in {"closing", "finishing", "dropping", "done"}

(* Once its status is under way the code is recorded, or set for the response stream's Drop. *)
CodeInv(c) ==
    (phase[c] \in {"closing", "finishing"} \/ wire[c] = "fin") =>
        /\ completion[c] = "open" => code[c] = "failure" /\ sent[c] = "failure"
        /\ (c \notin Streaming \/ completion[c] = "closed") => recorded[c] = sent[c] /\ sent[c] # "none"

(* No status is chosen before the handler is over; one that was has run the finish functions, but  *)
(* for that of a failed request; and only a handler that was dropped leaves no end.                *)
AccountInv(c) ==
    /\ phase[c] \in Before \cup {"handling"} => sent[c] = "none"
    /\ (phase[c] \in {"dropping", "done"} /\ finished[c] # started[c]) =>
           completion[c] = "none" /\ sent[c] = "none" /\ (token[c] # "none" \/ wire[c] = "truncated")
    /\ (completion[c] = "none" /\ sent[c] \notin {"none", "failure"}) =>
           finished[c] = 1 /\ ran[c] = returned[c]

(* A call that was cut short is cancelled. *)
CancelInv(c) ==
    (Interrupted(c) /\ sent[c] # "rejected" /\ wire[c] # "truncated") => token[c] # "none"

CallOK(c) == SlotInv(c) /\ WireInv(c) /\ CountInv(c) /\ CodeInv(c) /\ AccountInv(c) /\ CancelInv(c)
AllOK == \A c \in Calls : CallOK(c)
ServerInv == TypeOK /\ AllOK

(* A step that leaves call d alone. *)
Same(d) ==
    /\ phase'[d] = phase[d] /\ wire'[d] = wire[d] /\ sent'[d] = sent[d] /\ token'[d] = token[d]
    /\ started'[d] = started[d] /\ finished'[d] = finished[d] /\ recorded'[d] = recorded[d]
    /\ returned'[d] = returned[d] /\ ran'[d] = ran[d]
    /\ completion'[d] = completion[d] /\ code'[d] = code[d]
    /\ d \in streamSlots' \cup requestSlots' => d \in streamSlots \cup requestSlots
    /\ timedOut => timedOut'

(* A call that a step leaves alone, but for slots given back and a drain that times out, stays as *)
(* the invariant wants it.                                                                        *)
LEMMA SameCall ==
    ASSUME NEW d \in Calls, CallOK(d), Same(d)
    PROVE  CallOK(d)'
  BY DEF CallOK, Same, SlotInv, WireInv, CountInv, CodeInv, AccountInv, CancelInv, Interrupted

(* Every step keeps the invariant: an action of one call's task leaves the other calls alone, and *)
(* takes its own from one phase to the next with the accounts of that phase.                      *)
LEMMA ServerStep ==
    ASSUME ServerInv, [Next]_vars
    PROVE  AllOK'
<1> USE CallsAssumption, ServerLimits
       DEF Phases, Failures, Codes, Sources, GoTo, Release, Cancel, StopSource,
       RecordStarted, RecordFinished, Answer, slots, events, client, server, Before, Holding
<1>a. TypeOK
  BY Zenon DEF ServerInv
<1>b. \A c \in Calls : CallOK(c)
  BY Zenon DEF ServerInv, AllOK
<1>1. ASSUME NEW c \in Calls, Accept(c) PROVE AllOK'
  <2> USE DEF Accept
  <2>1. ASSUME NEW d \in Calls \ {c} PROVE Same(d)
    BY <1>a, <1>1 DEF TypeOK, Same
  <2>2. CallOK(c)
    BY <1>b, Zenon
  <2>3. CallOK(c)'
    BY <1>a, <1>1, <2>2, SMTT(30)
       DEF TypeOK, CallOK, SlotInv, WireInv, CountInv, CodeInv, AccountInv, CancelInv, Interrupted
  <2> QED
    BY <1>b, <2>1, <2>3, SameCall, Zenon DEF AllOK
<1>2. ASSUME NEW c \in Calls, ReadFails(c) PROVE AllOK'
  <2> USE DEF ReadFails, Reject, RecordRejected
  <2>1. ASSUME NEW d \in Calls \ {c} PROVE Same(d)
    BY <1>a, <1>2 DEF TypeOK, Same
  <2>2. CallOK(c)
    BY <1>b, Zenon
  <2>3. CallOK(c)'
    BY <1>a, <1>2, <2>2, SMTT(30)
       DEF TypeOK, CallOK, SlotInv, WireInv, CountInv, CodeInv, AccountInv, CancelInv, Interrupted
  <2> QED
    BY <1>b, <2>1, <2>3, SameCall, Zenon DEF AllOK
<1>3. ASSUME NEW c \in Calls, RejectOverflow(c) PROVE AllOK'
  <2> USE DEF RejectOverflow, Reject, RecordRejected
  <2>1. ASSUME NEW d \in Calls \ {c} PROVE Same(d)
    BY <1>a, <1>3 DEF TypeOK, Same
  <2>2. CallOK(c)
    BY <1>b, Zenon
  <2>3. CallOK(c)'
    BY <1>a, <1>3, <2>2, SMTT(30)
       DEF TypeOK, CallOK, SlotInv, WireInv, CountInv, CodeInv, AccountInv, CancelInv, Interrupted
  <2> QED
    BY <1>b, <2>1, <2>3, SameCall, Zenon DEF AllOK
<1>4. ASSUME NEW c \in Calls, Read(c) PROVE AllOK'
  <2> USE DEF Read, Dispatch, StartHandler, Reject, RecordRejected
  <2>1. ASSUME NEW d \in Calls \ {c} PROVE Same(d)
    BY <1>a, <1>4 DEF TypeOK, Same
  <2>2. CallOK(c)
    BY <1>b, Zenon
  <2>3. CallOK(c)'
    BY <1>a, <1>4, <2>2, SMTT(30)
       DEF TypeOK, CallOK, SlotInv, WireInv, CountInv, CodeInv, AccountInv, CancelInv, Interrupted
  <2> QED
    BY <1>b, <2>1, <2>3, SameCall, Zenon DEF AllOK
<1>5. ASSUME NEW c \in Calls, Admit(c) PROVE AllOK'
  <2> USE DEF Admit, Dispatch, StartHandler, Reject, RecordRejected
  <2>1. ASSUME NEW d \in Calls \ {c} PROVE Same(d)
    BY <1>a, <1>5 DEF TypeOK, Same
  <2>2. CallOK(c)
    BY <1>b, Zenon
  <2>3. CallOK(c)'
    BY <1>a, <1>5, <2>2, SMTT(30)
       DEF TypeOK, CallOK, SlotInv, WireInv, CountInv, CodeInv, AccountInv, CancelInv, Interrupted
  <2> QED
    BY <1>b, <2>1, <2>3, SameCall, Zenon DEF AllOK
<1>6. ASSUME NEW c \in Calls, NEW deadline \in BOOLEAN, Deny(c, deadline) PROVE AllOK'
  <2> USE DEF Deny, Reject, RecordRejected
  <2>1. ASSUME NEW d \in Calls \ {c} PROVE Same(d)
    BY <1>a, <1>6 DEF TypeOK, Same
  <2>2. CallOK(c)
    BY <1>b, Zenon
  <2>3. CallOK(c)'
    BY <1>a, <1>6, <2>2, SMTT(30)
       DEF TypeOK, CallOK, SlotInv, WireInv, CountInv, CodeInv, AccountInv, CancelInv, Interrupted
  <2> QED
    BY <1>b, <2>1, <2>3, SameCall, Zenon DEF AllOK
<1>7. ASSUME NEW c \in Calls, AnswerAtDispatch(c) PROVE AllOK'
  <2> USE DEF AnswerAtDispatch, StartHandler
  <2>1. ASSUME NEW d \in Calls \ {c} PROVE Same(d)
    BY <1>a, <1>7 DEF TypeOK, Same
  <2>2. CallOK(c)
    BY <1>b, Zenon
  <2>3. CallOK(c)'
    BY <1>a, <1>7, <2>2, SMTT(30)
       DEF TypeOK, CallOK, SlotInv, WireInv, CountInv, CodeInv, AccountInv, CancelInv, Interrupted
  <2> QED
    BY <1>b, <2>1, <2>3, SameCall, Zenon DEF AllOK
<1>8. ASSUME NEW c \in Calls, NEW finish \in Finishing, Intercept(c, finish) PROVE AllOK'
  <2> USE DEF Intercept
  <2>1. ASSUME NEW d \in Calls \ {c} PROVE Same(d)
    BY <1>a, <1>8 DEF TypeOK, Same
  <2>2. CallOK(c)
    BY <1>b, Zenon
  <2>3. CallOK(c)'
    BY <1>a, <1>8, <2>2, ZenonT(30)
       DEF TypeOK, CallOK, SlotInv, WireInv, CountInv, CodeInv, AccountInv, CancelInv, Interrupted
  <2> QED
    BY <1>b, <2>1, <2>3, SameCall, Zenon DEF AllOK
<1>9. ASSUME NEW c \in Calls, NEW k \in {"error", "deadline"}, HandlerFails(c, k) PROVE AllOK'
  <2> USE DEF HandlerFails, Complete
  <2>1. ASSUME NEW d \in Calls \ {c} PROVE Same(d)
    BY <1>a, <1>9 DEF TypeOK, Same
  <2>2. CallOK(c)
    BY <1>b, Zenon
  <2>3. CallOK(c)'
    BY <1>a, <1>9, <2>2, SMTT(30)
       DEF TypeOK, CallOK, SlotInv, WireInv, CountInv, CodeInv, AccountInv, CancelInv, Interrupted
  <2> QED
    BY <1>b, <2>1, <2>3, SameCall, Zenon DEF AllOK
<1>10. ASSUME NEW c \in Calls, HandlerReturns(c) PROVE AllOK'
  <2> USE DEF HandlerReturns, Complete
  <2>1. ASSUME NEW d \in Calls \ {c} PROVE Same(d)
    BY <1>a, <1>10 DEF TypeOK, Same
  <2>2. CallOK(c)
    BY <1>b, Zenon
  <2>3. CallOK(c)'
    BY <1>a, <1>10, <2>2, SMTT(30)
       DEF TypeOK, CallOK, SlotInv, WireInv, CountInv, CodeInv, AccountInv, CancelInv, Interrupted
  <2> QED
    BY <1>b, <2>1, <2>3, SameCall, Zenon DEF AllOK
<1>11. ASSUME NEW c \in Calls, HandlingFails(c) PROVE AllOK'
  <2> USE DEF HandlingFails, Reset
  <2>1. ASSUME NEW d \in Calls \ {c} PROVE Same(d)
    BY <1>a, <1>11 DEF TypeOK, Same
  <2>2. CallOK(c)
    BY <1>b, Zenon
  <2>3. CallOK(c)'
    BY <1>a, <1>11, <2>2, SMTT(30)
       DEF TypeOK, CallOK, SlotInv, WireInv, CountInv, CodeInv, AccountInv, CancelInv, Interrupted
  <2> QED
    BY <1>b, <2>1, <2>3, SameCall, Zenon DEF AllOK
<1>12. ASSUME NEW c \in Calls, HandlingStopped(c) PROVE AllOK'
  <2> USE DEF HandlingStopped
  <2>1. ASSUME NEW d \in Calls \ {c} PROVE Same(d)
    BY <1>a, <1>12 DEF TypeOK, Same
  <2>2. CallOK(c)
    BY <1>b, Zenon
  <2>3. CallOK(c)'
    BY <1>a, <1>12, <2>2, SMTT(30)
       DEF TypeOK, CallOK, SlotInv, WireInv, CountInv, CodeInv, AccountInv, CancelInv, Interrupted
  <2> QED
    BY <1>b, <2>1, <2>3, SameCall, Zenon DEF AllOK
<1>13. ASSUME NEW c \in Calls, HandlingShutDown(c) PROVE AllOK'
  <2> USE DEF HandlingShutDown, Reset
  <2>1. ASSUME NEW d \in Calls \ {c} PROVE Same(d)
    BY <1>a, <1>13 DEF TypeOK, Same
  <2>2. CallOK(c)
    BY <1>b, Zenon
  <2>3. CallOK(c)'
    BY <1>a, <1>13, <2>2, SMTT(30)
       DEF TypeOK, CallOK, SlotInv, WireInv, CountInv, CodeInv, AccountInv, CancelInv, Interrupted
  <2> QED
    BY <1>b, <2>1, <2>3, SameCall, Zenon DEF AllOK
<1>14. ASSUME NEW c \in Calls, RespondMessages(c) PROVE AllOK'
  <2> USE DEF RespondMessages
  <2>1. ASSUME NEW d \in Calls \ {c} PROVE Same(d)
    BY <1>a, <1>14 DEF TypeOK, Same
  <2>2. CallOK(c)
    BY <1>b, Zenon
  <2>3. CallOK(c)'
    BY <1>a, <1>14, <2>2, ZenonT(30)
       DEF TypeOK, CallOK, SlotInv, WireInv, CountInv, CodeInv, AccountInv, CancelInv, Interrupted
  <2> QED
    BY <1>b, <2>1, <2>3, SameCall, Zenon DEF AllOK
<1>15. ASSUME NEW c \in Calls, NEW k \in {"ok", "error", "deadline"}, RespondStatus(c, k) PROVE AllOK'
  <2> USE DEF RespondStatus, FinishStreaming
  <2>1. ASSUME NEW d \in Calls \ {c} PROVE Same(d)
    BY <1>a, <1>15, SMTT(30) DEF TypeOK, Same
  <2>2. CallOK(c)
    BY <1>b, Zenon
  <2>3. CallOK(c)'
    BY <1>a, <1>15, <2>2, SMTT(30)
       DEF TypeOK, CallOK, SlotInv, WireInv, CountInv, CodeInv, AccountInv, CancelInv, Interrupted
  <2> QED
    BY <1>b, <2>1, <2>3, SameCall, Zenon DEF AllOK
<1>16. ASSUME NEW c \in Calls, RespondFailure(c) PROVE AllOK'
  <2> USE DEF RespondFailure
  <2>1. ASSUME NEW d \in Calls \ {c} PROVE Same(d)
    BY <1>a, <1>16 DEF TypeOK, Same
  <2>2. CallOK(c)
    BY <1>b, Zenon
  <2>3. CallOK(c)'
    BY <1>a, <1>16, <2>2, SMTT(30)
       DEF TypeOK, CallOK, SlotInv, WireInv, CountInv, CodeInv, AccountInv, CancelInv, Interrupted
  <2> QED
    BY <1>b, <2>1, <2>3, SameCall, Zenon DEF AllOK
<1>17. ASSUME NEW c \in Calls, DropSlots(c) PROVE AllOK'
  <2> USE DEF DropSlots
  <2>1. ASSUME NEW d \in Calls \ {c} PROVE Same(d)
    BY <1>a, <1>17 DEF TypeOK, Same
  <2>2. CallOK(c)
    BY <1>b, Zenon
  <2>3. CallOK(c)'
    BY <1>a, <1>17, <2>2, SMTT(30)
       DEF TypeOK, CallOK, SlotInv, WireInv, CountInv, CodeInv, AccountInv, CancelInv, Interrupted
  <2> QED
    BY <1>b, <2>1, <2>3, SameCall, Zenon DEF AllOK
<1>18. ASSUME NEW c \in Calls, WriteBatch(c) PROVE AllOK'
  <2> USE DEF WriteBatch, Leave, FinishStreaming, DropResponse
  <2>1. ASSUME NEW d \in Calls \ {c} PROVE Same(d)
    BY <1>a, <1>18, SMTT(30) DEF TypeOK, Same
  <2>2. CallOK(c)
    BY <1>b, Zenon
  <2>3. CallOK(c)'
    BY <1>a, <1>18, <2>2, SMTT(30)
       DEF TypeOK, CallOK, SlotInv, WireInv, CountInv, CodeInv, AccountInv, CancelInv, Interrupted
  <2> QED
    BY <1>b, <2>1, <2>3, SameCall, Zenon DEF AllOK
<1>19. ASSUME NEW c \in Calls, Panics(c) PROVE AllOK'
  <2> USE DEF Panics, Leave, FinishStreaming, DropResponse
  <2>1. ASSUME NEW d \in Calls \ {c} PROVE Same(d)
    BY <1>a, <1>19, SMTT(30) DEF TypeOK, Same
  <2>2. CallOK(c)
    BY <1>b, Zenon
  <2>3. CallOK(c)'
    BY <1>a, <1>19, <2>2, SMTT(30)
       DEF TypeOK, CallOK, SlotInv, WireInv, CountInv, CodeInv, AccountInv, CancelInv, Interrupted
  <2> QED
    BY <1>b, <2>1, <2>3, SameCall, Zenon DEF AllOK
<1>20. ASSUME NEW c \in Calls, RespondingFails(c) PROVE AllOK'
  <2> USE DEF RespondingFails, Leave, FinishStreaming, SetCompletionCode, Reset
  <2>1. ASSUME NEW d \in Calls \ {c} PROVE Same(d)
    BY <1>a, <1>20, SMTT(30) DEF TypeOK, Same
  <2>2. CallOK(c)
    BY <1>b, Zenon
  <2>3. CallOK(c)'
    BY <1>a, <1>20, <2>2, SMTT(30)
       DEF TypeOK, CallOK, SlotInv, WireInv, CountInv, CodeInv, AccountInv, CancelInv, Interrupted
  <2> QED
    BY <1>b, <2>1, <2>3, SameCall, Zenon DEF AllOK
<1>21. ASSUME NEW c \in Calls, RespondingStopped(c) PROVE AllOK'
  <2> USE DEF RespondingStopped, Leave, FinishStreaming
  <2>1. ASSUME NEW d \in Calls \ {c} PROVE Same(d)
    BY <1>a, <1>21, SMTT(30) DEF TypeOK, Same
  <2>2. CallOK(c)
    BY <1>b, Zenon
  <2>3. CallOK(c)'
    BY <1>a, <1>21, <2>2, SMTT(30)
       DEF TypeOK, CallOK, SlotInv, WireInv, CountInv, CodeInv, AccountInv, CancelInv, Interrupted
  <2> QED
    BY <1>b, <2>1, <2>3, SameCall, Zenon DEF AllOK
<1>22. ASSUME NEW c \in Calls, RespondingShutDown(c) PROVE AllOK'
  <2> USE DEF RespondingShutDown, Leave, FinishStreaming, Reset
  <2>1. ASSUME NEW d \in Calls \ {c} PROVE Same(d)
    BY <1>a, <1>22, SMTT(30) DEF TypeOK, Same
  <2>2. CallOK(c)
    BY <1>b, Zenon
  <2>3. CallOK(c)'
    BY <1>a, <1>22, <2>2, SMTT(30)
       DEF TypeOK, CallOK, SlotInv, WireInv, CountInv, CodeInv, AccountInv, CancelInv, Interrupted
  <2> QED
    BY <1>b, <2>1, <2>3, SameCall, Zenon DEF AllOK
<1>23. ASSUME NEW c \in Calls, WriteStatus(c) PROVE AllOK'
  <2> USE DEF WriteStatus, Leave, FinishStreaming, DropResponse
  <2>1. ASSUME NEW d \in Calls \ {c} PROVE Same(d)
    BY <1>a, <1>23, SMTT(30) DEF TypeOK, Same
  <2>2. CallOK(c)
    BY <1>b, Zenon
  <2>3. CallOK(c)'
    BY <1>a, <1>23, <2>2, SMTT(30)
       DEF TypeOK, CallOK, SlotInv, WireInv, CountInv, CodeInv, AccountInv, CancelInv, Interrupted
  <2> QED
    BY <1>b, <2>1, <2>3, SameCall, Zenon DEF AllOK
<1>24. ASSUME NEW c \in Calls, FinishResponse(c) PROVE AllOK'
  <2> USE DEF FinishResponse, Leave, FinishStreaming
  <2>1. ASSUME NEW d \in Calls \ {c} PROVE Same(d)
    BY <1>a, <1>24, SMTT(30) DEF TypeOK, Same
  <2>2. CallOK(c)
    BY <1>b, Zenon
  <2>3. CallOK(c)'
    BY <1>a, <1>24, <2>2, SMTT(30)
       DEF TypeOK, CallOK, SlotInv, WireInv, CountInv, CodeInv, AccountInv, CancelInv, Interrupted
  <2> QED
    BY <1>b, <2>1, <2>3, SameCall, Zenon DEF AllOK
<1>25. ASSUME NEW c \in Calls, Abort(c) PROVE AllOK'
  <2> USE DEF Abort, Leave, FinishStreaming
  <2>1. ASSUME NEW d \in Calls \ {c} PROVE Same(d)
    BY <1>a, <1>25, SMTT(30) DEF TypeOK, Same
  <2>2. CallOK(c)
    BY <1>b, Zenon
  <2>3. CallOK(c)'
    BY <1>a, <1>25, <2>2, SMTT(30)
       DEF TypeOK, CallOK, SlotInv, WireInv, CountInv, CodeInv, AccountInv, CancelInv, Interrupted
  <2> QED
    BY <1>b, <2>1, <2>3, SameCall, Zenon DEF AllOK
<1>26. ASSUME NEW c \in Calls, ClientStops(c) PROVE AllOK'
  <2> USE DEF ClientStops
  <2>1. ASSUME NEW d \in Calls \ {c} PROVE Same(d)
    BY <1>a, <1>26, Zenon DEF TypeOK, Same
  <2>2. CallOK(c)
    BY <1>b, Zenon
  <2>3. CallOK(c)'
    BY <1>a, <1>26, <2>2, ZenonT(30)
       DEF TypeOK, CallOK, SlotInv, WireInv, CountInv, CodeInv, AccountInv, CancelInv, Interrupted
  <2> QED
    BY <1>b, <2>1, <2>3, SameCall, Zenon DEF AllOK
<1>27. ASSUME NEW c \in Calls, NEW f \in Failures, RequestFails(c, f) PROVE AllOK'
  <2> USE DEF RequestFails
  <2>1. ASSUME NEW d \in Calls \ {c} PROVE Same(d)
    BY <1>a, <1>27, Zenon DEF TypeOK, Same
  <2>2. CallOK(c)
    BY <1>b, Zenon
  <2>3. CallOK(c)'
    BY <1>a, <1>27, <2>2, ZenonT(30)
       DEF TypeOK, CallOK, SlotInv, WireInv, CountInv, CodeInv, AccountInv, CancelInv, Interrupted
  <2> QED
    BY <1>b, <2>1, <2>3, SameCall, Zenon DEF AllOK
<1>28. CASE LoseConnection
  BY <1>b, <1>28, SameCall, Zenon DEF AllOK, LoseConnection, Same
<1>29. CASE Shutdown
  BY <1>b, <1>29, SameCall, Zenon DEF AllOK, Shutdown, Same
<1>30. CASE Drain
  BY <1>b, <1>30, SameCall, Zenon DEF AllOK, Drain, Same
<1>31. CASE DrainTimesOut
  BY <1>b, <1>31, SameCall, Zenon DEF AllOK, DrainTimesOut, Same
<1>32. CASE UNCHANGED vars
  BY <1>b, <1>32, SameCall, Zenon DEF AllOK, vars, Same
<1> QED
  BY Zenon, <1>1, <1>2, <1>3, <1>4, <1>5, <1>6, <1>7, <1>8, <1>9, <1>10, <1>11, <1>12, <1>13, <1>14,
     <1>15, <1>16,
     <1>17, <1>18, <1>19, <1>20, <1>21, <1>22, <1>23, <1>24, <1>25, <1>26, <1>27, <1>28, <1>29, <1>30,
     <1>31, <1>32
     DEF Next, Ends, Responds, Writes, Reads, Authorizes, Handles, HandleRequest, HandleStreamingRequest,
         StreamsResponse

(* Dropping a response stream, which finishes the call and runs its after hooks, keeps the types. *)
LEMMA LeaveTypes ==
    ASSUME TypeOK, NEW c \in Calls, NEW k \in Codes, Leave(c, k)
    PROVE  /\ finished' \in [Calls -> Nat] /\ recorded' \in [Calls -> Codes] /\ ran' \in [Calls -> Nat]
           /\ completion' \in [Calls -> {"none", "open", "closed"}]
  BY DEF TypeOK, Leave, FinishStreaming, RecordFinished, Codes

(* No step of a call's task, of the client, of the connection or of the shutdown changes a type. *)
LEMMA ServerTypes ==
    ASSUME TypeOK, [Next]_vars
    PROVE  TypeOK'
<1> USE CallsAssumption, ServerLimits
       DEF TypeOK, Phases, Failures, Codes, Sources, GoTo, Release, Cancel, StopSource,
       RecordStarted, RecordFinished, Answer, slots, events, client, server
<1>1. ASSUME NEW c \in Calls, Accept(c) PROVE TypeOK'
  BY <1>1 DEF Accept
<1>2. ASSUME NEW c \in Calls, ReadFails(c) PROVE TypeOK'
  BY <1>2 DEF ReadFails, Reject, RecordRejected
<1>3. ASSUME NEW c \in Calls, RejectOverflow(c) PROVE TypeOK'
  BY <1>3 DEF RejectOverflow, Reject, RecordRejected
<1>4. ASSUME NEW c \in Calls, Read(c) PROVE TypeOK'
  BY <1>4, SMTT(30) DEF Read, Dispatch, StartHandler, Reject, RecordRejected
<1>5. ASSUME NEW c \in Calls, Admit(c) PROVE TypeOK'
  BY <1>5, SMTT(30) DEF Admit, Dispatch, StartHandler, Reject, RecordRejected
<1>6. ASSUME NEW c \in Calls, NEW deadline \in BOOLEAN, Deny(c, deadline) PROVE TypeOK'
  BY <1>6, SMTT(30) DEF Deny, Reject, RecordRejected
<1>7. ASSUME NEW c \in Calls, AnswerAtDispatch(c) PROVE TypeOK'
  BY <1>7, SMTT(30) DEF AnswerAtDispatch, StartHandler
<1>8. ASSUME NEW c \in Calls, NEW finish \in Finishing, Intercept(c, finish) PROVE TypeOK'
  BY <1>8 DEF Intercept
<1>9. ASSUME NEW c \in Calls, NEW k \in {"error", "deadline"}, HandlerFails(c, k) PROVE TypeOK'
  BY <1>9, SMTT(30) DEF HandlerFails, Complete
<1>10. ASSUME NEW c \in Calls, HandlerReturns(c) PROVE TypeOK'
  BY <1>10, SMTT(30) DEF HandlerReturns, Complete
<1>11. ASSUME NEW c \in Calls, HandlingFails(c) PROVE TypeOK'
  BY <1>11, SMTT(30) DEF HandlingFails, Reset
<1>12. ASSUME NEW c \in Calls, HandlingStopped(c) PROVE TypeOK'
  BY <1>12, Zenon DEF HandlingStopped
<1>13. ASSUME NEW c \in Calls, HandlingShutDown(c) PROVE TypeOK'
  BY <1>13, Zenon DEF HandlingShutDown, Reset
<1>14. ASSUME NEW c \in Calls, RespondMessages(c) PROVE TypeOK'
  BY <1>14, Zenon DEF RespondMessages
<1>15. ASSUME NEW c \in Calls, NEW k \in {"ok", "error", "deadline"}, RespondStatus(c, k) PROVE TypeOK'
  BY <1>15, SMTT(30) DEF RespondStatus, FinishStreaming
<1>16. ASSUME NEW c \in Calls, RespondFailure(c) PROVE TypeOK'
  BY <1>16, Zenon DEF RespondFailure
<1>17. ASSUME NEW c \in Calls, DropSlots(c) PROVE TypeOK'
  BY <1>17, Zenon DEF DropSlots
<1>18. ASSUME NEW c \in Calls, WriteBatch(c) PROVE TypeOK'
  <2>1. code[c] \in Codes
    BY Zenon
  <2>2. /\ finished' \in [Calls -> Nat] /\ recorded' \in [Calls -> Codes] /\ ran' \in [Calls -> Nat]
        /\ completion' \in [Calls -> {"none", "open", "closed"}]
    BY <1>18, <2>1, LeaveTypes, SMTT(30) DEF WriteBatch, DropResponse
  <2> QED
    BY <1>18, <2>2, SMTT(30) DEF WriteBatch, DropResponse
<1>19. ASSUME NEW c \in Calls, Panics(c) PROVE TypeOK'
  <2>1. code[c] \in Codes
    BY Zenon
  <2>2. /\ finished' \in [Calls -> Nat] /\ recorded' \in [Calls -> Codes] /\ ran' \in [Calls -> Nat]
        /\ completion' \in [Calls -> {"none", "open", "closed"}]
    BY <1>19, <2>1, LeaveTypes, SMTT(30) DEF Panics, DropResponse
  <2> QED
    BY <1>19, <2>2, Zenon DEF Panics, DropResponse
<1>20. ASSUME NEW c \in Calls, RespondingFails(c) PROVE TypeOK'
  <2>1. code' \in [Calls -> {"none", "failure"}] /\ code'[c] \in Codes
    BY <1>20, SMTT(30) DEF RespondingFails, SetCompletionCode
  <2>2. /\ finished' \in [Calls -> Nat] /\ recorded' \in [Calls -> Codes] /\ ran' \in [Calls -> Nat]
        /\ completion' \in [Calls -> {"none", "open", "closed"}]
    BY <1>20, <2>1, LeaveTypes, SMTT(30) DEF RespondingFails
  <2>3. phase' \in [Calls -> Phases] /\ wire' \in [Calls -> {"open", "status", "fin", "reset", "truncated"}]
    BY <1>20, SMTT(30) DEF RespondingFails, Reset
  <2>4. token' \in [Calls -> Sources] /\ sent' \in [Calls -> Codes]
    BY <1>20, SMTT(30) DEF RespondingFails
  <2> QED
    BY <1>20, <2>1, <2>2, <2>3, <2>4, Zenon DEF RespondingFails
<1>21. ASSUME NEW c \in Calls, RespondingStopped(c) PROVE TypeOK'
  <2>1. code[c] \in Codes
    BY Zenon
  <2>2. /\ finished' \in [Calls -> Nat] /\ recorded' \in [Calls -> Codes] /\ ran' \in [Calls -> Nat]
        /\ completion' \in [Calls -> {"none", "open", "closed"}]
    BY <1>21, <2>1, LeaveTypes, SMTT(30) DEF RespondingStopped
  <2>3. phase' \in [Calls -> Phases] /\ wire' \in [Calls -> {"open", "status", "fin", "reset", "truncated"}]
    BY <1>21, Zenon DEF RespondingStopped
  <2>4. token' \in [Calls -> Sources]
    BY <1>21, Zenon DEF RespondingStopped
  <2> QED
    BY <1>21, <2>2, <2>3, <2>4, Zenon DEF RespondingStopped
<1>22. ASSUME NEW c \in Calls, RespondingShutDown(c) PROVE TypeOK'
  <2>1. code[c] \in Codes
    BY Zenon
  <2>2. /\ finished' \in [Calls -> Nat] /\ recorded' \in [Calls -> Codes] /\ ran' \in [Calls -> Nat]
        /\ completion' \in [Calls -> {"none", "open", "closed"}]
    BY <1>22, <2>1, LeaveTypes, SMTT(30) DEF RespondingShutDown
  <2>3. phase' \in [Calls -> Phases] /\ wire' \in [Calls -> {"open", "status", "fin", "reset", "truncated"}]
    BY <1>22, Zenon DEF RespondingShutDown, Reset
  <2>4. token' \in [Calls -> Sources]
    BY <1>22, Zenon DEF RespondingShutDown
  <2> QED
    BY <1>22, <2>2, <2>3, <2>4, Zenon DEF RespondingShutDown
<1>23. ASSUME NEW c \in Calls, WriteStatus(c) PROVE TypeOK'
  <2>1. code[c] \in Codes
    BY Zenon
  <2>2. /\ finished' \in [Calls -> Nat] /\ recorded' \in [Calls -> Codes] /\ ran' \in [Calls -> Nat]
        /\ completion' \in [Calls -> {"none", "open", "closed"}]
    BY <1>23, <2>1, LeaveTypes, SMTT(30) DEF WriteStatus, DropResponse
  <2>3. phase' \in [Calls -> Phases] /\ wire' \in [Calls -> {"open", "status", "fin", "reset", "truncated"}]
    BY <1>23, SMTT(30) DEF WriteStatus, DropResponse
  <2>4. token' \in [Calls -> Sources]
    BY <1>23, SMTT(30) DEF WriteStatus, DropResponse
  <2> QED
    BY <1>23, <2>2, <2>3, <2>4 DEF WriteStatus, DropResponse
<1>24. ASSUME NEW c \in Calls, FinishResponse(c) PROVE TypeOK'
  <2>1. code[c] \in Codes
    BY Zenon
  <2>2. /\ finished' \in [Calls -> Nat] /\ recorded' \in [Calls -> Codes] /\ ran' \in [Calls -> Nat]
        /\ completion' \in [Calls -> {"none", "open", "closed"}]
    BY <1>24, <2>1, LeaveTypes, SMTT(30) DEF FinishResponse
  <2>3. phase' \in [Calls -> Phases] /\ wire' \in [Calls -> {"open", "status", "fin", "reset", "truncated"}]
    BY <1>24, Zenon DEF FinishResponse
  <2>4. token' \in [Calls -> Sources]
    BY <1>24, Zenon DEF FinishResponse
  <2> QED
    BY <1>24, <2>2, <2>3, <2>4, Zenon DEF FinishResponse
<1>25. ASSUME NEW c \in Calls, Abort(c) PROVE TypeOK'
  <2>1. code[c] \in Codes
    BY Zenon
  <2>2. /\ finished' \in [Calls -> Nat] /\ recorded' \in [Calls -> Codes] /\ ran' \in [Calls -> Nat]
        /\ completion' \in [Calls -> {"none", "open", "closed"}]
    BY <1>25, <2>1, LeaveTypes, SMTT(30) DEF Abort
  <2>3. phase' \in [Calls -> Phases] /\ wire' \in [Calls -> {"open", "status", "fin", "reset", "truncated"}]
    BY <1>25, Zenon DEF Abort
  <2>4. token' \in [Calls -> Sources]
    BY <1>25, Zenon DEF Abort
  <2> QED
    BY <1>25, <2>2, <2>3, <2>4, Zenon DEF Abort
<1>26. ASSUME NEW c \in Calls, ClientStops(c) PROVE TypeOK'
  BY <1>26, Zenon DEF ClientStops
<1>27. ASSUME NEW c \in Calls, NEW f \in Failures, RequestFails(c, f) PROVE TypeOK'
  BY <1>27, Zenon DEF RequestFails
<1>28. CASE LoseConnection
  BY <1>28, Zenon DEF LoseConnection
<1>29. CASE Shutdown
  BY <1>29, Zenon DEF Shutdown
<1>30. CASE Drain
  BY <1>30, Zenon DEF Drain
<1>31. CASE DrainTimesOut
  BY <1>31, Zenon DEF DrainTimesOut
<1>32. CASE UNCHANGED vars
  BY <1>32, Zenon DEF vars
<1> HIDE DEF TypeOK
<1> QED
  BY Zenon, <1>1, <1>2, <1>3, <1>4, <1>5, <1>6, <1>7, <1>8, <1>9, <1>10, <1>11, <1>12, <1>13, <1>14,
     <1>15, <1>16,
     <1>17, <1>18, <1>19, <1>20, <1>21, <1>22, <1>23, <1>24, <1>25, <1>26, <1>27, <1>28, <1>29, <1>30,
     <1>31, <1>32
     DEF Next, Ends, Responds, Writes, Reads, Authorizes, Handles, HandleRequest, HandleStreamingRequest,
         StreamsResponse

(* The invariant holds in every behaviour of a server (handle_stream, handle_request, respond, *)
(* finish_response).                                                                           *)
THEOREM ServerInvariant == Spec => []ServerInv
<1>1. Init => ServerInv
  BY CallsAssumption, SMTT(30)
     DEF Init, NewTokens, ServerInv, AllOK, TypeOK, Phases, Codes, Sources, Failures, Before,
     CallOK, SlotInv, WireInv, CountInv, CodeInv, AccountInv, CancelInv, Interrupted
<1>2. ServerInv /\ [Next]_vars => ServerInv'
  <2> SUFFICES ASSUME ServerInv, [Next]_vars PROVE ServerInv'
    BY Zenon
  <2>1. TypeOK'
    BY ServerTypes, Zenon DEF ServerInv
  <2>2. AllOK'
    BY ServerStep, Zenon
  <2> QED
    BY <2>1, <2>2, Zenon DEF ServerInv
<1> QED
  BY <1>1, <1>2, PTL DEF Spec

(* However many calls, limits and interceptors there are and whatever ends a call: it is started *)
(* at most once and finished at most once, not before it started; unless its handler was dropped  *)
(* it is finished, and unless the handler was dropped or its request failed it ran every finish   *)
(* function; and its stream and request slots are free before the peer can see the end            *)
(* (server_transport.rs, native.rs).                                                              *)
THEOREM ServerAccountsSlots == Spec => []SlotsAreAccounted
<1>1. ServerInv => AccountedOnce
  <2> SUFFICES ASSUME ServerInv, NEW c \in Calls
               PROVE  /\ finished[c] <= started[c] /\ started[c] <= 1
                      /\ (phase[c] = "done" /\ finished[c] # started[c]) =>
                             HandlerDropped(c) /\ (token[c] # "none" \/ wire[c] = "truncated")
                      /\ (phase[c] = "done" /\ ran[c] # returned[c]) =>
                             HandlerDropped(c) \/ (completion[c] = "none" /\ sent[c] = "failure")
    BY Zenon DEF AccountedOnce
  <2>1. TypeOK /\ CountInv(c) /\ AccountInv(c)
    BY Zenon DEF ServerInv, AllOK, CallOK
  <2>2. finished[c] <= started[c] /\ started[c] <= 1
    BY <2>1 DEF TypeOK, Phases, Before, CountInv
  <2>3. (phase[c] = "done" /\ finished[c] # started[c]) =>
            HandlerDropped(c) /\ (token[c] # "none" \/ wire[c] = "truncated")
    BY <2>1, Zenon DEF AccountInv, HandlerDropped
  <2>4. (phase[c] = "done" /\ ran[c] # returned[c]) =>
            HandlerDropped(c) \/ (completion[c] = "none" /\ sent[c] = "failure")
    BY <2>1 DEF TypeOK, CountInv, AccountInv, HandlerDropped
  <2> QED
    BY <2>2, <2>3, <2>4, Zenon
<1>2. ServerInv => SlotsGoFirst
  BY Zenon DEF ServerInv, AllOK, TypeOK, Phases, Holding, CallOK, SlotInv, WireInv, SlotsGoFirst
<1> QED
  BY <1>1, <1>2, ServerInvariant, PTL DEF SlotsAreAccounted

(* When the peer has all of a response, the code recorded for the call is the one that was sent, *)
(* also where the response stream's Drop records it (set_completion_code, finish_response).      *)
THEOREM ServerRecordsWhatItSends == Spec => []CodesAgree
<1>1. ServerInv => CodesAgree
  BY Zenon DEF ServerInv, AllOK, CallOK, CodeInv, CodesAgree
<1> QED
  BY <1>1, ServerInvariant, PTL

(* A dispatched call that is cut short, by its peer, its connection, its deadline or the shutdown, *)
(* has cancelled its token, unless its task panicked or its response could not be encoded          *)
(* (handle_request, respond).                                                                      *)
THEOREM ServerCancelsInterrupted == Spec => []InterruptedIsCancelled
<1>1. ServerInv => InterruptedIsCancelled
  BY Zenon DEF ServerInv, AllOK, CallOK, CancelInv, InterruptedIsCancelled
<1> QED
  BY <1>1, ServerInvariant, PTL

-----------------------------------------------------------------------------
(* ResponseMetadata. *)

(* What each kind holds, or held when it was taken, is what was set last; and it is taken once. *)
TakenOnce ==
    /\ DOMAIN state = {"headers", "metadata", "headers_sent", "metadata_sent"}
    /\ state.headers_sent \in BOOLEAN /\ state.metadata_sent \in BOOLEAN
    /\ call = "handler" => ~state.headers_sent
    /\ call \in {"handler", "returned"} => ~state.metadata_sent
    /\ call \in {"returned", "ok"} => state.headers_sent
    /\ call = "ok" => state.metadata_sent
HeldLatest ==
    /\ setLog \in Seq(SetEntries)
    /\ LatestOf(IF state.headers_sent THEN sentHeaders ELSE state.headers, setLog, "headers")
    /\ LatestOf(IF state.metadata_sent THEN sentTrailers ELSE state.metadata, setLog, "metadata")
SetsInv == TakenOnce /\ HeldLatest

(* A set that succeeds puts its value in place of the key's last one; others leave what there is. *)
LEMMA LatestOfAppend ==
    ASSUME NEW sets \in Seq(SetEntries), NEW entry \in SetEntries, NEW kind, NEW metadata,
           LatestOf(metadata, sets, kind)
    PROVE  LatestOf(IF entry.kind = kind /\ entry.ok THEN Insert(metadata, entry.key, entry.value)
                    ELSE metadata, Append(sets, entry), kind)
<1> DEFINE longer == Append(sets, entry)
           n == Len(sets) + 1
           before == {i \in DOMAIN sets : sets[i].kind = kind /\ sets[i].ok}
           after == {i \in DOMAIN longer : longer[i].kind = kind /\ longer[i].ok}
<1>1. /\ n \in Nat /\ DOMAIN sets = 1..(n - 1) /\ DOMAIN longer = 1..n
      /\ longer[n] = entry /\ \A i \in 1..(n - 1) : longer[i] = sets[i]
  <2>1. /\ Len(sets) \in Nat /\ DOMAIN sets = 1..Len(sets)
        /\ DOMAIN Append(sets, entry) = 1..(Len(sets) + 1)
        /\ Append(sets, entry)[Len(sets) + 1] = entry
        /\ \A i \in 1..Len(sets) : Append(sets, entry)[i] = sets[i]
    <3> HIDE DEF longer, n, before, after
    <3> QED
      BY Appended, Zenon
  <2>2. n \in Nat /\ n - 1 = Len(sets)
    BY <2>1, Successor, Zenon
  <2> QED
    BY <2>1, <2>2, Zenon
<1>2. /\ DOMAIN metadata = {sets[i].key : i \in before}
      /\ \A k \in DOMAIN metadata : \E i \in before :
             /\ sets[i].key = k /\ metadata[k] = sets[i].value
             /\ \A j \in before : sets[j].key = k => j <= i
  BY Zenon DEF LatestOf
<1>3. n \in 1..n /\ n \notin 1..(n - 1) /\ 1..n = 1..(n - 1) \cup {n}
  <2>1. Len(sets) \in Nat
    BY Appended, Zenon
  <2> QED
    BY <2>1, Successor, Zenon
<1> HIDE DEF longer, n
<1>4. /\ \A i \in before : i \in after /\ longer[i] = sets[i]
      /\ \A i \in after : i # n => i \in before
      /\ n \in after <=> (entry.kind = kind /\ entry.ok)
  <2>1. ASSUME NEW i \in before PROVE i \in after /\ longer[i] = sets[i]
    BY <1>1, <1>3, <2>1, Zenon
  <2>2. ASSUME NEW i \in after, i # n PROVE i \in before
    <3>1. i \in 1..(n - 1)
      BY <1>1, <1>3, <2>2, Zenon
    <3> QED
      BY <1>1, <2>2, <3>1, Zenon
  <2>3. n \in after <=> (entry.kind = kind /\ entry.ok)
    BY <1>1, <1>3, Zenon
  <2> QED
    BY <2>1, <2>2, <2>3, Zenon
<1>5. \A j \in after : j <= n
  BY <1>1, UpTo, Zenon
<1> HIDE DEF before, after
<1>6. CASE ~(entry.kind = kind /\ entry.ok)
  <2>1. after = before
    BY <1>4, <1>6, Zenon
  <2>2. DOMAIN metadata = {longer[i].key : i \in after}
    <3>1. ASSUME NEW k \in DOMAIN metadata PROVE \E i \in after : k = longer[i].key
      <4>1. PICK i \in before : sets[i].key = k
        BY <1>2, <3>1, Zenon
      <4> QED
        BY <1>4, <4>1, Zenon
    <3>2. ASSUME NEW i \in after PROVE longer[i].key \in DOMAIN metadata
      BY <1>2, <1>4, <2>1, Zenon
    <3> QED
      BY <3>1, <3>2, Zenon
  <2>3. ASSUME NEW k \in DOMAIN metadata
        PROVE  \E i \in after : /\ longer[i].key = k /\ metadata[k] = longer[i].value
                                /\ \A j \in after : longer[j].key = k => j <= i
    <3>1. PICK i \in before : /\ sets[i].key = k /\ metadata[k] = sets[i].value
                              /\ \A j \in before : sets[j].key = k => j <= i
      BY <1>2, Zenon
    <3>2. ASSUME NEW j \in after, longer[j].key = k PROVE j <= i
      BY <1>4, <2>1, <3>1, <3>2, Zenon
    <3> QED
      BY <1>4, <3>1, <3>2, Zenon
  <2>4. LatestOf(metadata, longer, kind)
    BY <2>2, <2>3, Zenon DEF LatestOf, after
  <2> QED
    BY <1>6, <2>4, Zenon DEF longer
<1>7. CASE entry.kind = kind /\ entry.ok
  <2> DEFINE with == Insert(metadata, entry.key, entry.value)
  <2>1. /\ DOMAIN with = DOMAIN metadata \cup {entry.key} /\ with[entry.key] = entry.value
        /\ \A k \in DOMAIN metadata : k # entry.key => with[k] = metadata[k]
    BY Zenon DEF Insert
  <2> HIDE DEF with
  <2>2. DOMAIN with = {longer[i].key : i \in after}
    <3>1. ASSUME NEW k \in DOMAIN with PROVE \E i \in after : k = longer[i].key
      <4>1. CASE k = entry.key
        BY <1>1, <1>4, <1>7, <4>1, Zenon
      <4>2. CASE k \in DOMAIN metadata
        <5>1. PICK i \in before : sets[i].key = k
          BY <1>2, <4>2, Zenon
        <5> QED
          BY <1>4, <5>1, Zenon
      <4> QED
        BY <2>1, <3>1, <4>1, <4>2, Zenon
    <3>2. ASSUME NEW i \in after PROVE longer[i].key \in DOMAIN with
      BY <1>1, <1>2, <1>4, <2>1, Zenon
    <3> QED
      BY <3>1, <3>2, Zenon
  <2>3. ASSUME NEW k \in DOMAIN with
        PROVE  \E i \in after :
                   /\ longer[i].key = k /\ with[k] = longer[i].value
                   /\ \A j \in after : longer[j].key = k => j <= i
    <3>1. CASE k = entry.key
      <4>1. n \in after /\ longer[n].key = k /\ with[k] = longer[n].value
        BY <1>1, <1>4, <1>7, <2>1, <3>1, Zenon
      <4>2. \A j \in after : j <= n
        BY <1>5, Zenon
      <4> QED
        BY <4>1, <4>2, Zenon
    <3>2. CASE k # entry.key
      <4>1. k \in DOMAIN metadata /\ with[k] = metadata[k]
        BY <2>1, <2>3, <3>2, Zenon
      <4>2. \A j \in after : longer[j].key = k => j \in before /\ sets[j].key = k
        BY <1>1, <1>4, <3>2, Zenon
      <4>3. PICK i \in before : /\ sets[i].key = k /\ metadata[k] = sets[i].value
                                /\ \A j \in before : sets[j].key = k => j <= i
        BY <1>2, <4>1, Zenon
      <4> QED
        BY <1>4, <4>1, <4>2, <4>3, Zenon
    <3> QED
      BY <3>1, <3>2, Zenon
  <2>4. LatestOf(with, longer, kind)
    BY <2>2, <2>3, Zenon DEF LatestOf, after
  <2> QED
    BY <1>7, <2>4, Zenon DEF longer, with
<1> QED
  BY <1>6, <1>7, Zenon

(* set_header and set_metadata *)
LEMMA SetValueKeeps ==
    ASSUME SetsInv, NEW kind \in Kinds, NEW key \in Keys, NEW value \in Values,
           SetValue(kind, key, value)
    PROVE  SetsInv'
<1> DEFINE inserted == Insert(state[kind], NormalizeMetadataKey(key), value)
           ok == ~Sent(kind) /\ ValidateMetadata(inserted)
           entry == [kind |-> kind, key |-> NormalizeMetadataKey(key), value |-> value, ok |-> ok]
<1>1. /\ state' = IF Sent(kind) THEN state
                  ELSE [state EXCEPT ![kind] = IF ok THEN inserted ELSE state[kind]]
      /\ setLog' = Append(setLog, entry) /\ UNCHANGED <<call, sentHeaders, sentTrailers>>
  BY Zenon DEF SetValue, TakenBack
<1>2. entry \in SetEntries /\ entry.kind = kind /\ entry.key = NormalizeMetadataKey(key) /\ entry.value = value
      /\ (entry.ok <=> ok)
  <2>1. ok \in BOOLEAN
    BY Zenon
  <2> HIDE DEF ok
  <2>2. NormalizeMetadataKey(key) \in {NormalizeMetadataKey(k) : k \in Keys}
    BY Zenon
  <2> QED
    BY <2>1, <2>2, Zenon DEF SetEntries
<1> DEFINE was(k) == IF k = "headers" THEN IF state.headers_sent THEN sentHeaders ELSE state.headers
                     ELSE IF state.metadata_sent THEN sentTrailers ELSE state.metadata
           is(k) == IF k = "headers" THEN IF state'.headers_sent THEN sentHeaders' ELSE state'.headers
                    ELSE IF state'.metadata_sent THEN sentTrailers' ELSE state'.metadata
<1>3. /\ DOMAIN state' = DOMAIN state
      /\ state'.headers_sent = state.headers_sent /\ state'.metadata_sent = state.metadata_sent
  BY <1>1, Zenon DEF SetsInv, TakenOnce, Kinds
<1>4. TakenOnce'
  BY <1>1, <1>3, Zenon DEF SetsInv, TakenOnce
<1>5. ASSUME NEW k \in Kinds PROVE LatestOf(is(k), setLog', k)
  <2>1. LatestOf(was(k), setLog, k)
    BY <1>5, Zenon DEF SetsInv, HeldLatest, Kinds
  <2>2. is(k) = IF entry.kind = k /\ entry.ok THEN Insert(was(k), entry.key, entry.value) ELSE was(k)
    <3>1. CASE k = kind /\ ok
      <4>1. is(k) = inserted /\ was(k) = state[kind]
        BY <1>1, <1>3, <3>1, Zenon DEF SetsInv, TakenOnce, Kinds, Sent
      <4> QED
        BY <1>2, <3>1, <4>1, Zenon
    <3>2. CASE ~(k = kind /\ ok)
      <4>1. is(k) = was(k)
        BY <1>1, <1>3, <3>2, Zenon DEF SetsInv, TakenOnce, Kinds, Sent
      <4> QED
        BY <1>2, <3>2, <4>1, Zenon
    <3> QED
      BY <3>1, <3>2, Zenon
  <2>3. setLog \in Seq(SetEntries)
    BY Zenon DEF SetsInv, HeldLatest
  <2> HIDE DEF is, was, entry
  <2> QED
    BY <1>1, <1>2, <2>1, <2>2, <2>3, LatestOfAppend, Zenon
<1>6. setLog' \in Seq(SetEntries)
  <2> HIDE DEF entry
  <2> QED
    BY <1>1, <1>2, Appended, Zenon DEF SetsInv, HeldLatest
<1> QED
  BY <1>4, <1>5, <1>6, Zenon DEF SetsInv, HeldLatest, Kinds

(* take_headers and take_metadata *)
LEMMA TakesKeep ==
    ASSUME SetsInv, TakeHeaders \/ TakeMetadata \/ FailCall
    PROVE  SetsInv'
<1>1. CASE TakeHeaders
  <2>1. ~state.headers_sent
    BY <1>1, Zenon DEF TakeHeaders, SetsInv, TakenOnce
  <2>2. /\ call' = "returned" /\ sentHeaders' = state.headers /\ state'.headers_sent = TRUE
        /\ ~state.metadata_sent /\ call = "handler"
        /\ state'.metadata = state.metadata /\ state'.metadata_sent = state.metadata_sent
        /\ DOMAIN state' = DOMAIN state /\ UNCHANGED <<sentTrailers, setLog>>
    BY <1>1, Zenon DEF TakeHeaders, SetsInv, TakenOnce
  <2>3. TakenOnce'
    BY <2>2, Zenon DEF SetsInv, TakenOnce
  <2> QED
    BY <2>1, <2>2, <2>3, Zenon DEF SetsInv, HeldLatest
<1>2. CASE TakeMetadata
  <2>1. ~state.metadata_sent /\ state.headers_sent
    BY <1>2, Zenon DEF TakeMetadata, SetsInv, TakenOnce
  <2>2. /\ call' = "ok" /\ sentTrailers' = state.metadata /\ state'.metadata_sent = TRUE
        /\ state'.headers_sent = TRUE
        /\ DOMAIN state' = DOMAIN state /\ UNCHANGED <<sentHeaders, setLog>>
    BY <1>2, Zenon DEF TakeMetadata, SetsInv, TakenOnce
  <2>3. TakenOnce'
    BY <2>2, Zenon DEF SetsInv, TakenOnce
  <2> QED
    BY <2>1, <2>2, <2>3, Zenon DEF SetsInv, HeldLatest
<1>3. CASE FailCall
  <2>1. call' = "failed" /\ UNCHANGED <<state, sentHeaders, sentTrailers, setLog>>
    BY <1>3, Zenon DEF FailCall
  <2>2. TakenOnce'
    BY <2>1, Zenon DEF SetsInv, TakenOnce
  <2> QED
    BY <2>1, <2>2, Zenon DEF SetsInv, HeldLatest
<1> QED
  BY <1>1, <1>2, <1>3, Zenon

(* Metadata whose set succeeded is sent with the response, the last of each key, and no other: for *)
(* any keys, values and limits, and any order of sets and takes (response.rs, set, take_headers    *)
(* and take_metadata).                                                                             *)
THEOREM AcceptedMetadataIsSent == MetadataSpec => []SetIsSent
<1>1. MetadataInit => SetsInv
  <2> SUFFICES ASSUME MetadataInit PROVE SetsInv
    BY Zenon
  <2>1. /\ state = [headers |-> None, metadata |-> None, headers_sent |-> FALSE, metadata_sent |-> FALSE]
        /\ call = "handler" /\ setLog = <<>>
    BY Zenon DEF MetadataInit, NewMetadata
  <2>2. /\ DOMAIN state = {"headers", "metadata", "headers_sent", "metadata_sent"}
        /\ state.headers_sent = FALSE /\ state.metadata_sent = FALSE
        /\ state.headers = None /\ state.metadata = None
    BY <2>1, Zenon
  <2>3. DOMAIN None = {}
    BY Zenon DEF None
  <2>4. \A kind : LatestOf(None, setLog, kind)
    BY <2>1, <2>3, NothingSet, Zenon DEF LatestOf
  <2>5. setLog \in Seq(SetEntries)
    BY <2>1, NothingSet, Zenon
  <2> QED
    BY <2>1, <2>2, <2>4, <2>5, Zenon DEF SetsInv, TakenOnce, HeldLatest
<1>2. SetsInv /\ [MetadataNext]_metadataVars => SetsInv'
  <2> SUFFICES ASSUME SetsInv, [MetadataNext]_metadataVars PROVE SetsInv'
    BY Zenon
  <2>1. CASE UNCHANGED metadataVars
    BY <2>1, Zenon DEF metadataVars, SetsInv, TakenOnce, HeldLatest
  <2> QED
    BY <2>1, SetValueKeeps, TakesKeep, Zenon DEF MetadataNext
<1>3. SetsInv => SetIsSent
  <2> SUFFICES ASSUME SetsInv PROVE SetIsSent
    BY Zenon
  <2>1. CASE call = "returned"
    BY <2>1, Zenon DEF SetsInv, TakenOnce, HeldLatest, SetIsSent
  <2>2. CASE call = "ok"
    BY <2>2, Zenon DEF SetsInv, TakenOnce, HeldLatest, SetIsSent
  <2> QED
    BY <2>1, <2>2, Zenon DEF SetIsSent
<1> QED
  BY <1>1, <1>2, <1>3, PTL DEF MetadataSpec

=============================================================================
