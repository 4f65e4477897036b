------------------------- MODULE CompressionProofs --------------------------
(***************************************************************************)
(* StreamedOnce for any calls, requests and memory limits. The invariant   *)
(* follows a refusal from the server to the replay, so that a replayed     *)
(* call never had a handler, and the enabled encoder from the offer and    *)
(* the answer, so that what is encoded meets a decoder.                    *)
(*                                                                         *)
(* DictionariesAgree for any calls and configurations.  The invariant says *)
(* which dictionary each call was prepared with, and that a call without a *)
(* query was prepared from what both peers hold.                           *)
(***************************************************************************)
EXTENDS StreamCompression, Dictionaries, TLAPS

Encoders == {"none", "waiting", "active", "off"}
CallStates ==
    [phase : {"new", "open", "refusing", "replaying", "replayed", "ended"},
     decision : {"settled", "pending", "refused"}, next : Nat, again : Seq(Nat), kept : Seq(Nat),
            held : Nat,
     parked : BOOLEAN, uploading : BOOLEAN, sent : Nat, encoder : Encoders, enabled : BOOLEAN,
     inflating : BOOLEAN]
Attempts ==
    [state : {"none", "asked", "refused", "serving", "ended"}, offer : {"none", "enabled", "optimistic"},
     decoder : BOOLEAN]
Frames == {"answer", "status", "refused"}
Items == [request : Nat, streamed : BOOLEAN]

TypeOK ==
    /\ call \in [Calls -> CallStates]
    /\ wire \in [Calls -> Seq(Items)]
    /\ replies \in [Calls -> Seq(Frames)]
    /\ attempt \in [Calls -> Attempts]
    /\ handled \in [Calls -> Nat]

(* A handler runs for an attempt that is not refused, and only a refused one is replayed. *)
OnceInv(c) ==
    /\ handled[c] = 0 \/ (handled[c] = 1 /\ attempt[c].state \in {"serving", "ended"})
    /\ call[c].phase = "new" => attempt[c].state = "none"
    /\ attempt[c].state = "none" => call[c].phase = "new"
    /\ call[c].phase \in {"refusing", "replaying"} => attempt[c].state = "refused"
    /\ "refused" \in Range(replies[c]) => attempt[c].state = "refused"

(* What may start an encoder, or was encoded, belongs to an attempt whose server can decode it. *)
Able(c) == attempt[c].offer = "optimistic" \/ attempt[c].decoder \/ attempt[c].state = "ended"
DecodeInv(c) ==
    /\ attempt[c].decoder => attempt[c].state = "serving"
    /\ (attempt[c].state = "serving" /\ attempt[c].offer = "optimistic") => attempt[c].decoder
    /\ (call[c].enabled \/ call[c].encoder = "active") => Able(c)
    /\ "answer" \in Range(replies[c]) => Able(c)
    /\ \A item \in Range(wire[c]) : item.streamed => Able(c)

CompInv == TypeOK /\ \A c \in Calls : OnceInv(c) /\ DecodeInv(c)

(* A step that leaves call d alone. *)
Same(d) ==
    /\ call'[d] = call[d] /\ wire'[d] = wire[d] /\ replies'[d] = replies[d] /\ attempt'[d] = attempt[d]
    /\ handled'[d] = handled[d]

(* A step that leaves a call alone keeps its part of the invariant. *)
LEMMA SameCall ==
    ASSUME NEW d \in Calls, OnceInv(d), DecodeInv(d), Same(d)
    PROVE  OnceInv(d)' /\ DecodeInv(d)'
  BY Zenon DEF Same, OnceInv, DecodeInv, Able

(* An encoder starts only if it is enabled. *)
LEMMA EncoderStarts ==
    ASSUME NEW c, NEW free, NEW works \in BOOLEAN, call[c].encoder \in Encoders
    PROVE  /\ EncoderAfter(c, free, works) \in Encoders
           /\ EncoderAfter(c, free, works) = "active" => call[c].enabled \/ call[c].encoder = "active"
  BY Zenon DEF EncoderAfter, Encoders

(* The numbers and sequences the records of calls are made of. *)
LEMMA CallFields ==
    ASSUME NEW r \in CallStates
    PROVE  /\ r.next + 1 \in Nat /\ r.sent + 1 \in Nat /\ 0 \in Nat
           /\ <<>> \in Seq(Nat) /\ Append(r.kept, r.next + 1) \in Seq(Nat)
           /\ r.again # <<>> => Tail(r.again) \in Seq(Nat) /\ Head(r.again) \in Nat
           /\ r.kept \o (IF r.held = 0 THEN <<>> ELSE <<r.held>>) \in Seq(Nat)
<1>1. r.next \in Nat /\ r.sent \in Nat /\ r.held \in Nat /\ r.kept \in Seq(Nat) /\ r.again \in Seq(Nat)
  BY Zenon DEF CallStates
<1> HIDE DEF CallStates
<1> QED
  BY <1>1, SMTT(30)

(* Sending a request keeps the types. *)
LEMMA SendTypes ==
    ASSUME TypeOK, NEW c \in Calls, NEW request \in Nat, NEW cost, NEW works \in BOOLEAN,
           NEW base \in CallStates,
           Send(c, request, cost, works, base)
    PROVE  TypeOK'
<1> DEFINE after == EncoderAfter(c, clientFree - cost, works)
<1>1. after \in Encoders
  <2>1. call[c].encoder \in Encoders
    BY Zenon DEF TypeOK, CallStates
  <2> QED
    BY <2>1, EncoderStarts, Zenon
<1>2. /\ call' = [call EXCEPT ![c] = [base EXCEPT !.sent = @ + 1, !.encoder = after]]
      /\ wire' = [wire EXCEPT ![c] = Append(@, [request |-> request, streamed |-> after = "active"])]
      /\ UNCHANGED <<replies, attempt, handled>>
  BY Zenon DEF Send, remote
<1> HIDE DEF after
<1>3. call' \in [Calls -> CallStates]
  BY <1>1, <1>2, CallFields, Zenon DEF TypeOK, CallStates
<1>4. [request |-> request, streamed |-> after = "active"] \in Items
  BY Zenon DEF Items
<1>5. wire' \in [Calls -> Seq(Items)]
  BY <1>2, <1>4 DEF TypeOK
<1> QED
  BY <1>2, <1>3, <1>5, Zenon DEF TypeOK

(* Every step keeps the types. *)
LEMMA CompressionTypes ==
    ASSUME TypeOK, [Next]_vars
    PROVE  TypeOK'
<1> USE CompressionAssumption DEF remote
<1>1. ASSUME NEW c \in Calls, Open(c) PROVE TypeOK'
  <2>1. call[c] \in CallStates
    BY Zenon DEF TypeOK
  <2>2. call' \in [Calls -> CallStates]
    BY <1>1, <2>1, CallFields, ZenonT(30) DEF Open, Opened, TypeOK, CallStates, Encoders
  <2>3. wire' \in [Calls -> Seq(Items)]
    BY <1>1 DEF Open, Ask, TypeOK
  <2>4. replies' \in [Calls -> Seq(Frames)]
    BY <1>1 DEF Open, Ask, TypeOK
  <2>5. attempt' \in [Calls -> Attempts]
    BY <1>1, Zenon DEF Open, Ask, NoAttempt, TypeOK, Attempts
  <2>6. handled' \in [Calls -> Nat]
    BY <1>1, Zenon DEF Open, TypeOK
  <2> QED
    BY <1>1, <2>2, <2>3, <2>4, <2>5, <2>6, Zenon DEF Open, TypeOK
<1>2. ASSUME NEW c \in Calls, HoldBack(c) PROVE TypeOK'
  <2>1. call[c] \in CallStates
    BY Zenon DEF TypeOK
  <2>2. call' \in [Calls -> CallStates]
    BY <1>2, <2>1, CallFields, ZenonT(30) DEF HoldBack, TypeOK, CallStates
  <2> QED
    BY <1>2, <2>2, Zenon DEF HoldBack, TypeOK
<1>3. ASSUME NEW c \in Calls, FinishUpload(c) PROVE TypeOK'
  <2>1. call[c] \in CallStates
    BY Zenon DEF TypeOK
  <2>2. call' \in [Calls -> CallStates]
    BY <1>3, <2>1, ZenonT(30) DEF FinishUpload, TypeOK, CallStates, Encoders
  <2> QED
    BY <1>3, <2>2, Zenon DEF FinishUpload, TypeOK
<1>4. ASSUME NEW c \in Calls, Reject(c) PROVE TypeOK'
  <2>1. replies' \in [Calls -> Seq(Frames)]
    BY <1>4 DEF Reject, Reply, TypeOK, Frames
  <2>2. attempt' \in [Calls -> Attempts]
    BY <1>4, ZenonT(30) DEF Reject, TypeOK, Attempts
  <2> QED
    BY <1>4, <2>1, <2>2, Zenon DEF Reject, TypeOK
<1>5. ASSUME NEW c \in Calls, NEW allowed \in BOOLEAN, Dispatch(c, allowed) PROVE TypeOK'
  <2> DEFINE frames == IF Refuses(c, allowed) THEN <<"refused">> ELSE IF Decodes(c,
         allowed) THEN <<"answer">> ELSE <<>>
  <2> DEFINE state == IF Refuses(c, allowed) THEN "refused" ELSE "serving"
  <2>1. /\ frames \in Seq(Frames) /\ state \in {"refused", "serving"}
        /\ replies' = [replies EXCEPT ![c] = replies[c] \o frames]
    <3>1. frames \in {<<"refused">>, <<"answer">>, <<>>} /\ state \in {"refused", "serving"}
      BY Zenon
    <3>2. frames \in Seq(Frames)
      <4>1. <<"refused">> \in Seq(Frames) /\ <<"answer">> \in Seq(Frames) /\ <<>> \in Seq(Frames)
        BY DEF Frames
      <4> QED
        BY <3>1, <4>1, Zenon
    <3> QED
      BY <1>5, <3>1, <3>2, Zenon DEF Dispatch, Reply
  <2>2. replies' \in [Calls -> Seq(Frames)]
    <3> HIDE DEF frames
    <3> QED
      BY <2>1 DEF TypeOK
  <2>3. Decodes(c, allowed) \in BOOLEAN
    BY Zenon DEF Decodes
  <2>4. attempt' \in [Calls -> Attempts]
    <3>1. attempt' = [attempt EXCEPT ![c].state = state, ![c].decoder = Decodes(c, allowed)]
      BY <1>5, Zenon DEF Dispatch
    <3> HIDE DEF state
    <3> QED
      BY <2>1, <2>3, <3>1, ZenonT(30) DEF TypeOK, Attempts
  <2>5. handled' \in [Calls -> Nat]
    BY <1>5 DEF Dispatch, One, TypeOK
  <2> QED
    BY <1>5, <2>2, <2>4, <2>5, Zenon DEF Dispatch, TypeOK
<1>6. ASSUME NEW c \in Calls, Receive(c) PROVE TypeOK'
  <2>1. wire' \in [Calls -> Seq(Items)]
    BY <1>6 DEF Receive, TypeOK
  <2> QED
    BY <1>6, <2>1, Zenon DEF Receive, TypeOK
<1>7. ASSUME NEW c \in Calls, Finish(c) PROVE TypeOK'
  <2>1. replies' \in [Calls -> Seq(Frames)]
    BY <1>7 DEF Finish, Reply, TypeOK, Frames
  <2>2. attempt' \in [Calls -> Attempts]
    BY <1>7, ZenonT(30) DEF Finish, TypeOK, Attempts
  <2> QED
    BY <1>7, <2>1, <2>2, Zenon DEF Finish, TypeOK
<1>8. ASSUME NEW c \in Calls, ReadAnswer(c) PROVE TypeOK'
  <2>1. call[c] \in CallStates
    BY Zenon DEF TypeOK
  <2>2. call' \in [Calls -> CallStates]
    BY <1>8, <2>1, CallFields, ZenonT(30) DEF ReadAnswer, TypeOK, CallStates
  <2>3. replies' \in [Calls -> Seq(Frames)]
    BY <1>8 DEF ReadAnswer, Reading, TypeOK
  <2> QED
    BY <1>8, <2>2, <2>3, Zenon DEF ReadAnswer, TypeOK
<1>9. ASSUME NEW c \in Calls, ReadStatus(c) PROVE TypeOK'
  <2>1. call[c] \in CallStates
    BY Zenon DEF TypeOK
  <2>2. call' \in [Calls -> CallStates]
    BY <1>9, <2>1, CallFields, ZenonT(30) DEF ReadStatus, Over, NewCall, TypeOK, CallStates, Encoders
  <2>3. replies' \in [Calls -> Seq(Frames)]
    BY <1>9 DEF ReadStatus, Reading, TypeOK
  <2> QED
    BY <1>9, <2>2, <2>3, Zenon DEF ReadStatus, TypeOK
<1>10. ASSUME NEW c \in Calls, ReadRefusal(c) PROVE TypeOK'
  <2>1. call[c] \in CallStates
    BY Zenon DEF TypeOK
  <2>2. call' \in [Calls -> CallStates]
    BY <1>10, <2>1, Zenon DEF ReadRefusal, TypeOK, CallStates
  <2>3. replies' \in [Calls -> Seq(Frames)]
    BY <1>10 DEF ReadRefusal, Reading, TypeOK
  <2> QED
    BY <1>10, <2>2, <2>3, Zenon DEF ReadRefusal, TypeOK
<1>11. ASSUME NEW c \in Calls, Refuse(c) PROVE TypeOK'
  <2>1. call[c] \in CallStates
    BY Zenon DEF TypeOK
  <2>2. call' \in [Calls -> CallStates]
    BY <1>11, <2>1, CallFields, ZenonT(30) DEF Refuse, NewCall, TypeOK, CallStates, Encoders
  <2> QED
    BY <1>11, <2>2, Zenon DEF Refuse, TypeOK
<1>12. ASSUME NEW c \in Calls, Replay(c) PROVE TypeOK'
  <2>1. call[c] \in CallStates
    BY Zenon DEF TypeOK
  <2>2. call' \in [Calls -> CallStates]
    BY <1>12, <2>1, CallFields, ZenonT(30) DEF Replay, Opened, TypeOK, CallStates, Encoders
  <2>3. wire' \in [Calls -> Seq(Items)]
    BY <1>12 DEF Replay, Ask, TypeOK
  <2>4. replies' \in [Calls -> Seq(Frames)]
    BY <1>12 DEF Replay, Ask, TypeOK
  <2>5. attempt' \in [Calls -> Attempts]
    BY <1>12, Zenon DEF Replay, Ask, NoAttempt, TypeOK, Attempts
  <2>6. handled' \in [Calls -> Nat]
    BY <1>12, Zenon DEF Replay, TypeOK
  <2> QED
    BY <1>12, <2>2, <2>3, <2>4, <2>5, <2>6, Zenon DEF Replay, TypeOK
<1>13. ASSUME NEW c \in Calls, Drop(c) PROVE TypeOK'
  <2>1. call[c] \in CallStates
    BY Zenon DEF TypeOK
  <2>2. call' \in [Calls -> CallStates]
    BY <1>13, <2>1, CallFields, Zenon DEF Drop, Over, NewCall, TypeOK, CallStates, Encoders
  <2> QED
    BY <1>13, <2>2, Zenon DEF Drop, TypeOK
<1>14. ASSUME NEW c \in Calls, NEW works \in BOOLEAN, SendKept(c, works) PROVE TypeOK'
  <2>1. call[c] \in CallStates
    BY Zenon DEF TypeOK
  <2>2. [call[c] EXCEPT !.next = call[c].next + 1, !.kept = Append(@, call[c].next + 1)] \in CallStates
    BY <2>1, CallFields, Zenon DEF CallStates
  <2> QED
    BY <1>14, <2>1, <2>2, CallFields, SendTypes, Zenon DEF SendKept
<1>15. ASSUME NEW c \in Calls, NEW works \in BOOLEAN, SendSettled(c, works) PROVE TypeOK'
  <2>1. call[c] \in CallStates
    BY Zenon DEF TypeOK
  <2>2. call[c].held \in Nat /\ [call[c] EXCEPT !.held = 0] \in CallStates
    BY <2>1, CallFields, Zenon DEF CallStates
  <2>3. call[c].again # <<>> => [call[c] EXCEPT !.again = Tail(@)] \in CallStates
    BY <2>1, CallFields, Zenon DEF CallStates
  <2>4. [call[c] EXCEPT !.next = @ + 1] \in CallStates
    BY <2>1, CallFields, Zenon DEF CallStates
  <2> QED
    BY <1>15, <2>1, <2>2, <2>3, <2>4, CallFields, SendTypes, Zenon DEF SendSettled
<1>16. CASE UNCHANGED vars
  BY <1>16, Zenon DEF vars, TypeOK
<1> QED
  BY <1>1, <1>2, <1>3, <1>4, <1>5, <1>6, <1>7, <1>8, <1>9, <1>10, <1>11, <1>12, <1>13, <1>14, <1>15,
     <1>16, Zenon
     DEF Next, Uploads, Serves, Reads

(* What sequences hold. *)
LEMMA Holds ==
    ASSUME NEW S, NEW s \in Seq(S), NEW x \in S
    PROVE  /\ Range(<<>>) = {}
           /\ Range(Append(s, x)) \subseteq Range(s) \cup {x}
           /\ Range(s \o <<x>>) \subseteq Range(s) \cup {x}
           /\ s \o <<>> = s
  BY DEF Range

(* What opening a call makes of its record. *)
LEMMA OpenedFields ==
    ASSUME NEW c, NEW hopeful, NEW base \in CallStates
    PROVE  /\ Opened(c, hopeful, base).phase = base.phase
           /\ Opened(c, hopeful, base).enabled <=> hopeful /\ Offers(c)
           /\ Opened(c, hopeful, base).encoder # "active"
<1>1. Opened(c, hopeful, base).phase = base.phase
  BY Zenon DEF Opened, CallStates
<1>2. Opened(c, hopeful, base).enabled = (hopeful /\ Offers(c))
  BY Zenon DEF Opened, CallStates
<1>3. Opened(c, hopeful, base).encoder = IF Offers(c) THEN "waiting" ELSE "none"
  BY Zenon DEF Opened, CallStates
<1> QED
  BY <1>1, <1>2, <1>3, Zenon

(* What a queue gives and keeps was in it. *)
LEMMA Leaves ==
    ASSUME NEW S, NEW s \in Seq(S), s # <<>>
    PROVE  Head(s) \in Range(s) /\ Range(Tail(s)) \subseteq Range(s)
  BY DEF Range

(* A frame that was read was on its way. *)
LEMMA ReadFrame ==
    ASSUME TypeOK, NEW c \in Calls, NEW frame, Reading(c, frame)
    PROVE  frame \in Range(replies[c]) /\ Range(replies'[c]) \subseteq Range(replies[c])
<1>1. /\ replies[c] \in Seq(Frames) /\ replies[c] # <<>> /\ frame = Head(replies[c])
      /\ replies'[c] = Tail(replies[c])
  BY Zenon DEF Reading, TypeOK
<1> QED
  BY <1>1, Leaves, Zenon

(* A request leaves the upload, stream-compressed only if the encoder may run. *)
LEMMA SendStep ==
    ASSUME CompInv, NEW c \in Calls, NEW request \in Nat, NEW cost, NEW works \in BOOLEAN,
           NEW base \in CallStates,
           base.phase = call[c].phase, base.enabled = call[c].enabled, Send(c, request, cost, works, base)
    PROVE  \A d \in Calls : OnceInv(d)' /\ DecodeInv(d)'
<1> DEFINE after == EncoderAfter(c, clientFree - cost, works)
<1> DEFINE item == [request |-> request, streamed |-> after = "active"]
<1>0. \A d \in Calls : OnceInv(d) /\ DecodeInv(d) /\ call[d] \in CallStates
  BY Zenon DEF CompInv, TypeOK
<1>1. (\A d \in Calls \ {c} : Same(d)) /\ UNCHANGED <<replies, attempt, handled>>
  BY Zenon DEF Send, remote, Same, CompInv, TypeOK
<1>2. after = "active" => call[c].enabled \/ call[c].encoder = "active"
  <2>1. call[c].encoder \in Encoders
    BY <1>0, Zenon DEF CallStates
  <2> QED
    BY <2>1, EncoderStarts, Zenon
<1>3. call'[c].phase = call[c].phase /\ call'[c].enabled = call[c].enabled /\ call'[c].encoder = after
  <2>1. call'[c] = [base EXCEPT !.sent = @ + 1, !.encoder = after]
    BY Zenon DEF Send, CompInv, TypeOK
  <2> HIDE DEF after
  <2> QED
    BY <2>1, Zenon DEF CallStates
<1>4. Range(wire'[c]) \subseteq Range(wire[c]) \cup {item} /\ (item.streamed <=> after = "active")
  <2>1. wire[c] \in Seq(Items) /\ wire'[c] = Append(wire[c], item)
    BY Zenon DEF Send, CompInv, TypeOK
  <2> HIDE DEF after
  <2>2. item \in Items /\ item.streamed = (after = "active")
    BY Zenon DEF Items
  <2> HIDE DEF item
  <2> QED
    BY <2>1, <2>2, Holds, Zenon
<1> HIDE DEF after, item
<1>5. OnceInv(c)'
  BY <1>0, <1>1, <1>3, Zenon DEF OnceInv
<1>6. DecodeInv(c)'
  BY <1>0, <1>1, <1>2, <1>3, <1>4, Zenon DEF DecodeInv, Able
<1> QED
  BY <1>0, <1>1, <1>5, <1>6, SameCall, Zenon

(* Every step keeps both parts of the invariant for every call. *)
LEMMA CompressionStep ==
    ASSUME CompInv, TypeOK', [Next]_vars
    PROVE  \A d \in Calls : OnceInv(d)' /\ DecodeInv(d)'
<1> USE DEF remote
<1>0. \A d \in Calls : OnceInv(d) /\ DecodeInv(d) /\ call[d] \in CallStates /\ attempt[d] \in Attempts
  BY Zenon DEF CompInv, TypeOK
<1>1. ASSUME NEW c \in Calls, HoldBack(c) PROVE \A d \in Calls : OnceInv(d)' /\ DecodeInv(d)'
  <2>1. (\A d \in Calls \ {c} : Same(d)) /\ UNCHANGED <<wire, replies, attempt, handled>>
    BY <1>1, Zenon DEF HoldBack, Same, CompInv, TypeOK
  <2>2. /\ call'[c].phase = call[c].phase /\ call'[c].enabled = call[c].enabled
        /\ call'[c].encoder = call[c].encoder
    <3>1. call'[c] = [call[c] EXCEPT !.next = @ + 1, !.held = call[c].next + 1, !.parked = TRUE]
      BY <1>1, Zenon DEF HoldBack, CompInv, TypeOK
    <3> QED
      BY <1>0, <3>1, Zenon DEF CallStates
  <2>3. OnceInv(c)'
    BY <1>0, <1>1, <2>1, <2>2, Zenon DEF HoldBack, OnceInv
  <2>4. DecodeInv(c)'
    BY <1>0, <1>1, <2>1, <2>2, Zenon DEF DecodeInv, Able
  <2> QED
    BY <1>0, <2>1, <2>3, <2>4, SameCall, Zenon
<1>2. ASSUME NEW c \in Calls, FinishUpload(c) PROVE \A d \in Calls : OnceInv(d)' /\ DecodeInv(d)'
  <2>1. (\A d \in Calls \ {c} : Same(d)) /\ UNCHANGED <<wire, replies, attempt, handled>>
    BY <1>2, Zenon DEF FinishUpload, Same, CompInv, TypeOK
  <2>2. call'[c].phase = call[c].phase /\ call'[c].enabled = call[c].enabled /\ call'[c].encoder = "none"
    <3>1. call'[c] = [call[c] EXCEPT !.uploading = FALSE, !.encoder = "none"]
      BY <1>2, Zenon DEF FinishUpload, CompInv, TypeOK
    <3> QED
      BY <1>0, <3>1, Zenon DEF CallStates
  <2>3. OnceInv(c)'
    BY <1>0, <1>2, <2>1, <2>2 DEF FinishUpload, OnceInv
  <2>4. DecodeInv(c)'
    BY <1>0, <1>2, <2>1, <2>2, Zenon DEF DecodeInv, Able
  <2> QED
    BY <1>0, <2>1, <2>3, <2>4, SameCall, Zenon
<1>3. ASSUME NEW c \in Calls, Drop(c) PROVE \A d \in Calls : OnceInv(d)' /\ DecodeInv(d)'
  <2>1. (\A d \in Calls \ {c} : Same(d)) /\ UNCHANGED <<wire, replies, attempt, handled>>
    BY <1>3, Zenon DEF Drop, Over, Same, CompInv, TypeOK
  <2>2. call'[c].phase = "ended" /\ call'[c].enabled = FALSE /\ call'[c].encoder = "none"
    <3>1. call'[c] = [NewCall EXCEPT !.phase = "ended"]
      BY <1>3, Zenon DEF Drop, Over, CompInv, TypeOK
    <3> QED
      BY <1>0, <3>1, Zenon DEF NewCall
  <2>3. OnceInv(c)'
    BY <1>0, <1>3, <2>1, <2>2, Zenon DEF Drop, Over, OnceInv
  <2>4. DecodeInv(c)'
    BY <1>0, <1>3, <2>1, <2>2, Zenon DEF DecodeInv, Able
  <2> QED
    BY <1>0, <2>1, <2>3, <2>4, SameCall, Zenon
<1>4. ASSUME NEW c \in Calls, Refuse(c) PROVE \A d \in Calls : OnceInv(d)' /\ DecodeInv(d)'
  <2>1. (\A d \in Calls \ {c} : Same(d)) /\ UNCHANGED <<wire, replies, attempt, handled>>
    BY <1>4, Zenon DEF Refuse, Same, CompInv, TypeOK
  <2>2. call'[c].phase = "replaying" /\ call'[c].enabled = FALSE /\ call'[c].encoder = "none"
    BY <1>4, Zenon DEF Refuse, NewCall, CompInv, TypeOK
  <2>3. OnceInv(c)'
    BY <1>0, <1>4, <2>1, <2>2, Zenon DEF Refuse, OnceInv
  <2>4. DecodeInv(c)'
    BY <1>0, <1>4, <2>1, <2>2, Zenon DEF DecodeInv, Able
  <2> QED
    BY <1>0, <2>1, <2>3, <2>4, SameCall, Zenon
<1>5. ASSUME NEW c \in Calls, Open(c) PROVE \A d \in Calls : OnceInv(d)' /\ DecodeInv(d)'
  <2>1. /\ \A d \in Calls \ {c} : Same(d)
        /\ handled' = handled /\ wire'[c] = <<>> /\ replies'[c] = <<>>
    BY <1>5, Zenon DEF Open, Ask, Same, CompInv, TypeOK
  <2>2. /\ call'[c].phase = "open" /\ (call'[c].enabled <=> optimism /\ Offers(c))
        /\ call'[c].encoder # "active"
    <3> DEFINE base == [call[c] EXCEPT !.phase = "open"]
    <3>1. base \in CallStates /\ base.phase = "open"
      BY <1>0, ZenonT(30) DEF CallStates
    <3>2. call'[c] = Opened(c, optimism, base)
      BY <1>5, Zenon DEF Open, CompInv, TypeOK
    <3> HIDE DEF base
    <3> QED
      BY <3>1, <3>2, OpenedFields
  <2>3. /\ attempt'[c].state = "asked" /\ attempt'[c].decoder = FALSE
        /\ optimism /\ Offers(c) => attempt'[c].offer = "optimistic"
    BY <1>5, Zenon DEF Open, Ask, NoAttempt, CompInv, TypeOK
  <2>4. Range(wire'[c]) = {} /\ Range(replies'[c]) = {}
    BY <2>1 DEF Range
  <2>5. OnceInv(c)'
    BY <1>0, <1>5, <2>1, <2>2, <2>3, <2>4, Zenon DEF Open, OnceInv
  <2>6. DecodeInv(c)'
    BY <2>2, <2>3, <2>4, Zenon DEF DecodeInv, Able
  <2> QED
    BY <1>0, <2>1, <2>5, <2>6, SameCall, Zenon
<1>6. ASSUME NEW c \in Calls, Replay(c) PROVE \A d \in Calls : OnceInv(d)' /\ DecodeInv(d)'
  <2>1. /\ \A d \in Calls \ {c} : Same(d)
        /\ handled' = handled /\ wire'[c] = <<>> /\ replies'[c] = <<>>
    BY <1>6, Zenon DEF Replay, Ask, Same, CompInv, TypeOK
  <2>2. call'[c].phase = "replayed" /\ ~call'[c].enabled /\ call'[c].encoder # "active"
    <3> DEFINE base == [call[c] EXCEPT !.phase = "replayed"]
    <3>1. base \in CallStates /\ base.phase = "replayed"
      BY <1>0, ZenonT(30) DEF CallStates
    <3>2. call'[c] = Opened(c, FALSE, base)
      BY <1>6, Zenon DEF Replay, CompInv, TypeOK
    <3>3. /\ Opened(c, FALSE, base).phase = base.phase /\ Opened(c, FALSE, base).encoder # "active"
          /\ Opened(c, FALSE, base).enabled <=> FALSE /\ Offers(c)
      BY <3>1, OpenedFields, ZenonT(30)
    <3> HIDE DEF base
    <3> QED
      BY <3>1, <3>2, <3>3, Zenon
  <2>3. /\ attempt'[c].state = "asked" /\ attempt'[c].decoder = FALSE
    BY <1>6, Zenon DEF Replay, Ask, NoAttempt, CompInv, TypeOK
  <2>4. Range(wire'[c]) = {} /\ Range(replies'[c]) = {}
    BY <2>1 DEF Range
  <2>5. OnceInv(c)'
    BY <1>0, <1>6, <2>1, <2>2, <2>3, <2>4, Zenon DEF Replay, OnceInv
  <2>6. DecodeInv(c)'
    BY <2>2, <2>3, <2>4, Zenon DEF DecodeInv, Able
  <2> QED
    BY <1>0, <2>1, <2>5, <2>6, SameCall, Zenon
<1>7. ASSUME NEW c \in Calls, ReadAnswer(c) PROVE \A d \in Calls : OnceInv(d)' /\ DecodeInv(d)'
  <2>1. (\A d \in Calls \ {c} : Same(d)) /\ UNCHANGED <<wire, attempt, handled>>
    BY <1>7, Zenon DEF ReadAnswer, Reading, Same, CompInv, TypeOK
  <2>2. "answer" \in Range(replies[c]) /\ Range(replies'[c]) \subseteq Range(replies[c])
    BY <1>7, ReadFrame, Zenon DEF ReadAnswer, CompInv
  <2>3. call'[c].phase = call[c].phase /\ call'[c].encoder = call[c].encoder
    <3>1. call'[c] = [call[c] EXCEPT !.enabled = TRUE, !.decision = "settled", !.kept = <<>>,
           !.parked = FALSE]
      BY <1>7, Zenon DEF ReadAnswer, CompInv, TypeOK
    <3> QED
      BY <1>0, <3>1, Zenon DEF CallStates
  <2>4. OnceInv(c)'
    BY <1>0, <1>7, <2>1, <2>2, <2>3, Zenon DEF ReadAnswer, Reading, OnceInv
  <2>5. DecodeInv(c)'
    BY <1>0, <2>1, <2>2, <2>3, Zenon DEF DecodeInv, Able
  <2> QED
    BY <1>0, <2>1, <2>4, <2>5, SameCall, Zenon
<1>8. ASSUME NEW c \in Calls, ReadStatus(c) PROVE \A d \in Calls : OnceInv(d)' /\ DecodeInv(d)'
  <2>1. (\A d \in Calls \ {c} : Same(d)) /\ UNCHANGED <<wire, attempt, handled>>
    BY <1>8, Zenon DEF ReadStatus, Over, Reading, Same, CompInv, TypeOK
  <2>2. "status" \in Range(replies[c]) /\ Range(replies'[c]) \subseteq Range(replies[c])
    BY <1>8, ReadFrame, Zenon DEF ReadStatus, CompInv
  <2>3. call'[c].phase = "ended" /\ call'[c].enabled = FALSE /\ call'[c].encoder = "none"
    BY <1>8, Zenon DEF ReadStatus, Over, NewCall, CompInv, TypeOK
  <2>4. OnceInv(c)'
    BY <1>0, <1>8, <2>1, <2>2, <2>3, Zenon DEF ReadStatus, Reading, OnceInv
  <2>5. DecodeInv(c)'
    BY <1>0, <2>1, <2>2, <2>3, Zenon DEF DecodeInv, Able
  <2> QED
    BY <1>0, <2>1, <2>4, <2>5, SameCall, Zenon
<1>9. ASSUME NEW c \in Calls, ReadRefusal(c) PROVE \A d \in Calls : OnceInv(d)' /\ DecodeInv(d)'
  <2>1. (\A d \in Calls \ {c} : Same(d)) /\ UNCHANGED <<wire, attempt, handled>>
    BY <1>9, Zenon DEF ReadRefusal, Reading, Same, CompInv, TypeOK
  <2>2. "refused" \in Range(replies[c]) /\ Range(replies'[c]) \subseteq Range(replies[c])
    BY <1>9, ReadFrame, Zenon DEF ReadRefusal, CompInv
  <2>3. /\ call'[c].phase = "refusing" /\ call'[c].enabled = call[c].enabled
        /\ call'[c].encoder = call[c].encoder
    <3>1. call'[c] = [call[c] EXCEPT !.phase = "refusing"]
      BY <1>9, Zenon DEF ReadRefusal, CompInv, TypeOK
    <3> QED
      BY <1>0, <3>1, Zenon DEF CallStates
  <2>4. OnceInv(c)'
    BY <1>0, <1>9, <2>1, <2>2, <2>3, Zenon DEF ReadRefusal, Reading, OnceInv
  <2>5. DecodeInv(c)'
    BY <1>0, <2>1, <2>2, <2>3, Zenon DEF DecodeInv, Able
  <2> QED
    BY <1>0, <2>1, <2>4, <2>5, SameCall, Zenon
<1>10. ASSUME NEW c \in Calls, Reject(c) PROVE \A d \in Calls : OnceInv(d)' /\ DecodeInv(d)'
  <2>1. (\A d \in Calls \ {c} : Same(d)) /\ UNCHANGED <<call, wire, handled>>
    BY <1>10, Zenon DEF Reject, Reply, Same, CompInv, TypeOK
  <2>2. Range(replies'[c]) \subseteq Range(replies[c]) \cup {"status"}
    <3>1. replies[c] \in Seq(Frames) /\ "status" \in Frames /\ replies'[c] = replies[c] \o <<"status">>
      BY <1>10, Zenon DEF Reject, Reply, Frames, CompInv, TypeOK
    <3> QED
      BY <3>1, Holds, Zenon
  <2>3. /\ attempt[c].state = "asked" /\ attempt'[c].state = "ended"
        /\ attempt'[c].offer = attempt[c].offer /\ attempt'[c].decoder = attempt[c].decoder
    <3>1. attempt'[c] = [attempt[c] EXCEPT !.state = "ended"]
      BY <1>10, Zenon DEF Reject, CompInv, TypeOK
    <3>2. attempt[c] \in Attempts
      BY <1>0, Zenon
    <3>3. attempt[c].state = "asked"
      BY <1>10, Zenon DEF Reject
    <3> QED
      BY <3>1, <3>2, <3>3, Zenon DEF Attempts
  <2>4. OnceInv(c)'
    BY <1>0, <2>1, <2>2, <2>3, Zenon DEF OnceInv
  <2>5. DecodeInv(c)'
    BY <1>0, <2>1, <2>2, <2>3, Zenon DEF DecodeInv, Able
  <2> QED
    BY <1>0, <2>1, <2>4, <2>5, SameCall, Zenon
<1>11. ASSUME NEW c \in Calls, Finish(c) PROVE \A d \in Calls : OnceInv(d)' /\ DecodeInv(d)'
  <2>1. (\A d \in Calls \ {c} : Same(d)) /\ UNCHANGED <<call, wire, handled>>
    BY <1>11, Zenon DEF Finish, Reply, Same, CompInv, TypeOK
  <2>2. Range(replies'[c]) \subseteq Range(replies[c]) \cup {"status"}
    <3>1. replies[c] \in Seq(Frames) /\ "status" \in Frames /\ replies'[c] = replies[c] \o <<"status">>
      BY <1>11, Zenon DEF Finish, Reply, Frames, CompInv, TypeOK
    <3> QED
      BY <3>1, Holds, Zenon
  <2>3. /\ attempt[c].state = "serving" /\ attempt'[c].state = "ended"
        /\ attempt'[c].offer = attempt[c].offer /\ attempt'[c].decoder = FALSE
    <3>1. attempt'[c] = [attempt[c] EXCEPT !.state = "ended", !.decoder = FALSE]
      BY <1>11, Zenon DEF Finish, CompInv, TypeOK
    <3>2. attempt[c] \in Attempts
      BY <1>0, Zenon
    <3>3. attempt[c].state = "serving"
      BY <1>11, Zenon DEF Finish
    <3> QED
      BY <3>1, <3>2, <3>3, Zenon DEF Attempts
  <2>4. OnceInv(c)'
    BY <1>0, <2>1, <2>2, <2>3, Zenon DEF OnceInv
  <2>5. DecodeInv(c)'
    BY <1>0, <2>1, <2>2, <2>3, Zenon DEF DecodeInv, Able
  <2> QED
    BY <1>0, <2>1, <2>4, <2>5, SameCall, Zenon
<1>12. ASSUME NEW c \in Calls, Receive(c) PROVE \A d \in Calls : OnceInv(d)' /\ DecodeInv(d)'
  <2>1. (\A d \in Calls \ {c} : Same(d)) /\ UNCHANGED <<call, replies, attempt, handled>>
    BY <1>12, Zenon DEF Receive, Same, CompInv, TypeOK
  <2>2. Range(wire'[c]) \subseteq Range(wire[c])
    <3>1. wire[c] \in Seq(Items) /\ wire[c] # <<>> /\ wire'[c] = Tail(wire[c])
      BY <1>12, Zenon DEF Receive, CompInv, TypeOK
    <3> QED
      BY <3>1, Leaves, Zenon
  <2>3. OnceInv(c)'
    BY <1>0, <2>1, Zenon DEF OnceInv
  <2>4. DecodeInv(c)'
    BY <1>0, <2>1, <2>2, Zenon DEF DecodeInv, Able
  <2> QED
    BY <1>0, <2>1, <2>3, <2>4, SameCall, Zenon
<1>13. ASSUME NEW c \in Calls, NEW allowed \in BOOLEAN, Dispatch(c, allowed)
       PROVE \A d \in Calls : OnceInv(d)' /\ DecodeInv(d)'
  <2> DEFINE decodes == Decodes(c, allowed)
  <2> DEFINE refuses == Refuses(c, allowed)
  <2>1. (\A d \in Calls \ {c} : Same(d)) /\ UNCHANGED <<call, wire>>
    BY <1>13 DEF Dispatch, Reply, Same, CompInv, TypeOK
  <2>2. /\ refuses <=> attempt[c].offer = "optimistic" /\ ~decodes
        /\ decodes \in BOOLEAN
    BY Zenon DEF Refuses, Decodes
  <2>3. /\ attempt[c].state = "asked" /\ attempt'[c].state = IF refuses THEN "refused" ELSE "serving"
        /\ attempt'[c].offer = attempt[c].offer /\ attempt'[c].decoder = decodes
    <3>1. attempt'[c] = [attempt[c] EXCEPT !.state = IF refuses THEN "refused" ELSE "serving",
           !.decoder = decodes]
      BY <1>13, Zenon DEF Dispatch, CompInv, TypeOK
    <3>2. attempt[c] \in Attempts
      BY <1>0, Zenon
    <3>3. attempt[c].state = "asked"
      BY <1>13, Zenon DEF Dispatch
    <3> HIDE DEF decodes, refuses
    <3> QED
      BY <3>1, <3>2, <3>3, Zenon DEF Attempts
  <2>4. /\ "refused" \in Range(replies'[c]) => "refused" \in Range(replies[c]) \/ refuses
        /\ "answer" \in Range(replies'[c]) => "answer" \in Range(replies[c]) \/ decodes
    <3>1. replies[c] \in Seq(Frames) /\ "refused" \in Frames /\ "answer" \in Frames
      BY Zenon DEF Frames, CompInv, TypeOK
    <3>2. replies'[c] = replies[c] \o (IF refuses THEN <<"refused">> ELSE IF decodes THEN <<"answer">> ELSE <<>>)
      BY <1>13, Zenon DEF Dispatch, Reply, CompInv, TypeOK
    <3> HIDE DEF decodes, refuses
    <3>3. CASE refuses
      BY <3>1, <3>2, <3>3, Holds
    <3>4. CASE ~refuses /\ decodes
      BY <3>1, <3>2, <3>4, Holds
    <3>5. CASE ~refuses /\ ~decodes
      BY <3>1, <3>2, <3>5, Holds
    <3> QED
      BY <3>3, <3>4, <3>5, Zenon
  <2>5. handled[c] = 0 /\ handled'[c] = IF refuses THEN 0 ELSE 1
    <3>1. handled[c] = 0
      BY <1>0, <2>3, Zenon DEF OnceInv
    <3>2. handled'[c] = handled[c] + One(~refuses)
      BY <1>13, Zenon DEF Dispatch, CompInv, TypeOK
    <3> HIDE DEF refuses
    <3> QED
      BY <3>1, <3>2 DEF One
  <2> HIDE DEF decodes, refuses
  <2>6. OnceInv(c)'
    BY <1>0, <2>1, <2>3, <2>4, <2>5, Zenon DEF OnceInv
  <2>7. DecodeInv(c)'
    BY <1>0, <2>1, <2>2, <2>3, <2>4, Zenon DEF DecodeInv, Able
  <2> QED
    BY <1>0, <2>1, <2>6, <2>7, SameCall, Zenon
<1>14. ASSUME NEW c \in Calls, NEW works \in BOOLEAN, SendKept(c, works)
       PROVE \A d \in Calls : OnceInv(d)' /\ DecodeInv(d)'
  <2> DEFINE base == [call[c] EXCEPT !.next = call[c].next + 1, !.kept = Append(@, call[c].next + 1)]
  <2>1. base \in CallStates /\ base.phase = call[c].phase /\ base.enabled = call[c].enabled
    BY <1>0, CallFields, ZenonT(30) DEF CallStates
  <2>2. call[c].next + 1 \in Nat /\ Send(c, call[c].next + 1, 1, works, base)
    BY <1>0, <1>14, CallFields, Zenon DEF SendKept
  <2> HIDE DEF base
  <2> QED
    BY <2>1, <2>2, SendStep, Zenon
<1>15. ASSUME NEW c \in Calls, NEW works \in BOOLEAN, SendSettled(c, works)
       PROVE \A d \in Calls : OnceInv(d)' /\ DecodeInv(d)'
  <2>1. ASSUME call[c].held # 0, Send(c, call[c].held, 0, works, [call[c] EXCEPT !.held = 0])
        PROVE \A d \in Calls : OnceInv(d)' /\ DecodeInv(d)'
    <3> DEFINE base == [call[c] EXCEPT !.held = 0]
    <3>1. /\ base \in CallStates /\ base.phase = call[c].phase /\ base.enabled = call[c].enabled
          /\ call[c].held \in Nat
      BY <1>0, CallFields, ZenonT(30) DEF CallStates
    <3> HIDE DEF base
    <3> QED
      BY <2>1, <3>1, SendStep, Zenon DEF base
  <2>2. ASSUME call[c].again # <<>>, Send(c, Head(call[c].again), 0, works,
  [call[c] EXCEPT !.again = Tail(@)])
        PROVE \A d \in Calls : OnceInv(d)' /\ DecodeInv(d)'
    <3> DEFINE base == [call[c] EXCEPT !.again = Tail(@)]
    <3>1. /\ base \in CallStates /\ base.phase = call[c].phase /\ base.enabled = call[c].enabled
          /\ Head(call[c].again) \in Nat
      BY <1>0, <2>2, CallFields, ZenonT(30) DEF CallStates
    <3> QED
      BY <2>2, <3>1, SendStep, Zenon
  <2>3. ASSUME Send(c, call[c].next + 1, 0, works, [call[c] EXCEPT !.next = @ + 1])
        PROVE \A d \in Calls : OnceInv(d)' /\ DecodeInv(d)'
    <3> DEFINE base == [call[c] EXCEPT !.next = @ + 1]
    <3>1. /\ base \in CallStates /\ base.phase = call[c].phase /\ base.enabled = call[c].enabled
          /\ call[c].next + 1 \in Nat
      BY <1>0, CallFields, ZenonT(30) DEF CallStates
    <3> QED
      BY <2>3, <3>1, SendStep, Zenon
  <2> QED
    BY <1>15, <2>1, <2>2, <2>3, Zenon DEF SendSettled
<1>16. CASE UNCHANGED vars
  BY <1>0, <1>16, SameCall, Zenon DEF vars, Same
<1> QED
  BY <1>1, <1>2, <1>3, <1>4, <1>5, <1>6, <1>7, <1>8, <1>9, <1>10, <1>11, <1>12, <1>13, <1>14, <1>15,
     <1>16, Zenon
     DEF Next, Uploads, Serves, Reads

(* The invariant holds in every state of the calls, their attempts and their encoders. *)
THEOREM CompressionInvariant == Spec => []CompInv
<1>1. Init => CompInv
  <2> SUFFICES ASSUME Init PROVE CompInv
    BY Zenon
  <2>1. NewCall \in CallStates
    BY DEF NewCall, CallStates, Encoders
  <2>2. TypeOK
    BY <2>1 DEF Init, TypeOK, NoAttempt, Attempts
  <2>3. ASSUME NEW c \in Calls PROVE OnceInv(c) /\ DecodeInv(c)
    <3>1. Range(<<>>) = {}
      BY DEF Range
    <3> QED
      BY <3>1, Zenon DEF Init, OnceInv, DecodeInv, Able, NoAttempt, NewCall
  <2> QED
    BY <2>2, <2>3, Zenon DEF CompInv
<1>2. CompInv /\ [Next]_vars => CompInv'
  BY CompressionTypes, CompressionStep, Zenon DEF CompInv
<1> QED
  BY <1>1, <1>2, PTL DEF Spec

(* However a call is answered, refused and replayed, its handler runs at most once, and a        *)
(* stream-compressed request only ever waits for a handler that can decode it (client/replay.rs, *)
(* compression/stream.rs negotiate_stream).                                                      *)
THEOREM CompressionStreamsOnce == Spec => []StreamedOnce
<1>1. CompInv => StreamedOnce
  <2> SUFFICES ASSUME CompInv PROVE StreamedOnce
    BY Zenon
  <2>1. RunsOnce
    BY DEF CompInv, OnceInv, RunsOnce
  <2>2. Decodable
    <3> SUFFICES ASSUME NEW c \in Calls, attempt[c].state = "serving", ~attempt[c].decoder,
                        NEW i \in DOMAIN wire[c], wire[c][i].streamed
                 PROVE  FALSE
      BY Zenon DEF Decodable
    <3>1. wire[c][i] \in Range(wire[c]) /\ DecodeInv(c)
      BY Zenon DEF Range, CompInv
    <3> QED
      BY <3>1, Zenon DEF DecodeInv, Able
  <2> QED
    BY <2>1, <2>2, Zenon DEF StreamedOnce
<1> QED
  BY <1>1, CompressionInvariant, PTL

-----------------------------------------------------------------------------
(* Dictionaries. *)

(* What CompressionConfig::new ensures: one dictionary of an ID, and one for the type at most. *)
Distinct(ds) == \A d, e \in ds : d.id = e.id => d = e
ValidConfig(config) ==
    /\ Plain \in config.holds /\ Distinct(config.holds)
    /\ config.forType \subseteq config.holds /\ \A d, e \in config.forType : d = e

(* What the client learned is what both peers hold. *)
Both == clientConfig.holds \cap serverConfig.holds
SharedInv == ValidConfig(clientConfig) /\ ValidConfig(serverConfig) /\ (known => shared = Both)

(* A call's dictionary is of those it could use when it was prepared, all of them confirmed unless *)
(* it queries; and what its server responds with is a dictionary it accepts.                       *)
CallInv(c) ==
    /\ step[c] \in {"new", "sent", "served", "answered"}
    /\ step[c] # "new" =>
           /\ pending[c] \/ known
           /\ query[c] = IF pending[c] THEN clientConfig.holds ELSE {}
           /\ requests[c] = DictFor(clientConfig, c \in plain,
                                    IF pending[c] THEN clientConfig.holds ELSE Both)
           /\ accept[c] = requests[c]
    /\ step[c] \in {"served", "answered"} =>
           /\ answer[c] = Matches(serverConfig, query[c])
           /\ responses[c] \subseteq accept[c]
    /\ step[c] = "answered" => known

CallTables ==
    /\ step \in [DictionaryCalls -> {"new", "sent", "served", "answered"}]
    /\ query = [c \in DictionaryCalls |-> query[c]] /\ accept = [c \in DictionaryCalls |-> accept[c]]
    /\ requests = [c \in DictionaryCalls |-> requests[c]]
    /\ pending \in [DictionaryCalls -> BOOLEAN]
    /\ answer = [c \in DictionaryCalls |-> answer[c]]
    /\ responses = [c \in DictionaryCalls |-> responses[c]]

DictInv == SharedInv /\ CallTables /\ (\A c \in DictionaryCalls : CallInv(c)) /\ ~rejected

(* Every configuration is valid. *)
LEMMA ConfigsAreValid == \A config \in Configs : ValidConfig(config)
<1> SUFFICES ASSUME NEW ds \in SUBSET Dicts, \A d, e \in ds : d.id = e.id => d = e,
                    NEW t \in {{}} \cup {{d} : d \in ds}
             PROVE  ValidConfig([holds |-> ds \cup {Plain}, forType |-> t])
  BY DEF Configs
<1>1. \A d \in ds : d.id # Plain.id
  BY DictionaryIds, Zenon DEF Dicts, Plain
<1>2. Distinct(ds \cup {Plain})
  BY <1>1, Zenon DEF Distinct
<1>3. t \subseteq ds \cup {Plain} /\ \A d, e \in t : d = e
  OBVIOUS
<1> QED
  BY <1>2, <1>3, Zenon DEF ValidConfig

(* dict_for returns a dictionary of those it may use, and never two. *)
LEMMA OneDict ==
    ASSUME NEW config, ValidConfig(config), NEW c, NEW allowed, NEW usable
    PROVE  /\ DictFor(config, c \in allowed, usable) \subseteq usable
           /\ \A d, e \in DictFor(config, c \in allowed, usable) : d = e
  BY Zenon DEF DictFor, ValidConfig

(* What a call accepts, and may compress with, is one dictionary of those it could use. *)
LEMMA AcceptsOne ==
    ASSUME SharedInv, NEW c \in DictionaryCalls, CallInv(c), step[c] # "new"
    PROVE  /\ requests[c] = accept[c]
           /\ accept[c] \subseteq clientConfig.holds
           /\ ~pending[c] => accept[c] \subseteq Both
           /\ \A d, e \in accept[c] : d = e
<1> DEFINE usable == IF pending[c] THEN clientConfig.holds ELSE Both
<1>1. accept[c] = DictFor(clientConfig, c \in plain, usable) /\ requests[c] = accept[c]
  BY Zenon DEF CallInv
<1>2. usable \subseteq clientConfig.holds /\ (~pending[c] => usable = Both)
  BY Zenon DEF Both
<1> HIDE DEF usable
<1>3. /\ DictFor(clientConfig, c \in plain, usable) \subseteq usable
      /\ \A d, e \in DictFor(clientConfig, c \in plain, usable) : d = e
  BY OneDict, Zenon DEF SharedInv
<1> QED
  BY <1>1, <1>2, <1>3, Zenon

(* A call's request is compressed with a dictionary that its server holds. *)
LEMMA RequestIsShared ==
    ASSUME SharedInv, NEW c \in DictionaryCalls, CallInv(c), step[c] # "new"
    PROVE  RequestDict(c) \subseteq Both
<1>1. CASE pending[c]
  BY <1>1, Zenon DEF RequestDict, SharedInv
<1>2. CASE ~pending[c]
  BY <1>2, AcceptsOne, Zenon DEF RequestDict
<1> QED
  BY <1>1, <1>2, Zenon

(* Whoever holds a dictionary, and no other of its ID, finds it by its ID. *)
LEMMA HeldIsAccepted ==
    ASSUME NEW held, Distinct(held), NEW d \in held
    PROVE  ~Rejects(d, held)
  BY Zenon DEF Distinct, Rejects, Lookup

(* A step of one call, and what it may change of the connection, keeps the others'. *)
LEMMA OtherCalls ==
    ASSUME DictInv, NEW c \in DictionaryCalls, UNCHANGED configs, CallTables',
           SharedInv', CallInv(c)', known => known',
           \A d \in DictionaryCalls \ {c} :
               /\ step'[d] = step[d] /\ query'[d] = query[d] /\ accept'[d] = accept[d]
               /\ requests'[d] = requests[d] /\ pending'[d] = pending[d] /\ answer'[d] = answer[d]
               /\ responses'[d] = responses[d],
           ~rejected'
    PROVE  DictInv'
<1>1. ASSUME NEW d \in DictionaryCalls \ {c} PROVE CallInv(d)'
  <2>1. CallInv(d) /\ Both' = Both /\ plain' = plain
    BY Zenon DEF DictInv, configs, Both
  <2>2. DictFor(clientConfig', d \in plain', IF pending'[d] THEN clientConfig'.holds ELSE Both')
          = DictFor(clientConfig, d \in plain, IF pending[d] THEN clientConfig.holds ELSE Both)
    BY <2>1, Zenon DEF configs, DictFor
  <2>3. Matches(serverConfig', query'[d]) = Matches(serverConfig, query[d])
    BY Zenon DEF configs, Matches
  <2> QED
    BY <2>1, <2>2, <2>3, Zenon DEF CallInv, configs
<1> QED
  BY <1>1, Zenon DEF DictInv

(* A call is prepared with what it may ask about, or with what is shared. *)
LEMMA Preparing == ASSUME DictInv, NEW c \in DictionaryCalls, Prepare(c) PROVE DictInv'
<1> USE DEF Prepare
<1>1. UNCHANGED configs /\ SharedInv' /\ CallTables' /\ ~rejected'
  <2>1. SharedInv'
    BY Zenon DEF DictInv, SharedInv, configs, Both
  <2>2. CallTables'
    BY Zenon DEF DictInv, CallTables, SharedInv, serverCall
  <2> QED
    BY <2>1, <2>2, Zenon DEF DictInv
<1>2. CallInv(c)'
  <2>1. step'[c] = "sent" /\ pending'[c] = ~known /\ requests'[c] = accept'[c]
    BY Zenon DEF DictInv, CallTables
  <2>2. query'[c] = IF pending'[c] THEN clientConfig'.holds ELSE {}
    BY <2>1, Zenon DEF DictInv, CallTables, configs
  <2>3. requests'[c] = DictFor(clientConfig, c \in plain, IF known THEN shared ELSE clientConfig.holds)
    BY Zenon DEF DictInv, CallTables
  <2>4. requests'[c] = DictFor(clientConfig', c \in plain',
                               IF pending'[c] THEN clientConfig'.holds ELSE Both')
    BY <2>1, <2>3, Zenon DEF DictInv, SharedInv, configs, Both
  <2> QED
    BY <2>1, <2>2, <2>4, Zenon DEF CallInv
<1> QED
  BY <1>1, <1>2, OtherCalls, Zenon DEF DictInv, CallTables, serverCall

(* What the server responds with is a dictionary of the client's, although named by its ID. *)
LEMMA Negotiating == ASSUME DictInv, NEW c \in DictionaryCalls, Negotiate(c) PROVE DictInv'
<1> USE DEF Negotiate
<1>1. UNCHANGED configs /\ SharedInv' /\ CallTables' /\ ~rejected'
  <2>1. SharedInv'
    BY Zenon DEF DictInv, SharedInv, configs, Both
  <2>2. CallTables'
    BY Zenon DEF DictInv, CallTables, clientCall
  <2> QED
    BY <2>1, <2>2, Zenon DEF DictInv
<1>2. CallInv(c)'
  <2> DEFINE usable == {d \in serverConfig.holds :
                           /\ \E a \in accept[c] : a.id = d.id
                           /\ query[c] # {} => d \in Matches(serverConfig, query[c])}
  <2>1. step'[c] = "served" /\ answer'[c] = Matches(serverConfig, query[c])
    BY Zenon DEF DictInv, CallTables
  <2>2. responses'[c] = DictFor(serverConfig, c \in plain, usable)
    BY Zenon DEF DictInv, CallTables
  <2>3. ASSUME NEW d \in usable PROVE d \in accept[c]
    <3>1. PICK a \in accept[c] : a.id = d.id
      BY Zenon
    <3>2. CASE pending[c]
      <4>1. a \in clientConfig.holds /\ Plain \in clientConfig.holds
        BY AcceptsOne, Zenon DEF DictInv, SharedInv, ValidConfig
      <4>2. d \in clientConfig.holds
        BY <3>2, <4>1, Zenon DEF DictInv, CallInv, Matches
      <4> QED
        BY <3>1, <4>1, <4>2, Zenon DEF DictInv, SharedInv, ValidConfig, Distinct
    <3>3. CASE ~pending[c]
      <4>1. a \in serverConfig.holds
        BY <3>3, AcceptsOne, Zenon DEF DictInv, Both
      <4> QED
        BY <3>1, <4>1, Zenon DEF DictInv, SharedInv, ValidConfig, Distinct
    <3> QED
      BY <3>2, <3>3, Zenon
  <2>4. responses'[c] \subseteq accept[c]
    <3>1. DictFor(serverConfig, c \in plain, usable) \subseteq usable
      BY OneDict, Zenon DEF DictInv, SharedInv
    <3> QED
      BY <2>2, <2>3, <3>1, Zenon
  <2> HIDE DEF usable
  <2> QED
    BY <2>1, <2>4, Zenon DEF DictInv, CallInv, configs, clientCall, Both, Matches, DictFor
<1> QED
  BY <1>1, <1>2, OtherCalls, Zenon DEF DictInv, CallTables, clientCall

(* The first answer makes known what both peers hold. *)
LEMMA Learning == ASSUME DictInv, NEW c \in DictionaryCalls, Learn(c) PROVE DictInv'
<1> USE DEF Learn
<1>1. UNCHANGED <<configs, clientCall, serverCall, rejected>> /\ step'[c] = "answered"
  BY Zenon DEF DictInv, CallTables
<1>2. known' /\ SharedInv'
  <2>1. CASE query[c] # {} /\ ~known
    <3>1. known' /\ shared' = Matches(clientConfig, answer[c]) /\ pending[c]
      BY <2>1, Zenon DEF DictInv, CallInv
    <3>2. answer[c] = clientConfig.holds \cap serverConfig.holds
      BY <3>1, Zenon DEF DictInv, CallInv, Matches
    <3> QED
      BY <1>1, <3>1, <3>2, Zenon DEF DictInv, SharedInv, Both, Matches, configs
  <2>2. CASE query[c] = {} \/ known
    <3>1. known
      BY <2>2, Zenon DEF DictInv, SharedInv, ValidConfig, CallInv
    <3> QED
      BY <1>1, <2>2, <3>1, Zenon DEF DictInv, SharedInv, Both, configs
  <2> QED
    BY <2>1, <2>2, Zenon
<1>3. CallTables'
  BY <1>1, Zenon DEF DictInv, CallTables, clientCall, serverCall
<1>4. CallInv(c)'
  BY <1>1, <1>2, ZenonT(30) DEF DictInv, CallInv, clientCall, serverCall, configs, Both, DictFor, Matches
<1> QED
  BY <1>1, <1>2, <1>3, <1>4, OtherCalls, SMTT(30) DEF DictInv, CallTables, clientCall, serverCall

(* No message that is sent is rejected. *)
LEMMA Sending ==
    ASSUME DictInv, NEW c \in DictionaryCalls, SendRequest(c) \/ SendResponse(c)
    PROVE  DictInv'
<1>1. ~rejected'
  <2>1. CASE SendRequest(c)
    <3>1. PICK dict \in RequestDict(c) : rejected' = (rejected \/ Rejects(dict, serverConfig.holds))
      BY <2>1, Zenon DEF SendRequest
    <3>2. dict \in serverConfig.holds
      BY <2>1, RequestIsShared, Zenon DEF SendRequest, DictInv, Both
    <3>3. ~Rejects(dict, serverConfig.holds)
      BY <3>2, HeldIsAccepted, Zenon DEF DictInv, SharedInv, ValidConfig
    <3> QED
      BY <3>1, <3>3, Zenon DEF DictInv
  <2>2. CASE SendResponse(c)
    <3>1. PICK dict \in responses[c] : rejected' = (rejected \/ Rejects(dict, accept[c]))
      BY <2>2, Zenon DEF SendResponse
    <3>2. dict \in accept[c]
      BY <2>2, Zenon DEF SendResponse, DictInv, CallInv
    <3>3. \A d, e \in accept[c] : d = e
      BY <2>2, AcceptsOne, Zenon DEF SendResponse, DictInv
    <3>4. ~Rejects(dict, accept[c])
      BY <3>2, <3>3, HeldIsAccepted, Zenon DEF Distinct
    <3> QED
      BY <3>1, <3>4, Zenon DEF DictInv
  <2> QED
    BY <2>1, <2>2, Zenon
<1>2. UNCHANGED <<configs, known, shared, step, clientCall, serverCall>>
  BY Zenon DEF SendRequest, SendResponse
<1>3. SharedInv' /\ CallTables' /\ \A d \in DictionaryCalls : CallInv(d)'
  BY <1>2 DEF DictInv, SharedInv, CallTables, CallInv, configs, clientCall, serverCall, Both, DictFor,
              Matches
<1> QED
  BY <1>1, <1>3, Zenon DEF DictInv

(* Every step of a connection's calls keeps the invariant. *)
LEMMA DictKept == DictInv /\ [DictNext]_dictVars => DictInv'
<1> SUFFICES ASSUME DictInv, [DictNext]_dictVars PROVE DictInv'
  BY Zenon
<1>1. CASE DictNext
  BY <1>1, Preparing, Negotiating, Learning, Sending, Zenon DEF DictNext
<1>2. CASE UNCHANGED dictVars
  BY <1>2, SMTT(30)
     DEF dictVars, DictInv, SharedInv, CallTables, CallInv, configs, clientCall, serverCall, Both,
              DictFor, Matches
<1> QED
  BY <1>1, <1>2, Zenon

(* What the invariant says of the requests once the answer is known. *)
LEMMA SharedRequests == DictInv => SharedIsUsed
<1> SUFFICES ASSUME DictInv, NEW c \in DictionaryCalls, known, step[c] # "new",
                    NEW both, both = clientConfig.forType \cap serverConfig.holds
             PROVE  /\ both # {} => RequestDict(c) = both
                    /\ (both = {} /\ ~pending[c]) => RequestDict(c) = {d \in {Plain} : c \in plain}
  BY Zenon DEF SharedIsUsed
<1>1. clientConfig.forType \cap Both = both
  BY Zenon DEF DictInv, SharedInv, ValidConfig, Both
<1>2. CASE pending[c]
  <2>1. ASSUME both # {} PROVE RequestDict(c) = both
    <3>1. requests[c] = clientConfig.forType
      <4>1. requests[c] = DictFor(clientConfig, c \in plain, clientConfig.holds)
        BY <1>2, Zenon DEF DictInv, CallInv
      <4>2. clientConfig.forType \cap clientConfig.holds = clientConfig.forType
        BY Zenon DEF DictInv, SharedInv, ValidConfig
      <4> QED
        BY <2>1, <4>1, <4>2, Zenon DEF DictFor
    <3> QED
      BY <1>1, <1>2, <3>1, Zenon DEF DictInv, SharedInv, RequestDict
  <2> QED
    BY <1>2, <2>1, Zenon
<1>3. CASE ~pending[c]
  <2>1. RequestDict(c) = DictFor(clientConfig, c \in plain, Both)
    BY <1>3, Zenon DEF DictInv, CallInv, RequestDict
  <2>2. Plain \in Both
    BY Zenon DEF DictInv, SharedInv, ValidConfig, Both
  <2> QED
    BY <1>1, <2>1, <2>2, Zenon DEF DictFor
<1> QED
  BY <1>2, <1>3, Zenon

(* No compressed message is rejected, whatever dictionaries the two peers hold, and requests use   *)
(* the dictionary both hold once the answer is known (compression.rs, negotiate, inflate and       *)
(* prepare): for any calls and any configurations.                                                 *)
THEOREM PeersAgreeOnDictionaries == DictSpec => []DictionariesAgree
<1>1. DictInit => DictInv
  <2> SUFFICES ASSUME DictInit PROVE DictInv
    BY Zenon
  <2>1. SharedInv
    BY ConfigsAreValid, Zenon DEF DictInit, Unlearned, SharedInv
  <2>2. CallTables
    BY Zenon DEF DictInit, Unlearned, CallTables
  <2>3. \A c \in DictionaryCalls : CallInv(c)
    BY Zenon DEF DictInit, Unlearned, CallInv
  <2> QED
    BY <2>1, <2>2, <2>3, Zenon DEF DictInit, Unlearned, DictInv
<1>2. DictInv => DictionariesAgree
  BY SharedRequests, Zenon DEF DictInv, DictionariesAgree, NothingRejected
<1> QED
  BY <1>1, <1>2, DictKept, PTL DEF DictSpec

=============================================================================
