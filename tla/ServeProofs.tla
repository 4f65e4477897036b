----------------------------- MODULE ServeProofs ----------------------------
(***************************************************************************)
(* TasksAreOwned for any connections, streams and limits. The invariant    *)
(* adds what the property leaves implicit: a connection that does not      *)
(* serve yet has no stream tasks, so the step that ends it orphans none,   *)
(* and the sets whose sizes the limits bound are finite.                   *)
(*                                                                         *)
(* RateIsKept for any rate.  The invariant counts what the bucket holds    *)
(* among what may pass since each attempt that did.                        *)
(*                                                                         *)
(* HttpAgrees for any options, requests and bodies.  What a version        *)
(* answers is settled in one step; the invariant is about the body, whose  *)
(* end, good or bad, is always the last thing left of it.                  *)
(***************************************************************************)
EXTENDS Serve, RetryPolicy, HttpServing, TLAPS

Tasks == Live \cup {"new", "refused", "over"}
Stages == Busy \cup {"none", "over"}

TypeOK ==
    /\ phase \in {"accepting", "draining", "returned"}
    /\ task \in [Connections -> Tasks]
    /\ streams \in [Connections -> [Streams -> Stages]]
    /\ holding \in [Connections -> SUBSET Streams]
    /\ permits \subseteq Connections

(* Before it serves, a connection has no streams; a stream task that is left has its connection's, *)
(* and that has its permit.                                                                        *)
OwnedInv(c) ==
    /\ c \in permits <=> task[c] \in Live
    /\ task[c] \in Waiting \cup {"new"} => \A s \in Streams : streams[c][s] = "none"
    /\ \A s \in Streams : streams[c][s] \in Busy => task[c] \in Live
    /\ \A s \in holding[c] : streams[c][s] \in Counted
    /\ phase = "returned" => task[c] \notin Live

FiniteInv == IsFiniteSet(permits) /\ \A c \in Connections : IsFiniteSet(holding[c])

ServeInv == TypeOK /\ FiniteInv /\ LimitsKept /\ \A c \in Connections : OwnedInv(c)

(* A step that leaves connection d alone. *)
Same(d) ==
    /\ phase' = phase /\ task'[d] = task[d] /\ streams'[d] = streams[d] /\ holding'[d] = holding[d]
    /\ d \in permits' <=> d \in permits

(* A step that leaves a connection alone keeps its part of the invariant. *)
LEMMA SameConnection ==
    ASSUME NEW d \in Connections, OwnedInv(d), Same(d)
    PROVE  OwnedInv(d)'
  BY Zenon DEF OwnedInv, Same

(* Aborting the stream tasks of a connection keeps the types (abort_all, the JoinSet's Drop). *)
LEMMA AbortTypes ==
    ASSUME TypeOK, NEW c \in Connections, NEW ss, Abort(c, ss)
    PROVE  streams' \in [Connections -> [Streams -> Stages]] /\ holding' \in [Connections -> SUBSET Streams]
  BY Zenon DEF TypeOK, Abort, Stages

(* Spawning a stream task keeps the types, with a permit or without one. *)
LEMMA SpawnTypes ==
    ASSUME TypeOK, NEW c \in Connections, NEW s \in Streams, NEW first \in {"heading", "reading"}, NEW quiet,
           Spawn(c, s, first, quiet)
    PROVE  streams' \in [Connections -> [Streams -> Stages]] /\ holding' \in [Connections -> SUBSET Streams]
<1>1. PICK begun \in {"heading", "reading", "closing"} : streams' = [streams EXCEPT ![c][s] = begun]
  BY Zenon DEF Spawn
<1>2. holding' = [holding EXCEPT ![c] = @ \cup {s}] \/ holding' = [holding EXCEPT ![c] = @]
  BY Zenon DEF Spawn
<1> QED
  BY <1>1, <1>2 DEF TypeOK, Stages, Busy, Counted

(* A step of a stream task after it was spawned: what it holds it keeps while it is served. *)
TaskStep(c, s) ==
    \E there \in Busy \cup {"over"} :
        /\ streams[c][s] \in Busy /\ Move(c, s, there) /\ Stay
        /\ \/ DropSlot(c, s)
           \/ UNCHANGED holding /\ (streams[c][s] \in Counted => there \in Counted)

LEMMA TaskSteps ==
    ASSUME NEW c \in Connections, NEW s \in Streams,
           \/ HeadWritten(c, s) \/ ReadRequest(c, s) \/ RejectRequest(c, s) \/ CallWrites(c, s)
           \/ CallWritten(c, s) \/ CallEnds(c, s) \/ Closed(c, s) \/ CallCut(c, s)
    PROVE  TaskStep(c, s)
<1> USE DEF Busy, Counted, TaskStep
<1>1. CASE HeadWritten(c, s)
  BY <1>1, Zenon DEF HeadWritten
<1>2. CASE ReadRequest(c, s)
  BY <1>2, Zenon DEF ReadRequest
<1>3. CASE RejectRequest(c, s)
  BY <1>3, Zenon DEF RejectRequest
<1>4. CASE CallWrites(c, s)
  BY <1>4, Zenon DEF CallWrites
<1>5. CASE CallWritten(c, s)
  BY <1>5, Zenon DEF CallWritten
<1>6. CASE CallEnds(c, s)
  BY <1>6, Zenon DEF CallEnds
<1>7. CASE Closed(c, s)
  BY <1>7, Zenon DEF Closed
<1>8. CASE CallCut(c, s)
  BY <1>8, Zenon DEF CallCut
<1> QED
  BY <1>1, <1>2, <1>3, <1>4, <1>5, <1>6, <1>7, <1>8, Zenon

(* Every step keeps the types. *)
LEMMA ServeTypes ==
    ASSUME TypeOK, [Next]_vars
    PROVE  TypeOK'
<1> USE DEF TypeOK, Tasks, Stages, Live, Waiting, Busy, Counted, server, inside, Go
<1>1. ASSUME NEW c \in Connections, AcceptConnection(c) PROVE TypeOK'
  BY <1>1 DEF AcceptConnection
<1>2. ASSUME NEW c \in Connections, RefuseWhileDraining(c) PROVE TypeOK'
  BY <1>2, Zenon DEF RefuseWhileDraining
<1>3. ASSUME NEW c \in Connections, NEW p \in Protocols, Handshake(c, p) PROVE TypeOK'
  BY <1>3, Zenon DEF Handshake, Ends, Forget, LoopTop
<1>4. ASSUME NEW c \in Connections, SetupDone(c) PROVE TypeOK'
  BY <1>4, Zenon DEF SetupDone, LoopTop
<1>5. ASSUME NEW c \in Connections, WaitEnds(c) PROVE TypeOK'
  BY <1>5, Zenon DEF WaitEnds, Ends, Forget
<1>6. ASSUME NEW c \in Connections, WaitAbandoned(c) PROVE TypeOK'
  BY <1>6, Zenon DEF WaitAbandoned, Ends, Forget
<1>7. ASSUME NEW c \in Connections, Upgrade(c) PROVE TypeOK'
  BY <1>7, Zenon DEF Upgrade
<1>8. ASSUME NEW c \in Connections, Http1Ends(c) PROVE TypeOK'
  <2>1. streams' \in [Connections -> [Streams -> Stages]] /\ holding' \in [Connections -> SUBSET Streams]
    BY <1>8, AbortTypes, Zenon DEF Http1Ends
  <2> QED
    BY <1>8, <2>1, Zenon DEF Http1Ends, Ends, Forget, LoopTop
<1>9. ASSUME NEW c \in Connections, Http1TimesOut(c) PROVE TypeOK'
  BY <1>9, Zenon DEF Http1TimesOut, Abort, Ends, Forget
<1>10. ASSUME NEW c \in Connections, AcceptHttp3(c) PROVE TypeOK'
  BY <1>10, Zenon DEF AcceptHttp3
<1>11. ASSUME NEW c \in Connections, Http3Connect(c) PROVE TypeOK'
  BY <1>11, Zenon DEF Http3Connect
<1>12. ASSUME NEW c \in Connections, Http3Continues(c) PROVE TypeOK'
  BY <1>12, Zenon DEF Http3Continues, LoopTop
<1>13. ASSUME NEW c \in Connections, Join(c) PROVE TypeOK'
  BY <1>13, Zenon DEF Join, LoopTop
<1>14. ASSUME NEW c \in Connections, SeesShutdown(c) PROVE TypeOK'
  BY <1>14, Zenon DEF SeesShutdown
<1>15. ASSUME NEW c \in Connections, Lose(c) PROVE TypeOK'
  BY <1>15, Zenon DEF Lose
<1>16. ASSUME NEW c \in Connections, LoopEnds(c) PROVE TypeOK'
  BY <1>16, Zenon DEF LoopEnds
<1>17. ASSUME NEW c \in Connections, SessionEnds(c) PROVE TypeOK'
  BY <1>17, Zenon DEF SessionEnds
<1>18. ASSUME NEW c \in Connections, Http2Ends(c) PROVE TypeOK'
  BY <1>18, Zenon DEF Http2Ends
<1>19. ASSUME NEW c \in Connections, Part(c) PROVE TypeOK'
  <2>1. streams' \in [Connections -> [Streams -> Stages]] /\ holding' \in [Connections -> SUBSET Streams]
    BY <1>19, AbortTypes, Zenon DEF Part
  <2> QED
    BY <1>19, <2>1, Zenon DEF Part
<1>20. ASSUME NEW c \in Connections, Drain(c) PROVE TypeOK'
  <2>1. streams' \in [Connections -> [Streams -> Stages]] /\ holding' \in [Connections -> SUBSET Streams]
    BY <1>20, AbortTypes, Zenon DEF Drain
  <2> QED
    BY <1>20, <2>1, Zenon DEF Drain, Ends, Forget
<1>21. ASSUME NEW c \in Connections, NEW s \in Streams, AcceptNative(c, s) PROVE TypeOK'
  BY <1>21, Zenon DEF AcceptNative, Spawn, LoopTop
<1>22. ASSUME NEW c \in Connections, NEW s \in Streams, AcceptHttp2(c, s) PROVE TypeOK'
  <2>1. streams' \in [Connections -> [Streams -> Stages]] /\ holding' \in [Connections -> SUBSET Streams]
    <3>1. CASE Spawn(c, s, "reading", c \in seen)
      BY <3>1, SpawnTypes, Zenon
    <3>2. CASE streams' = [streams EXCEPT ![c][s] = "over"] /\ UNCHANGED holding
      BY <3>2, Zenon
    <3> QED
      BY <1>22, <3>1, <3>2, Zenon DEF AcceptHttp2
  <2> QED
    BY <1>22, <2>1, Zenon DEF AcceptHttp2
<1>23. ASSUME NEW c \in Connections, NEW s \in Streams, RequestHttp1(c, s) PROVE TypeOK'
  BY <1>23, Zenon DEF RequestHttp1
<1>24. ASSUME NEW c \in Connections, NEW s \in Streams, Http3Head(c, s) PROVE TypeOK'
  BY <1>24, Zenon DEF Http3Head, Spawn, LoopTop
<1>25. ASSUME NEW c \in Connections, NEW s \in Streams, AcceptSession(c, s) PROVE TypeOK'
  BY <1>25, Zenon DEF AcceptSession, LoopTop
<1>26. ASSUME NEW c \in Connections, NEW s \in Streams, Resolve(c, s) PROVE TypeOK'
  <2>1. streams' \in [Connections -> [Streams -> Stages]] /\ holding' \in [Connections -> SUBSET Streams]
    <3>1. CASE \E first \in {"heading", "reading"} : Spawn(c, s, first, FALSE)
      BY <3>1, SpawnTypes, Zenon
    <3>2. CASE streams' = [streams EXCEPT ![c][s] = "over"] /\ UNCHANGED holding
      BY <3>2, Zenon
    <3> QED
      BY <1>26, <3>1, <3>2, Zenon DEF Resolve
  <2> QED
    BY <1>26, <2>1, Zenon DEF Resolve, LoopTop
<1>27. ASSUME NEW c \in Connections, NEW s \in Streams, TaskStep(c, s) PROVE TypeOK'
  <2>1. /\ UNCHANGED <<phase, task, permits>>
        /\ \E there \in Stages : streams' = [streams EXCEPT ![c][s] = there]
        /\ holding' = holding \/ holding' = [holding EXCEPT ![c] = @ \ {s}]
    BY <1>27, Zenon DEF TaskStep, Move, DropSlot, Stay
  <2>2. streams' \in [Connections -> [Streams -> Stages]] /\ holding' \in [Connections -> SUBSET Streams]
    BY <2>1
  <2> QED
    BY <2>1, <2>2, Zenon
<1>28. ASSUME NEW c \in Connections, Http3Leaves(c) PROVE TypeOK'
  BY <1>28, Zenon DEF Http3Leaves
<1>31. CASE BeginShutdown
  BY <1>31, Zenon DEF BeginShutdown
<1>32. CASE Drained
  BY <1>32, Zenon DEF Drained
<1>33. CASE DrainTimesOut
  BY <1>33, Zenon DEF DrainTimesOut
<1>34. CASE UNCHANGED vars
  BY <1>34, Zenon DEF vars
<1> HIDE DEF TypeOK
<1> QED
  BY Zenon, <1>1, <1>2, <1>3, <1>4, <1>5, <1>6, <1>7, <1>8, <1>9, <1>10, <1>11, <1>12, <1>13, <1>14,
     <1>15, <1>16,
     <1>17, <1>18, <1>19, <1>20, <1>21, <1>22, <1>23, <1>24, <1>25, <1>26, <1>27, <1>28,
     <1>31, <1>32, <1>33, <1>34, TaskSteps DEF Next, ConnectionNext, StreamNext, Finished

(* Every step keeps a connection's permit, its task and its stream tasks together. *)
LEMMA ServeStep ==
    ASSUME ServeInv, [Next]_vars, TypeOK'
    PROVE  \A d \in Connections : OwnedInv(d)'
<1> USE DEF TypeOK, ServeInv, Tasks, Stages, Live, Waiting, Busy, Counted, server, inside, Go
<1>1. ASSUME NEW c \in Connections, AcceptConnection(c)
      PROVE \A d \in Connections : OwnedInv(d)'
  <2> USE DEF AcceptConnection
  <2>1. ASSUME NEW d \in Connections \ {c} PROVE Same(d)
    BY <1>1 DEF Same
  <2>2. OwnedInv(c)'
    BY <1>1, SMTT(30) DEF OwnedInv
  <2> QED
    BY <2>1, <2>2, SameConnection, Zenon
<1>2. ASSUME NEW c \in Connections, RefuseWhileDraining(c)
      PROVE \A d \in Connections : OwnedInv(d)'
  <2> USE DEF RefuseWhileDraining
  <2>1. ASSUME NEW d \in Connections \ {c} PROVE Same(d)
    BY <1>2, Zenon DEF Same
  <2>2. OwnedInv(c)'
    BY <1>2, SMTT(30) DEF OwnedInv
  <2> QED
    BY <2>1, <2>2, SameConnection, Zenon
<1>3. ASSUME NEW c \in Connections, NEW p \in Protocols, Handshake(c, p)
      PROVE \A d \in Connections : OwnedInv(d)'
  <2> USE DEF Handshake, Ends, Forget, LoopTop
  <2>1. ASSUME NEW d \in Connections \ {c} PROVE Same(d)
    BY <1>3, Zenon DEF Same
  <2>2. OwnedInv(c)'
    BY <1>3 DEF OwnedInv
  <2> QED
    BY <2>1, <2>2, SameConnection, Zenon
<1>4. ASSUME NEW c \in Connections, SetupDone(c)
      PROVE \A d \in Connections : OwnedInv(d)'
  <2> USE DEF SetupDone, LoopTop
  <2>1. ASSUME NEW d \in Connections \ {c} PROVE Same(d)
    BY <1>4, Zenon DEF Same
  <2>2. OwnedInv(c)'
    BY <1>4 DEF OwnedInv
  <2> QED
    BY <2>1, <2>2, SameConnection, Zenon
<1>5. ASSUME NEW c \in Connections, WaitEnds(c)
      PROVE \A d \in Connections : OwnedInv(d)'
  <2> USE DEF WaitEnds, Ends, Forget
  <2>1. ASSUME NEW d \in Connections \ {c} PROVE Same(d)
    BY <1>5, Zenon DEF Same
  <2>2. OwnedInv(c)'
    BY <1>5 DEF OwnedInv
  <2> QED
    BY <2>1, <2>2, SameConnection, Zenon
<1>6. ASSUME NEW c \in Connections, WaitAbandoned(c)
      PROVE \A d \in Connections : OwnedInv(d)'
  <2> USE DEF WaitAbandoned, Ends, Forget
  <2>1. ASSUME NEW d \in Connections \ {c} PROVE Same(d)
    BY <1>6, Zenon DEF Same
  <2>2. OwnedInv(c)'
    BY <1>6 DEF OwnedInv
  <2> QED
    BY <2>1, <2>2, SameConnection, Zenon
<1>7. ASSUME NEW c \in Connections, Upgrade(c)
      PROVE \A d \in Connections : OwnedInv(d)'
  <2> USE DEF Upgrade
  <2>1. ASSUME NEW d \in Connections \ {c} PROVE Same(d)
    BY <1>7, Zenon DEF Same
  <2>2. OwnedInv(c)'
    BY <1>7, Zenon DEF OwnedInv
  <2> QED
    BY <2>1, <2>2, SameConnection, Zenon
<1>8. ASSUME NEW c \in Connections, Http1Ends(c)
      PROVE \A d \in Connections : OwnedInv(d)'
  <2>1. ASSUME NEW d \in Connections \ {c} PROVE Same(d)
    BY <1>8 DEF Http1Ends, Abort, Ends, Forget, LoopTop, Same
  <2>2. CASE Abort(c, Streams) /\ Ends(c) /\ UNCHANGED phase
    <3>1. task'[c] = "over" /\ holding'[c] = {} /\ c \notin permits'
      BY <2>2, Zenon DEF Abort, Ends
    <3>2. \A s \in Streams : streams'[c][s] \notin Busy
      BY <2>2, Zenon DEF Abort
    <3>3. OwnedInv(c)'
      BY <3>1, <3>2, Zenon DEF OwnedInv
    <3> QED
      BY <2>1, <3>3, SameConnection, Zenon
  <2>3. CASE Go(c, LoopTop("native")) /\ UNCHANGED <<phase, permits, inside>> /\ task[c] = "serving"
    <3>1. OwnedInv(c)'
      BY <2>3 DEF OwnedInv, LoopTop
    <3> QED
      BY <2>1, <3>1, SameConnection, Zenon
  <2> QED
    BY <1>8, <2>2, <2>3, Zenon DEF Http1Ends
<1>9. ASSUME NEW c \in Connections, Http1TimesOut(c)
      PROVE \A d \in Connections : OwnedInv(d)'
  <2> USE DEF Http1TimesOut, Abort, Ends, Forget
  <2>1. ASSUME NEW d \in Connections \ {c} PROVE Same(d)
    BY <1>9, Zenon DEF Same
  <2>2. OwnedInv(c)'
    BY <1>9 DEF OwnedInv
  <2> QED
    BY <2>1, <2>2, SameConnection, Zenon
<1>10. ASSUME NEW c \in Connections, AcceptHttp3(c)
      PROVE \A d \in Connections : OwnedInv(d)'
  <2> USE DEF AcceptHttp3
  <2>1. ASSUME NEW d \in Connections \ {c} PROVE Same(d)
    BY <1>10, Zenon DEF Same
  <2>2. OwnedInv(c)'
    BY <1>10 DEF OwnedInv
  <2> QED
    BY <2>1, <2>2, SameConnection, Zenon
<1>11. ASSUME NEW c \in Connections, Http3Connect(c)
      PROVE \A d \in Connections : OwnedInv(d)'
  <2> USE DEF Http3Connect
  <2>1. ASSUME NEW d \in Connections \ {c} PROVE Same(d)
    BY <1>11, Zenon DEF Same
  <2>2. OwnedInv(c)'
    BY <1>11 DEF OwnedInv
  <2> QED
    BY <2>1, <2>2, SameConnection, Zenon
<1>12. ASSUME NEW c \in Connections, Http3Continues(c)
      PROVE \A d \in Connections : OwnedInv(d)'
  <2> USE DEF Http3Continues, LoopTop
  <2>1. ASSUME NEW d \in Connections \ {c} PROVE Same(d)
    BY <1>12, Zenon DEF Same
  <2>2. OwnedInv(c)'
    BY <1>12 DEF OwnedInv
  <2> QED
    BY <2>1, <2>2, SameConnection, Zenon
<1>13. ASSUME NEW c \in Connections, Join(c)
      PROVE \A d \in Connections : OwnedInv(d)'
  <2> USE DEF Join, LoopTop
  <2>1. ASSUME NEW d \in Connections \ {c} PROVE Same(d)
    BY <1>13, Zenon DEF Same
  <2>2. OwnedInv(c)'
    BY <1>13 DEF OwnedInv
  <2> QED
    BY <2>1, <2>2, SameConnection, Zenon
<1>14. ASSUME NEW c \in Connections, SeesShutdown(c)
      PROVE \A d \in Connections : OwnedInv(d)'
  <2> USE DEF SeesShutdown
  <2>1. ASSUME NEW d \in Connections \ {c} PROVE Same(d)
    BY <1>14, Zenon DEF Same
  <2>2. OwnedInv(c)'
    BY <1>14 DEF OwnedInv
  <2> QED
    BY <2>1, <2>2, SameConnection, Zenon
<1>15. ASSUME NEW c \in Connections, Lose(c)
      PROVE \A d \in Connections : OwnedInv(d)'
  <2> USE DEF Lose
  <2>1. ASSUME NEW d \in Connections \ {c} PROVE Same(d)
    BY <1>15, Zenon DEF Same
  <2>2. OwnedInv(c)'
    BY <1>15, Zenon DEF OwnedInv
  <2> QED
    BY <2>1, <2>2, SameConnection, Zenon
<1>16. ASSUME NEW c \in Connections, LoopEnds(c)
      PROVE \A d \in Connections : OwnedInv(d)'
  <2> USE DEF LoopEnds
  <2>1. ASSUME NEW d \in Connections \ {c} PROVE Same(d)
    BY <1>16, Zenon DEF Same
  <2>2. OwnedInv(c)'
    BY <1>16 DEF OwnedInv
  <2> QED
    BY <2>1, <2>2, SameConnection, Zenon
<1>17. ASSUME NEW c \in Connections, SessionEnds(c)
      PROVE \A d \in Connections : OwnedInv(d)'
  <2> USE DEF SessionEnds
  <2>1. ASSUME NEW d \in Connections \ {c} PROVE Same(d)
    BY <1>17, Zenon DEF Same
  <2>2. OwnedInv(c)'
    BY <1>17 DEF OwnedInv
  <2> QED
    BY <2>1, <2>2, SameConnection, Zenon
<1>18. ASSUME NEW c \in Connections, Http2Ends(c)
      PROVE \A d \in Connections : OwnedInv(d)'
  <2> USE DEF Http2Ends
  <2>1. ASSUME NEW d \in Connections \ {c} PROVE Same(d)
    BY <1>18, Zenon DEF Same
  <2>2. OwnedInv(c)'
    BY <1>18 DEF OwnedInv
  <2> QED
    BY <2>1, <2>2, SameConnection, Zenon
<1>19. ASSUME NEW c \in Connections, Part(c)
      PROVE \A d \in Connections : OwnedInv(d)'
  <2> USE DEF Part, Abort, Settled
  <2>1. ASSUME NEW d \in Connections \ {c} PROVE Same(d)
    BY <1>19 DEF Same
  <2>2. OwnedInv(c)'
    BY <1>19 DEF OwnedInv
  <2> QED
    BY <2>1, <2>2, SameConnection, Zenon
<1>20. ASSUME NEW c \in Connections, Drain(c)
      PROVE \A d \in Connections : OwnedInv(d)'
  <2> USE DEF Drain, Abort, Settled, Ends, Forget
  <2>1. ASSUME NEW d \in Connections \ {c} PROVE Same(d)
    BY <1>20, Zenon DEF Same
  <2>2. OwnedInv(c)'
    BY <1>20, SMTT(30) DEF OwnedInv
  <2> QED
    BY <2>1, <2>2, SameConnection, Zenon
<1>21. ASSUME NEW c \in Connections, NEW s \in Streams, AcceptNative(c, s)
      PROVE \A d \in Connections : OwnedInv(d)'
  <2> USE DEF AcceptNative, Spawn, LoopTop
  <2>1. ASSUME NEW d \in Connections \ {c} PROVE Same(d)
    BY <1>21, Zenon DEF Same
  <2>2. OwnedInv(c)'
    BY <1>21 DEF OwnedInv
  <2> QED
    BY <2>1, <2>2, SameConnection, Zenon
<1>22. ASSUME NEW c \in Connections, NEW s \in Streams, AcceptHttp2(c, s)
      PROVE \A d \in Connections : OwnedInv(d)'
  <2> USE DEF AcceptHttp2, Spawn
  <2>1. ASSUME NEW d \in Connections \ {c} PROVE Same(d)
    BY <1>22, Zenon DEF Same
  <2>2. OwnedInv(c)'
    BY <1>22, SMTT(30) DEF OwnedInv
  <2> QED
    BY <2>1, <2>2, SameConnection, Zenon
<1>23. ASSUME NEW c \in Connections, NEW s \in Streams, RequestHttp1(c, s)
      PROVE \A d \in Connections : OwnedInv(d)'
  <2> USE DEF RequestHttp1
  <2>1. ASSUME NEW d \in Connections \ {c} PROVE Same(d)
    BY <1>23, Zenon DEF Same
  <2>2. OwnedInv(c)'
    BY <1>23 DEF OwnedInv
  <2> QED
    BY <2>1, <2>2, SameConnection, Zenon
<1>24. ASSUME NEW c \in Connections, NEW s \in Streams, Http3Head(c, s)
      PROVE \A d \in Connections : OwnedInv(d)'
  <2> USE DEF Http3Head, Spawn, LoopTop
  <2>1. ASSUME NEW d \in Connections \ {c} PROVE Same(d)
    BY <1>24, Zenon DEF Same
  <2>2. OwnedInv(c)'
    BY <1>24, SMTT(30) DEF OwnedInv
  <2> QED
    BY <2>1, <2>2, SameConnection, Zenon
<1>25. ASSUME NEW c \in Connections, NEW s \in Streams, AcceptSession(c, s)
      PROVE \A d \in Connections : OwnedInv(d)'
  <2> USE DEF AcceptSession, LoopTop
  <2>1. ASSUME NEW d \in Connections \ {c} PROVE Same(d)
    BY <1>25, Zenon DEF Same
  <2>2. OwnedInv(c)'
    BY <1>25, SMTT(30) DEF OwnedInv
  <2> QED
    BY <2>1, <2>2, SameConnection, Zenon
<1>26. ASSUME NEW c \in Connections, NEW s \in Streams, Resolve(c, s)
      PROVE \A d \in Connections : OwnedInv(d)'
  <2> USE DEF Resolve, Spawn, LoopTop
  <2>1. ASSUME NEW d \in Connections \ {c} PROVE Same(d)
    BY <1>26 DEF Same
  <2>2. OwnedInv(c)'
    BY <1>26, SMTT(30) DEF OwnedInv
  <2> QED
    BY <2>1, <2>2, SameConnection, Zenon
<1>27. ASSUME NEW c \in Connections, NEW s \in Streams, TaskStep(c, s)
      PROVE \A d \in Connections : OwnedInv(d)'
  <2> USE DEF TaskStep, Move, DropSlot, Stay
  <2>1. ASSUME NEW d \in Connections \ {c} PROVE Same(d)
    BY <1>27, Zenon DEF Same
  <2>2. OwnedInv(c)'
    BY <1>27, SMTT(30) DEF OwnedInv
  <2> QED
    BY <2>1, <2>2, SameConnection, Zenon
<1>28. ASSUME NEW c \in Connections, Http3Leaves(c)
      PROVE \A d \in Connections : OwnedInv(d)'
  <2> USE DEF Http3Leaves
  <2>1. ASSUME NEW d \in Connections \ {c} PROVE Same(d)
    BY <1>28, Zenon DEF Same
  <2>2. OwnedInv(c)'
    BY <1>28 DEF OwnedInv
  <2> QED
    BY <2>1, <2>2, SameConnection, Zenon
<1>31. CASE BeginShutdown
  BY <1>31, ZenonT(30) DEF BeginShutdown, OwnedInv
<1>32. CASE Drained
  BY <1>32 DEF Drained, OwnedInv
<1>33. CASE DrainTimesOut
  BY <1>33, SMTT(30) DEF DrainTimesOut, OwnedInv
<1>34. CASE UNCHANGED vars
  BY <1>34, SameConnection, Zenon DEF vars, Same
<1> QED
  BY Zenon, <1>1, <1>2, <1>3, <1>4, <1>5, <1>6, <1>7, <1>8, <1>9, <1>10, <1>11, <1>12, <1>13, <1>14,
     <1>15, <1>16,
     <1>17, <1>18, <1>19, <1>20, <1>21, <1>22, <1>23, <1>24, <1>25, <1>26, <1>27, <1>28,
     <1>31, <1>32, <1>33, <1>34, TaskSteps DEF Next, ConnectionNext, StreamNext, Finished

-----------------------------------------------------------------------------
(* A set that a step shrinks, or gives one more element while it is below its limit. *)
KeepsLimit(old, new, limit) ==
    new \subseteq old \/ \E x : new = old \cup {x} /\ Cardinality(old) < limit

(* Every step keeps both limits: a permit is taken only by try_acquire_owned below the limit. *)
LEMMA LimitSteps ==
    ASSUME ServeInv, [Next]_vars
    PROVE  /\ KeepsLimit(permits, permits', MaxConnections)
           /\ \A c \in Connections : KeepsLimit(holding[c], holding'[c], MaxStreams)
<1> USE DEF TypeOK, ServeInv, server, inside
<1>1. KeepsLimit(permits, permits', MaxConnections)
  <2>1. CASE \E c \in Connections : AcceptConnection(c)
    BY <2>1, Zenon DEF AcceptConnection, KeepsLimit
  <2>2. CASE ~\E c \in Connections : AcceptConnection(c)
    <3>1. permits' \subseteq permits
      <4>1. ASSUME NEW c \in Connections, NEW s \in Streams, StreamNext(c, s)
            PROVE  permits' \subseteq permits
        <5>1. UNCHANGED server
          BY <4>1, TaskSteps, Zenon DEF StreamNext, AcceptNative, AcceptHttp2, RequestHttp1, Http3Head,
             AcceptSession, Resolve, TaskStep, Stay
        <5> QED
          BY <5>1, Zenon
      <4>2. ASSUME NEW c \in Connections,
                   \/ \E p \in Protocols : Handshake(c, p)
                   \/ WaitEnds(c) \/ WaitAbandoned(c) \/ Http1Ends(c) \/ Http1TimesOut(c) \/ Drain(c)
            PROVE  permits' \subseteq permits
        BY <4>2, Zenon DEF Handshake, WaitEnds, WaitAbandoned, Http1Ends, Http1TimesOut, Drain, Ends
      <4>3. ASSUME NEW c \in Connections,
                   \/ RefuseWhileDraining(c) \/ SetupDone(c) \/ Upgrade(c) \/ AcceptHttp3(c)
                   \/ Http3Connect(c) \/ Http3Continues(c) \/ Join(c) \/ SeesShutdown(c) \/ Lose(c)
                   \/ LoopEnds(c) \/ SessionEnds(c) \/ Http2Ends(c) \/ Part(c) \/ Http3Leaves(c)
            PROVE  permits' \subseteq permits
        BY <4>3, Zenon
           DEF RefuseWhileDraining, SetupDone, Upgrade, AcceptHttp3, Http3Connect, Http3Continues, Join,
           SeesShutdown, Lose, LoopEnds, SessionEnds, Http2Ends, Part, Http3Leaves
      <4>4. CASE BeginShutdown \/ Drained \/ DrainTimesOut \/ UNCHANGED vars
        BY <4>4, Zenon DEF BeginShutdown, Drained, DrainTimesOut, vars
      <4> QED
        BY <2>2, <4>1, <4>2, <4>3, <4>4, Zenon DEF Next, ConnectionNext, Finished
    <3> QED
      BY <3>1, Zenon DEF KeepsLimit
  <2> QED
    BY <2>1, <2>2, Zenon
<1>2. \A d \in Connections : KeepsLimit(holding[d], holding'[d], MaxStreams)
  <2> SUFFICES ASSUME NEW d \in Connections PROVE KeepsLimit(holding[d], holding'[d], MaxStreams)
    BY Zenon
  <2>1. ASSUME NEW c \in Connections, NEW s \in Streams, NEW first, NEW quiet, Spawn(c, s, first, quiet)
        PROVE KeepsLimit(holding[d], holding'[d], MaxStreams)
    <3>1. holding' = [holding EXCEPT ![c] = IF Cardinality(holding[c]) < MaxStreams THEN @ \cup {s} ELSE @]
      BY <2>1, Zenon DEF Spawn
    <3> QED
      BY <3>1, Zenon DEF KeepsLimit
  <2>2. CASE holding' = holding
    BY <2>2, Zenon DEF KeepsLimit
  <2>3. ASSUME NEW c \in Connections, NEW ss, Abort(c, ss)
        PROVE KeepsLimit(holding[d], holding'[d], MaxStreams)
    BY <2>3, Zenon DEF Abort, KeepsLimit
  <2>4. ASSUME NEW c \in Connections, NEW s \in Streams, DropSlot(c, s)
        PROVE KeepsLimit(holding[d], holding'[d], MaxStreams)
    BY <2>4, Zenon DEF DropSlot, KeepsLimit
  <2>5. CASE DrainTimesOut
    BY <2>5, Zenon DEF DrainTimesOut, KeepsLimit
  <2>6. ASSUME NEW c \in Connections, NEW s \in Streams, StreamNext(c, s)
        PROVE  KeepsLimit(holding[d], holding'[d], MaxStreams)
    <3>1. CASE AcceptNative(c, s) \/ Http3Head(c, s)
      BY <2>1, <3>1, Zenon DEF AcceptNative, Http3Head
    <3>2. CASE AcceptHttp2(c, s)
      BY <2>1, <2>2, <3>2, Zenon DEF AcceptHttp2
    <3>3. CASE Resolve(c, s)
      BY <2>1, <2>2, <3>3, Zenon DEF Resolve
    <3>4. CASE RequestHttp1(c, s) \/ AcceptSession(c, s)
      BY <2>2, <3>4, Zenon DEF RequestHttp1, AcceptSession
    <3>5. CASE TaskStep(c, s)
      BY <2>2, <2>4, <3>5, Zenon DEF TaskStep
    <3> QED
      BY <2>6, <3>1, <3>2, <3>3, <3>4, <3>5, TaskSteps, Zenon DEF StreamNext
  <2>7. ASSUME NEW c \in Connections, Http1Ends(c) \/ Http1TimesOut(c) \/ Part(c) \/ Drain(c)
        PROVE  KeepsLimit(holding[d], holding'[d], MaxStreams)
    BY <2>2, <2>3, <2>7, Zenon DEF Http1Ends, Http1TimesOut, Part, Drain
  <2>8. ASSUME NEW c \in Connections,
               \/ AcceptConnection(c) \/ RefuseWhileDraining(c) \/ \E p \in Protocols : Handshake(c, p)
               \/ SetupDone(c) \/ WaitEnds(c) \/ WaitAbandoned(c) \/ Upgrade(c) \/ AcceptHttp3(c)
               \/ Http3Connect(c) \/ Http3Continues(c) \/ Join(c) \/ SeesShutdown(c) \/ Lose(c)
               \/ LoopEnds(c) \/ SessionEnds(c) \/ Http2Ends(c) \/ Http3Leaves(c)
        PROVE  holding' = holding
    BY <2>8, Zenon
       DEF AcceptConnection, RefuseWhileDraining, Handshake, SetupDone, WaitEnds, WaitAbandoned, Upgrade,
       AcceptHttp3, Http3Connect, Http3Continues, Join, SeesShutdown, Lose, LoopEnds, SessionEnds, Http2Ends,
       Http3Leaves
  <2>9. CASE BeginShutdown \/ Drained \/ UNCHANGED vars
    BY <2>2, <2>9, Zenon DEF BeginShutdown, Drained, vars
  <2> QED
    BY <2>2, <2>5, <2>6, <2>7, <2>8, <2>9, Zenon DEF Next, ConnectionNext, Finished
<1> QED
  BY <1>1, <1>2, Zenon

-----------------------------------------------------------------------------
(* RetryPolicy. *)

(* What passed since attempt i, with what the bucket still holds, is within the rate. *)
Within(i) ==
    (Len(passed) - i + 1) * Attempt + policy.tokens <= Rate * Attempt + Rate * (policy.last - passed[i])

RetryInv ==
    /\ clock \in Nat /\ passed \in Seq(Nat)
    /\ policy \in [validation : {"off", "always", "aboveRate"}, tokens : Nat, last : Nat]
    /\ policy.last <= clock
    /\ policy.validation = "aboveRate" =>
           /\ policy.tokens <= Rate * Attempt
           /\ \A i \in DOMAIN passed : Within(i)
    /\ RateIsKept

(* What a stretch of time refills, it may let pass. *)
LEMMA Refills ==
    ASSUME NEW k \in Nat, NEW t \in Nat, NEW u \in Nat, NEW p \in Nat, NEW last \in Nat, NEW at \in Nat,
           last <= at, k * Attempt + t <= Rate * Attempt + Rate * (last - p),
           u <= t + (at - last) * Rate
    PROVE  /\ k * Attempt + u <= Rate * Attempt + Rate * (at - p)
           /\ (k + 1) * Attempt = k * Attempt + Attempt
<1> USE RetryRate
<1>1. Rate * (last - p) + (at - last) * Rate = Rate * (at - p)
  OBVIOUS
<1>2. k * Attempt \in Nat /\ Rate * Attempt \in Nat
  OBVIOUS
<1>3. (k + 1) * Attempt = k * Attempt + Attempt
  OBVIOUS
<1> QED
  BY <1>1, <1>2, <1>3

(* An attempt above or below the rate keeps what passed within it. *)
LEMMA Attempting ==
    ASSUME RetryInv, ShouldRetry, policy.validation = "aboveRate"
    PROVE  RetryInv'
<1> USE RetryRate
<1> DEFINE t == policy.tokens
           r == Refilled
           n == Len(passed)
<1>1. /\ n \in Nat /\ DOMAIN passed = 1..n /\ \A i \in 1..n : passed[i] \in Nat
      /\ t \in Nat /\ policy.last \in Nat /\ clock \in Nat /\ policy.last <= clock /\ t <= Rate * Attempt
  BY SMTT(30) DEF RetryInv
<1>2. /\ (clock - policy.last) * Rate \in Nat /\ Rate * Attempt \in Nat
  BY <1>1, SMTT(30)
<1>3. r \in Nat /\ r <= Rate * Attempt /\ r <= t + (clock - policy.last) * Rate
  <2> DEFINE x == (clock - policy.last) * Rate
  <2>1. Capacity("aboveRate") = Rate * Attempt
    BY Zenon DEF Capacity
  <2>2. r = IF t + x > Rate * Attempt THEN Rate * Attempt ELSE t + x
    BY <2>1, Zenon DEF Refilled
  <2> HIDE DEF r, x, t
  <2> QED
    BY <1>1, <1>2, <2>2, SMTT(30) DEF x
<1>4. \A i \in 1..n : /\ (n - i + 1) * Attempt + r <= Rate * Attempt + Rate * (clock - passed[i])
                      /\ (n - i + 2) * Attempt = (n - i + 1) * Attempt + Attempt
  <2> SUFFICES ASSUME NEW i \in 1..n
               PROVE  /\ (n - i + 1) * Attempt + r <= Rate * Attempt + Rate * (clock - passed[i])
                      /\ (n - i + 2) * Attempt = (n - i + 1) * Attempt + Attempt
    BY Zenon
  <2> DEFINE k == n - i + 1
  <2>1. k \in Nat /\ k + 1 = n - i + 2
    BY <1>1
  <2>2. k * Attempt + t <= Rate * Attempt + Rate * (policy.last - passed[i])
    BY <1>1, Zenon DEF RetryInv, Within
  <2> HIDE DEF k, t, r, n
  <2>3. passed[i] \in Nat
    BY <1>1, Zenon
  <2>4. /\ k * Attempt + r <= Rate * Attempt + Rate * (clock - passed[i])
        /\ (k + 1) * Attempt = k * Attempt + Attempt
    BY <1>1, <1>3, <2>1, <2>2, <2>3, Refills, Zenon
  <2> QED
    BY <2>1, <2>4, Zenon DEF k
<1>5. \A i, j \in 1..n : i <= j => (j - i + 1) * Attempt <= Rate * Attempt + Rate * (passed[j] - passed[i])
  BY <1>1, Zenon DEF RetryInv, RateIsKept
<1>6. CASE r >= Attempt
  <2>1. /\ policy' = [policy EXCEPT !.last = clock, !.tokens = r - Attempt]
        /\ passed' = Append(passed, clock) /\ clock' = clock
    BY <1>6, Zenon DEF ShouldRetry
  <2>2. /\ policy' \in [validation : {"off", "always", "aboveRate"}, tokens : Nat, last : Nat]
        /\ policy'.last = clock /\ policy'.tokens = r - Attempt
        /\ policy'.validation = policy.validation
    <3>1. r - Attempt \in Nat
      BY <1>3, <1>6
    <3> HIDE DEF r
    <3> QED
      BY <1>1, <2>1, <3>1, Zenon DEF RetryInv
  <2>3. /\ passed' \in Seq(Nat) /\ Len(passed') = n + 1 /\ passed'[n + 1] = clock
        /\ \A i \in 1..n : passed'[i] = passed[i]
    BY <1>1, <2>1 DEF RetryInv
  <2>4. \A i \in 1..(n + 1) : (n - i + 2) * Attempt + (r - Attempt) <= Rate * Attempt + Rate * (clock - passed'[i])
    <3>1. ASSUME NEW i \in 1..n
          PROVE  (n - i + 2) * Attempt + (r - Attempt) <= Rate * Attempt + Rate * (clock - passed'[i])
      <4>1. (n - i + 1) * Attempt \in Nat /\ Rate * (clock - passed[i]) \in Int
        BY <1>1
      <4>2. /\ (n - i + 1) * Attempt + r <= Rate * Attempt + Rate * (clock - passed[i])
            /\ (n - i + 2) * Attempt = (n - i + 1) * Attempt + Attempt
        BY <1>4, Zenon
      <4> HIDE DEF n, r
      <4> QED
        BY <1>2, <1>3, <2>3, <4>1, <4>2, SMTT(30)
    <3>2. (n - (n + 1) + 2) * Attempt + (r - Attempt) <= Rate * Attempt + Rate * (clock - passed'[n + 1])
      BY <1>1, <1>3, <2>3
    <3>3. 1..(n + 1) = 1..n \cup {n + 1}
      BY <1>1
    <3> HIDE DEF n, r
    <3> QED
      BY <3>1, <3>2, <3>3, Zenon
  <2>5. \A i \in DOMAIN passed' : Within(i)'
    BY <1>1, <2>2, <2>3, <2>4 DEF Within
  <2>6. RateIsKept'
    <3> SUFFICES ASSUME NEW i \in 1..(n + 1), NEW j \in 1..(n + 1), i <= j
                 PROVE  (j - i + 1) * Attempt <= Rate * Attempt + Rate * (passed'[j] - passed'[i])
      BY <1>1, <2>3 DEF RateIsKept
    <3>1. CASE j \in 1..n
      <4>1. i \in 1..n
        BY <1>1, <3>1
      <4> HIDE DEF n
      <4> QED
        BY <1>5, <2>3, <3>1, <4>1, Zenon
    <3>2. CASE j = n + 1
      <4>1. (n - i + 2) * Attempt + (r - Attempt) <= Rate * Attempt + Rate * (clock - passed'[i])
        BY <2>4, Zenon
      <4>2. (n - i + 2) * Attempt \in Nat /\ Rate * (clock - passed'[i]) \in Int
        BY <1>1, <2>3, SMTT(30)
      <4>3. j - i + 1 = n - i + 2 /\ passed'[j] = clock
        BY <1>1, <2>3, <3>2
      <4> HIDE DEF n, r
      <4> QED
        BY <1>2, <1>3, <1>6, <4>1, <4>2, <4>3
    <3> QED
      BY <1>1, <3>1, <3>2
  <2>7. policy'.tokens <= Rate * Attempt
    BY <1>2, <1>3, <2>2
  <2> QED
    BY <1>1, <2>1, <2>2, <2>3, <2>5, <2>6, <2>7 DEF RetryInv
<1>7. CASE ~(r >= Attempt)
  <2>1. policy' = [policy EXCEPT !.last = clock, !.tokens = r] /\ passed' = passed /\ clock' = clock
    BY <1>7, Zenon DEF ShouldRetry
  <2>2. /\ policy' \in [validation : {"off", "always", "aboveRate"}, tokens : Nat, last : Nat]
        /\ policy'.last = clock /\ policy'.tokens = r /\ policy'.validation = policy.validation
    BY <1>1, <1>3, <2>1, Zenon DEF RetryInv
  <2>3. \A i \in DOMAIN passed' : Within(i)'
    BY <1>1, <1>4, <2>1, <2>2, Zenon DEF Within
  <2>4. RateIsKept'
    BY <1>1, <1>5, <2>1, Zenon DEF RateIsKept
  <2> QED
    BY <1>1, <1>3, <2>1, <2>2, <2>3, <2>4 DEF RetryInv
<1> QED
  BY <1>6, <1>7, Zenon

(* Of the attempts from addresses not validated, no more pass without a Retry in any stretch of    *)
(* time than a second's worth and the rate for that stretch (RetryPolicy::should_retry): for any   *)
(* rate and any number of attempts.                                                                *)
THEOREM RetryKeepsItsRate == RetrySpec => []RateIsKept
<1> USE RetryRate
<1>1. RetryInit => RetryInv
  <2> SUFFICES ASSUME RetryInit PROVE RetryInv
    BY Zenon
  <2>1. PICK v \in {"off", "always", "aboveRate"} : policy = NewPolicy(v)
    BY Zenon DEF RetryInit, RetryStart
  <2>2. Rate * Attempt \in Nat /\ Capacity(v) \in Nat /\ (v = "aboveRate" => Capacity(v) <= Rate * Attempt)
    BY DEF Capacity
  <2>3. /\ policy \in [validation : {"off", "always", "aboveRate"}, tokens : Nat, last : Nat]
        /\ policy.validation = v /\ policy.tokens = Capacity(v) /\ policy.last = 0
    BY <2>1, <2>2, Zenon DEF NewPolicy
  <2>4. clock = 0 /\ passed \in Seq(Nat) /\ DOMAIN passed = {}
    BY DEF RetryInit, RetryStart
  <2> QED
    BY <2>2, <2>3, <2>4 DEF RetryInv, RateIsKept
<1>2. RetryInv /\ [RetryNext]_retryVars => RetryInv'
  <2> SUFFICES ASSUME RetryInv, [RetryNext]_retryVars PROVE RetryInv'
    BY Zenon
  <2>1. CASE TickClock
    BY <2>1 DEF TickClock, RetryInv, Within, RateIsKept
  <2>2. CASE ShouldRetry /\ policy.validation # "aboveRate"
    <3>1. policy' = policy /\ clock' = clock /\ passed' \in {passed, Append(passed, clock)}
      BY <2>2, Zenon DEF ShouldRetry
    <3>2. passed' \in Seq(Nat)
      <4>1. passed \in Seq(Nat) /\ clock \in Nat
        BY Zenon DEF RetryInv
      <4>2. Append(passed, clock) \in Seq(Nat)
        BY <4>1
      <4> QED
        BY <3>1, <4>1, <4>2, Zenon
    <3> QED
      BY <2>2, <3>1, <3>2, Zenon DEF RetryInv, RateIsKept
  <2>3. CASE ShouldRetry /\ policy.validation = "aboveRate"
    BY <2>3, Attempting, Zenon
  <2>4. CASE UNCHANGED retryVars
    BY <2>4, Zenon DEF retryVars, RetryInv, Within, RateIsKept
  <2> QED
    BY <2>1, <2>2, <2>3, <2>4, Zenon DEF RetryNext
<1>3. RetryInv => RateIsKept
  BY Zenon DEF RetryInv
<1> QED
  BY <1>1, <1>2, <1>3, PTL DEF RetrySpec

-----------------------------------------------------------------------------
(* HttpServing. *)

(* What a body yields; only the last frame of one may be other than data. *)
Items == {"data", "trailers", "error"}
EndsLast(s) == s \in Seq(Items) /\ \A i \in 1..Len(s) : s[i] # "data" => i = Len(s)

(* What was read and written of bodies that end so. *)
BodiesInv ==
    /\ EndsLast(body) /\ EndsLast(made)
    /\ EndsLast(got) /\ EndsLast(wrote)
    /\ \A i \in 1..Len(got) : got[i] # "data" => body = <<>>
    /\ \A i \in 1..Len(got) : got[i] = "trailers" => data_done
    /\ \A i \in 1..Len(wrote) : wrote[i] # "data" => end = "finished"

(* Where a request is, and what it holds there. *)
StageInv ==
    /\ stage \in {"received", "service", "writing", "done"} /\ permit \in BOOLEAN
    /\ end = "finished" => made = <<>>
    /\ end # "open" => stage = "done"
    /\ stage = "service" => answer = "fallback"
    /\ stage \in {"service", "writing"} /\ request.version # "http1" => permit
    /\ stage = "done" /\ permit => answer = "rpc"
    /\ altSvc = "server" => request.version # "http3"

HttpInv == BodiesInv /\ StageInv /\ VersionsAgree

-----------------------------------------------------------------------------
(* Who serves a request. *)

(* Folding the case of a name leaves no name empty, and fills none. *)
LEMMA Folded == \A name : FoldCase(name) = "" <=> name = ""
BY Zenon DEF FoldCase

(* normalize_origin tells two origins apart exactly when browsers write them differently. *)
LEMMA OriginsCompare ==
    ASSUME NEW a, NEW b, a.scheme # "", a.host # ""
    PROVE  /\ ParseOrigin(a) # Malformed
           /\ ParseOrigin(a) = ParseOrigin(b) <=> Serialized(a) = Serialized(b)
<1>0. PICK sa, ha, sb, hb : sa = FoldCase(a.scheme) /\ ha = FoldCase(a.host)
                            /\ sb = FoldCase(b.scheme) /\ hb = FoldCase(b.host)
  BY Zenon
<1>1. sa # "" /\ ha # ""
  BY <1>0, Folded, Zenon
<1>2. PICK na, wa : /\ na = IF a.port = DefaultPort(sa) THEN 0 ELSE a.port
                    /\ wa = IF a.port = 0 THEN DefaultPort(sa) ELSE a.port
  BY Zenon
<1>3. PICK nb, wb : /\ nb = IF b.port = DefaultPort(sb) THEN 0 ELSE b.port
                    /\ wb = IF b.port = 0 THEN DefaultPort(sb) ELSE b.port
  BY Zenon
<1>4. ParseOrigin(a) = [scheme |-> sa, host |-> ha, port |-> na] /\ Serialized(a) = <<sa, ha, wa>>
  BY <1>0, <1>2, Zenon DEF ParseOrigin, NormalizeOrigin, Serialized
<1>5. Serialized(b) = <<sb, hb, wb>>
  BY <1>0, <1>3, Zenon DEF Serialized
<1>6. ParseOrigin(a) # Malformed
  <2>1. [scheme |-> sa, host |-> ha, port |-> na] # [scheme |-> "", host |-> "", port |-> 0]
    BY <1>1, Zenon
  <2> QED
    BY <1>4, <2>1, Zenon DEF Malformed
<1>7. Serialized(a) = Serialized(b) <=> sa = sb /\ ha = hb /\ wa = wb
  <2>1. <<sa, ha, wa>> = <<sb, hb, wb>> <=> sa = sb /\ ha = hb /\ wa = wb
    BY Zenon
  <2> QED
    BY <1>4, <1>5, <2>1, Zenon
<1>8. CASE b.scheme = "" \/ b.host = ""
  <2>1. sb = "" \/ hb = ""
    BY <1>0, <1>8, Folded, Zenon
  <2>2. ParseOrigin(b) = Malformed
    BY <1>8, Zenon DEF ParseOrigin, NormalizeOrigin
  <2> QED
    BY <1>1, <1>6, <1>7, <2>1, <2>2, Zenon
<1>9. CASE b.scheme # "" /\ b.host # ""
  <2>1. ParseOrigin(b) = [scheme |-> sb, host |-> hb, port |-> nb]
    BY <1>0, <1>3, <1>9, Zenon DEF ParseOrigin, NormalizeOrigin
  <2>2. ParseOrigin(a) = ParseOrigin(b) <=> sa = sb /\ ha = hb /\ na = nb
    <3>1. [scheme |-> sa, host |-> ha, port |-> na] = [scheme |-> sb, host |-> hb, port |-> nb]
              <=> sa = sb /\ ha = hb /\ na = nb
      BY Zenon
    <3> QED
      BY <1>4, <2>1, <3>1, Zenon
  <2>3. sa = sb => (na = nb <=> wa = wb)
    BY <1>2, <1>3, Zenon
  <2> QED
    BY <1>6, <1>7, <2>2, <2>3, Zenon
<1> QED
  BY <1>8, <1>9, Zenon

(* What the checks of an RPC and of a session may answer. *)
LEMMA HttpAnswers ==
    /\ ValidateHttpRequest \in {"404", "405", "415", "403", "rpc"}
    /\ ValidateHttpRequest = "403" => request.method = "POST"
    /\ ValidateHttpRequest = "rpc" =>
           /\ options.http /\ request.path = "rpc" /\ request.method = "POST"
           /\ request.contentType = "trevrpc" /\ options.httpAdmission # "denies"
BY Zenon DEF ValidateHttpRequest

LEMMA AdmissionAnswers ==
    ASSUME NEW secure
    PROVE  LET what == ValidateWebtransportAdmission(secure)
           IN  /\ what \in {"404", "403", "session"}
               /\ what = "session" => options.webtransport /\ request.path = "rpc"
               /\ options.admission = "same_origin" /\ what \in {"403", "session"} =>
                      (what = "session" <=> SameOrigin(secure))
               /\ what = "session" /\ options.admission = "none" =>
                      /\ options.authorities => AuthorityAllowed
                      /\ request.hasOrigin # "none" => OriginAllowed
BY Zenon DEF ValidateWebtransportAdmission

(* same_origin admits a page whose origin browsers write like the server's own or an allowed one. *)
LEMMA SameOriginSerialized ==
    ASSUME request.hasOrigin = "some", request.origin.scheme # "", request.origin.host # "",
           NEW secure, secure <=> (request.secure \/ request.version = "http1")
    PROVE  SameOrigin(secure) <=>
               Serialized(request.origin) \in {Serialized(o) : o \in AllowedOrigins \cup {Own}}
<1> DEFINE own == NormalizeOrigin(IF secure THEN "https" ELSE "http", request.authority.host,
                                  request.authority.port)
<1>1. ParseOrigin(Own) = own
  <2>1. /\ Own.scheme = IF secure THEN "https" ELSE "http"
        /\ Own.host = request.authority.host /\ Own.port = request.authority.port
    BY Zenon DEF Own
  <2> QED
    BY <2>1, Zenon DEF ParseOrigin
<1>2. /\ ParseOrigin(request.origin) # Malformed
      /\ \A b : ParseOrigin(request.origin) = ParseOrigin(b) <=> Serialized(request.origin) = Serialized(b)
  BY OriginsCompare, Zenon
<1>3. SameOrigin(secure) <=>
          \/ own = ParseOrigin(request.origin)
          \/ ParseOrigin(request.origin) \in {ParseOrigin(o) : o \in AllowedOrigins}
  <2>1. request.hasOrigin \notin {"none", "empty"}
    BY Zenon
  <2> QED
    BY <1>2, <2>1, Zenon DEF SameOrigin
<1>4. Serialized(request.origin) \in {Serialized(o) : o \in AllowedOrigins \cup {Own}} <=>
          \/ Serialized(request.origin) = Serialized(Own)
          \/ \E o \in AllowedOrigins : Serialized(request.origin) = Serialized(o)
  BY Zenon
<1>5. ParseOrigin(request.origin) \in {ParseOrigin(o) : o \in AllowedOrigins} <=>
          \E o \in AllowedOrigins : Serialized(request.origin) = Serialized(o)
  BY <1>2, Zenon
<1>6. own = ParseOrigin(request.origin) <=> Serialized(request.origin) = Serialized(Own)
  BY <1>1, <1>2, Zenon
<1> QED
  BY <1>3, <1>4, <1>5, <1>6, Zenon

(* A session that is admitted, or not, is so as agreed. *)
LEMMA SessionAgrees ==
    ASSUME NEW secure, secure <=> (request.secure \/ request.version = "http1"),
           NEW what, what \in {ValidateWebtransportAdmission(secure), "400", "426"},
           what = "session" => request.offer # "other",
           request.method = "CONNECT" \/ ~FallbackServes
    PROVE  Agreed(what) /\ what \in {"404", "403", "session", "400", "426"}
<1> DEFINE admission == ValidateWebtransportAdmission(secure)
<1>1. /\ admission \in {"404", "403", "session"}
      /\ admission = "session" => options.webtransport /\ request.path = "rpc"
      /\ options.admission = "same_origin" /\ admission \in {"403", "session"} =>
             (admission = "session" <=> SameOrigin(secure))
      /\ admission = "session" /\ options.admission = "none" =>
             /\ options.authorities => AuthorityAllowed
             /\ request.hasOrigin # "none" => OriginAllowed
  BY AdmissionAnswers, Zenon
<1>2. what \in {"404", "403", "session", "400", "426"} /\ (what \in {"403", "session"} => what = admission)
  <2> HIDE DEF admission
  <2> QED
    BY <1>1, Zenon DEF admission
<1>3. request.method # "CONNECT" /\ what # "503" =>
          ((what \in {"fallback", "500"}) <=> FallbackServes)
  BY <1>2, Zenon
<1>4. what # "rpc"
  BY <1>2, Zenon
<1>5. what = "session" => request.offer # "other" /\ options.webtransport
  BY <1>1, <1>2, Zenon
<1>6. ASSUME options.admission = "same_origin", request.hasOrigin = "some",
             request.origin.scheme # "", request.origin.host # "", what \in {"session", "403"}
      PROVE  what = "session" <=>
                 Serialized(request.origin) \in {Serialized(o) : o \in AllowedOrigins \cup {Own}}
  BY <1>1, <1>2, <1>6, SameOriginSerialized, Zenon
<1>7. ASSUME what = "session", options.admission = "none"
      PROVE  /\ request.hasOrigin # "none" => options.origins
             /\ options.authorities => \E a \in AllowedAuthorities : a.host = request.authority.host
  <2>1. AuthorityAllowed => \E a \in AllowedAuthorities : a.host = request.authority.host
    <3>1. [host |-> request.authority.host, port |-> 0].host = request.authority.host
      BY Zenon
    <3> QED
      BY <3>1, Zenon DEF AuthorityAllowed
  <2>2. OriginAllowed => options.origins
    BY Zenon DEF OriginAllowed
  <2> QED
    BY <1>1, <1>2, <1>7, <2>1, <2>2, Zenon
<1> QED
  BY <1>2, <1>3, <1>4, <1>5, <1>6, <1>7, Zenon DEF Agreed

(* Each HTTP version decides as agreed, and gives a slot only to what had one. *)
LEMMA RpcAgrees ==
    ASSUME NEW what, request.version # "http1",
           what = IF ~permit THEN "503" ELSE IF FallbackServes THEN "fallback" ELSE ValidateHttpRequest
    PROVE  Agreed(what) /\ (what \in {"fallback", "rpc"} => permit)
<1>1. CASE ~permit
  BY <1>1, Zenon DEF Agreed
<1>2. CASE permit /\ FallbackServes
  BY <1>2, Zenon DEF Agreed
<1>3. CASE permit /\ ~FallbackServes
  BY <1>3, HttpAnswers, Zenon DEF Agreed
<1> QED
  BY <1>1, <1>2, <1>3, Zenon

LEMMA DecidesAsAgreed ==
    ASSUME NEW what, Decide(what), HttpInv, stage = "received", Agreed(what),
           request.version # "http1" /\ what = "fallback" => permit
    PROVE  HttpInv'
<1>1. /\ answer' = what /\ permit' = (permit /\ what \in {"fallback", "rpc"})
      /\ stage' = IF what = "fallback" THEN "service" ELSE "done"
      /\ UNCHANGED <<options, request, body, got, data_done, made, altSvc, wrote, peer, end>>
  BY Zenon DEF Decide
<1>2. BodiesInv'
  BY <1>1, Zenon DEF HttpInv, BodiesInv, EndsLast
<1>3. StageInv'
  <2>1. permit' \in BOOLEAN /\ (permit' => what \in {"fallback", "rpc"})
    BY <1>1, Zenon
  <2>2. end = "open"
    BY Zenon DEF HttpInv, StageInv
  <2>3. what = "fallback" /\ permit => permit'
    BY <1>1, Zenon
  <2>4. CASE what = "fallback"
    BY <1>1, <2>1, <2>2, <2>3, <2>4, Zenon DEF HttpInv, StageInv
  <2>5. CASE what # "fallback"
    BY <1>1, <2>1, <2>2, <2>5, Zenon DEF HttpInv, StageInv
  <2> QED
    BY <2>4, <2>5, Zenon
<1>4. VersionsAgree'
  <2>1. UNCHANGED <<options, request>> /\ Own' = Own
    BY <1>1, Zenon DEF Own
  <2>2. FallbackServes' <=> FallbackServes
    BY <2>1, Zenon DEF FallbackServes, ClaimsPath
  <2>3. Agreed(answer)'
    BY <1>1, <2>1, <2>2, Zenon DEF Agreed
  <2> QED
    BY <2>3, Zenon DEF VersionsAgree
<1> QED
  BY <1>2, <1>3, <1>4, Zenon DEF HttpInv

LEMMA Http3Decides == HttpInv /\ Http3 => HttpInv'
<1> SUFFICES ASSUME HttpInv, Http3 PROVE HttpInv'
  BY Zenon
<1>1. stage = "received" /\ request.version = "http3"
  BY Zenon DEF Http3
<1>2. CASE request.method = "CONNECT"
  <2>1. Decide(ValidateWebtransportRequest)
    BY <1>2, Zenon DEF Http3
  <2> DEFINE what == ValidateWebtransportRequest
  <2>2. /\ what \in {ValidateWebtransportAdmission(request.secure), "400", "426"}
        /\ what = "session" => request.offer # "other"
    BY Zenon DEF ValidateWebtransportRequest
  <2>3. request.secure <=> (request.secure \/ request.version = "http1")
    BY <1>1, Zenon
  <2>4. Agreed(what) /\ what \in {"404", "403", "session", "400", "426"}
    BY <1>2, <2>2, <2>3, SessionAgrees, Zenon
  <2>5. what # "fallback"
    BY <2>4, Zenon
  <2> QED
    BY <1>1, <2>1, <2>4, <2>5, DecidesAsAgreed, Zenon
<1>3. CASE request.method # "CONNECT"
  <2> DEFINE what == IF ~permit THEN "503" ELSE IF FallbackServes THEN "fallback" ELSE ValidateHttpRequest
  <2>1. Decide(what)
    BY <1>3, Zenon DEF Http3
  <2>2. Agreed(what) /\ (what \in {"fallback", "rpc"} => permit)
    <3>1. request.version # "http1"
      BY <1>1, Zenon
    <3> QED
      BY <3>1, RpcAgrees, Zenon
  <2> HIDE DEF what
  <2> QED
    BY <1>1, <2>1, <2>2, DecidesAsAgreed, Zenon
<1> QED
  BY <1>2, <1>3, Zenon

LEMMA Http2Decides == HttpInv /\ Http2 => HttpInv'
<1> SUFFICES ASSUME HttpInv, Http2 PROVE HttpInv'
  BY Zenon
<1>1. stage = "received" /\ request.version # "http1"
  BY Zenon DEF Http2
<1> DEFINE what == IF ~permit THEN "503" ELSE IF FallbackServes THEN "fallback" ELSE ValidateHttpRequest
<1>2. Decide(what)
  BY Zenon DEF Http2
<1>3. Agreed(what) /\ (what \in {"fallback", "rpc"} => permit)
  BY <1>1, RpcAgrees, Zenon
<1> HIDE DEF what
<1> QED
  BY <1>1, <1>2, <1>3, DecidesAsAgreed, Zenon

LEMMA Http1Decides == HttpInv /\ Http1 => HttpInv'
<1> SUFFICES ASSUME HttpInv, Http1 PROVE HttpInv'
  BY Zenon
<1>1. stage = "received" /\ request.version = "http1"
  BY Zenon DEF Http1
<1>2. CASE ~ClaimsPath
  <2> DEFINE what == IF options.fallback THEN "fallback" ELSE "404"
  <2>1. Decide(what)
    BY <1>2, Zenon DEF Http1
  <2>2. Agreed(what)
    BY <1>2, Zenon DEF Agreed, FallbackServes
  <2> HIDE DEF what
  <2> QED
    BY <1>1, <2>1, <2>2, DecidesAsAgreed, Zenon
<1>3. CASE ClaimsPath /\ options.webtransport /\ request.upgrade
  <2> DEFINE what == UpgradeResponse
  <2>1. Decide(what)
    BY <1>3, Zenon DEF Http1
  <2>2. /\ what \in {ValidateWebtransportAdmission(TRUE), "400", "426"}
        /\ what = "session" => request.offer # "other"
    BY AdmissionAnswers, Zenon DEF UpgradeResponse
  <2>3. ~FallbackServes
    BY <1>3, Zenon DEF FallbackServes
  <2>4. TRUE <=> (request.secure \/ request.version = "http1")
    BY <1>1, Zenon
  <2> HIDE DEF what
  <2>5. Agreed(what)
    BY <2>2, <2>3, <2>4, SessionAgrees, Zenon
  <2> QED
    BY <1>1, <2>1, <2>5, DecidesAsAgreed, Zenon
<1>4. CASE ClaimsPath /\ ~(options.webtransport /\ request.upgrade)
  <2>1. Decide("505")
    BY <1>4, Zenon DEF Http1
  <2>2. Agreed("505")
    BY <1>4, Zenon DEF Agreed, FallbackServes
  <2> QED
    BY <1>1, <2>1, <2>2, DecidesAsAgreed, Zenon
<1> QED
  BY <1>2, <1>3, <1>4, Zenon

-----------------------------------------------------------------------------
(* How a fallback's response is written. *)

(* A request that was answered stays answered so. *)
LEMMA StaysAgreed ==
    ASSUME VersionsAgree, UNCHANGED <<options, request>>, stage # "received",
           answer' = answer \/ (answer = "fallback" /\ answer' = "500")
    PROVE  VersionsAgree'
<1>1. Own' = Own /\ (FallbackServes' <=> FallbackServes)
  BY Zenon DEF Own, FallbackServes, ClaimsPath
<1>2. Agreed(answer)
  BY Zenon DEF VersionsAgree
<1>3. CASE answer' = answer
  BY <1>1, <1>2, <1>3, Zenon DEF Agreed, VersionsAgree
<1>4. CASE answer = "fallback" /\ answer' = "500"
  <2>1. request.method # "CONNECT" => FallbackServes
    BY <1>2, <1>4, Zenon DEF Agreed
  <2>2. Agreed(answer)'
    BY <1>1, <1>4, <2>1, Zenon DEF Agreed
  <2> QED
    BY <2>2, Zenon DEF VersionsAgree
<1> QED
  BY <1>3, <1>4, Zenon

(* A body ends with its trailers, an error or its last data. *)
LEMMA BodiesEnd == \A s \in WithEnds : EndsLast(s)
<1> SUFFICES ASSUME NEW s \in WithEnds PROVE EndsLast(s)
  BY Zenon
<1>1. PICK b \in Bodies, e \in BodyEnds : s = b \o e
  BY DEF WithEnds
<1>2. PICK n \in 0..Frames : b \in [1..n -> {"data"}]
  BY <1>1, Zenon DEF Bodies
<1>3. n \in Nat
  BY <1>2
<1>4. b \in Seq({"data"}) /\ Len(b) = n
  BY <1>2, <1>3
<1>5. CASE e = <<>>
  BY <1>1, <1>4, <1>5 DEF EndsLast, Items
<1>6. ASSUME NEW x \in {"trailers", "error"}, e = <<x>> PROVE EndsLast(s)
  BY <1>1, <1>4, <1>6 DEF EndsLast, Items
<1> QED
  BY <1>5, <1>6, Zenon DEF BodyEnds

(* The rest of a body ends as it does; and a frame read ends what was read if nothing is left. *)
LEMMA RestEnds ==
    ASSUME NEW s, EndsLast(s), s # <<>>
    PROVE  /\ EndsLast(Tail(s)) /\ Head(s) \in Items
           /\ Head(s) # "data" => Tail(s) = <<>>
<1>1. s \in Seq(Items) /\ Len(s) \in Nat /\ Len(s) > 0 /\ Head(s) = s[1]
  BY DEF EndsLast
<1>2. PICK r : /\ r = Tail(s) /\ r \in Seq(Items) /\ Len(r) = Len(s) - 1
               /\ \A i \in 1..Len(r) : r[i] = s[i + 1]
  <2>1. Tail(s) \in Seq(Items)
    BY <1>1
  <2>2. Len(Tail(s)) = Len(s) - 1
    BY <1>1
  <2>3. \A i \in 1..Len(Tail(s)) : Tail(s)[i] = s[i + 1]
    BY <1>1
  <2> QED
    BY <2>1, <2>2, <2>3, Zenon
<1>3. ASSUME NEW i \in 1..Len(s), s[i] # "data" PROVE i = Len(s)
  BY <1>3, Zenon DEF EndsLast
<1>4. ASSUME NEW i \in 1..Len(r), r[i] # "data" PROVE i = Len(r)
  <2>1. i + 1 \in 1..Len(s) /\ s[i + 1] # "data"
    BY <1>1, <1>2, <1>4
  <2>2. i + 1 = Len(s)
    BY <1>3, <2>1, Zenon
  <2>3. i \in Nat /\ Len(s) \in Nat /\ Len(r) = Len(s) - 1
    BY <1>1, <1>2
  <2>4. i = Len(s) - 1
    BY <2>2, <2>3
  <2> QED
    BY <2>3, <2>4, Zenon
<1>5. EndsLast(r)
  BY <1>2, <1>4, Zenon DEF EndsLast
<1>6. ASSUME Head(s) # "data" PROVE r = <<>>
  <2>1. 1 \in 1..Len(s) /\ s[1] # "data"
    BY <1>1, <1>6
  <2>2. Len(s) = 1
    BY <1>3, <2>1, Zenon
  <2> QED
    BY <1>2, <2>2
<1>7. Head(s) \in Items
  BY <1>1
<1> QED
  BY <1>2, <1>5, <1>6, <1>7, Zenon

LEMMA LongerEnds ==
    ASSUME NEW s, EndsLast(s), NEW x \in Items, \A i \in 1..Len(s) : s[i] = "data"
    PROVE  /\ EndsLast(Append(s, x))
           /\ \A i \in 1..Len(Append(s, x)) : Append(s, x)[i] # "data" => Append(s, x)[i] = x
BY DEF EndsLast

(* Reading a frame of the request's body. *)
LEMMA PollKeeps == HttpInv /\ PollFrame => HttpInv'
<1> SUFFICES ASSUME HttpInv, PollFrame PROVE HttpInv'
  BY Zenon
<1>1. /\ stage = "service" /\ request.version # "http1" /\ (body = <<>> => ~data_done)
      /\ UNCHANGED <<options, request, stage, answer, permit, made, altSvc, wrote, peer, end>>
  BY Zenon DEF PollFrame
<1>2. StageInv'
  BY <1>1, Zenon DEF HttpInv, StageInv
<1>3. VersionsAgree'
  <2>1. stage # "received"
    BY <1>1, Zenon
  <2> QED
    BY <1>1, <2>1, StaysAgreed, Zenon DEF HttpInv
<1>4. EndsLast(made)' /\ EndsLast(wrote)' /\ (\A i \in 1..Len(wrote) : wrote[i] # "data" => end = "finished")'
  BY <1>1, Zenon DEF HttpInv, BodiesInv, EndsLast
<1>5. /\ EndsLast(body) /\ EndsLast(got)
      /\ \A i \in 1..Len(got) : got[i] # "data" => body = <<>>
      /\ \A i \in 1..Len(got) : got[i] = "trailers" => data_done
  BY Zenon DEF HttpInv, BodiesInv
<1>6. CASE body = <<>>
  <2>1. data_done' = TRUE /\ UNCHANGED <<body, got>>
    BY <1>6, Zenon DEF PollFrame
  <2> QED
    BY <1>2, <1>3, <1>4, <1>5, <2>1, Zenon DEF HttpInv, BodiesInv, EndsLast
<1>7. CASE body # <<>>
  <2>1. /\ data_done' = (data_done \/ Head(body) = "trailers")
        /\ got' = Append(got, Head(body)) /\ body' = Tail(body)
    BY <1>7, Zenon DEF PollFrame
  <2>2. \A i \in 1..Len(got) : got[i] = "data"
    BY <1>5, <1>7, Zenon
  <2>3. /\ EndsLast(Tail(body)) /\ Head(body) \in Items /\ (Head(body) # "data" => Tail(body) = <<>>)
    BY <1>5, <1>7, RestEnds, Zenon
  <2>4. /\ EndsLast(Append(got, Head(body)))
        /\ \A i \in 1..Len(got') : got'[i] # "data" => got'[i] = Head(body)
    BY <1>5, <2>1, <2>2, <2>3, LongerEnds, Zenon
  <2>5. EndsLast(body)' /\ EndsLast(got)'
    BY <2>1, <2>3, <2>4, Zenon DEF EndsLast
  <2>6. \A i \in 1..Len(got') : got'[i] # "data" => body' = <<>>
    BY <2>1, <2>3, <2>4, Zenon
  <2>7. ASSUME NEW i \in 1..Len(got'), got'[i] = "trailers" PROVE data_done'
    BY <2>1, <2>4, <2>7, Zenon
  <2> QED
    BY <1>2, <1>3, <1>4, <2>5, <2>6, <2>7, Zenon DEF HttpInv, BodiesInv
<1> QED
  BY <1>6, <1>7, Zenon

(* The service's response, or the 500 of one that failed. *)
LEMMA RespondKeeps == HttpInv /\ Respond => HttpInv'
<1> SUFFICES ASSUME HttpInv, Respond PROVE HttpInv'
  BY Zenon
<1>1. /\ stage = "service" /\ stage' = "writing"
      /\ UNCHANGED <<options, request, permit, body, got, data_done, wrote, peer, end>>
  BY Zenon DEF Respond
<1>2. /\ made' \in WithEnds \/ made' = <<>>
      /\ answer' \in {"fallback", "500"}
      /\ altSvc' = "server" => request.version # "http3"
  BY Zenon DEF Respond
<1>3. EndsLast(made)'
  <2>1. EndsLast(<<>>)
    BY DEF EndsLast
  <2> QED
    BY <1>2, <2>1, BodiesEnd, Zenon
<1>4. BodiesInv'
  BY <1>1, <1>3, Zenon DEF HttpInv, BodiesInv, EndsLast
<1>5. StageInv'
  <2>1. end = "open" /\ permit \in BOOLEAN /\ (request.version # "http1" => permit)
    BY <1>1, Zenon DEF HttpInv, StageInv
  <2> QED
    BY <1>1, <1>2, <2>1, Zenon DEF StageInv
<1>6. VersionsAgree'
  <2>1. stage # "received" /\ answer = "fallback"
    BY <1>1, Zenon DEF HttpInv, StageInv
  <2> QED
    BY <1>1, <1>2, <2>1, StaysAgreed, Zenon DEF HttpInv
<1> QED
  BY <1>4, <1>5, <1>6, Zenon DEF HttpInv

(* However the response ends, its slot is free then. *)
LEMMA FinishKeeps ==
    ASSUME NEW how, how \in {"finished", "reset"}, Finish(how), HttpInv, stage = "writing",
           EndsLast(made)', EndsLast(wrote)', how = "finished" => made' = <<>>,
           \A i \in 1..Len(wrote') : wrote'[i] # "data" => how = "finished"
    PROVE  HttpInv'
<1>1. /\ end' = how /\ stage' = "done" /\ permit' = FALSE
      /\ UNCHANGED <<options, request, answer, body, got, data_done, altSvc, peer>>
  BY Zenon DEF Finish
<1>2. BodiesInv'
  BY <1>1, Zenon DEF HttpInv, BodiesInv, EndsLast
<1>3. StageInv'
  BY <1>1, Zenon DEF HttpInv, StageInv
<1>4. VersionsAgree'
  <2>1. stage # "received"
    BY Zenon
  <2> QED
    BY <1>1, <2>1, StaysAgreed, Zenon DEF HttpInv
<1> QED
  BY <1>2, <1>3, <1>4, Zenon DEF HttpInv

LEMMA WriteKeeps == HttpInv /\ WriteFrame => HttpInv'
<1> SUFFICES ASSUME HttpInv, WriteFrame PROVE HttpInv'
  BY Zenon
<1>1. /\ stage = "writing" /\ EndsLast(made) /\ EndsLast(wrote)
      /\ \A i \in 1..Len(wrote) : wrote[i] # "data" => end = "finished"
  BY Zenon DEF WriteFrame, HttpInv, BodiesInv
<1>2. end = "open" /\ \A i \in 1..Len(wrote) : wrote[i] = "data"
  <2>1. end = "open"
    BY <1>1, Zenon DEF HttpInv, StageInv
  <2> QED
    BY <1>1, <2>1, Zenon
<1>3. CASE made = <<>> /\ peer = "reading"
  <2>1. Finish("finished") /\ UNCHANGED <<made, wrote>>
    BY <1>3, Zenon DEF WriteFrame
  <2>2. EndsLast(made)' /\ EndsLast(wrote)' /\ made' = <<>>
    BY <1>1, <1>3, <2>1, Zenon DEF EndsLast
  <2> QED
    BY <1>1, <2>1, <2>2, FinishKeeps, Zenon
<1>4. CASE ~(made = <<>> /\ peer = "reading") /\ (peer # "reading" \/ Head(made) = "error")
  <2>1. Finish("reset") /\ UNCHANGED <<made, wrote>>
    BY <1>4, Zenon DEF WriteFrame
  <2>2. EndsLast(made)' /\ EndsLast(wrote)' /\ (\A i \in 1..Len(wrote') : wrote'[i] = "data")
    BY <1>1, <1>2, <2>1, Zenon DEF EndsLast
  <2> QED
    BY <1>1, <2>1, <2>2, FinishKeeps, Zenon
<1>5. CASE made # <<>> /\ peer = "reading" /\ Head(made) = "trailers"
  <2>1. Finish("finished") /\ made' = <<>> /\ wrote' = Append(wrote, Head(made))
    BY <1>5, Zenon DEF WriteFrame
  <2>2. EndsLast(<<>>) /\ Head(made) \in Items
    BY <1>5 DEF EndsLast, Items
  <2>3. EndsLast(Append(wrote, Head(made)))
    BY <1>1, <1>2, <2>2, LongerEnds, Zenon
  <2>4. EndsLast(made)' /\ EndsLast(wrote)'
    BY <2>1, <2>2, <2>3, Zenon DEF EndsLast
  <2> QED
    BY <1>1, <2>1, <2>4, FinishKeeps, Zenon
<1>6. CASE made # <<>> /\ peer = "reading" /\ Head(made) \notin {"error", "trailers"}
  <2>1. made' = Tail(made) /\ wrote' = Append(wrote, Head(made))
        /\ UNCHANGED <<respVars, stage, answer, peer, end>>
    BY <1>6, Zenon DEF WriteFrame
  <2>2. EndsLast(Tail(made)) /\ Head(made) \in Items
    BY <1>1, <1>6, RestEnds, Zenon
  <2>3. Head(made) = "data"
    BY <1>6, <2>2, Zenon DEF Items
  <2>4. /\ EndsLast(Append(wrote, Head(made)))
        /\ \A i \in 1..Len(wrote') : wrote'[i] # "data" => wrote'[i] = Head(made)
    BY <1>1, <1>2, <2>1, <2>2, LongerEnds, Zenon
  <2>5. EndsLast(made)' /\ EndsLast(wrote)' /\ \A i \in 1..Len(wrote') : wrote'[i] = "data"
    BY <2>1, <2>2, <2>3, <2>4, Zenon DEF EndsLast
  <2>6. BodiesInv'
    BY <2>1, <2>5, Zenon DEF HttpInv, BodiesInv, EndsLast, respVars
  <2>7. StageInv'
    BY <1>1, <1>2, <2>1, Zenon DEF HttpInv, StageInv, respVars
  <2>8. VersionsAgree'
    <3>1. stage # "received"
      BY <1>1, Zenon
    <3> QED
      BY <2>1, <3>1, StaysAgreed, Zenon DEF HttpInv, respVars
  <2> QED
    BY <2>6, <2>7, <2>8, Zenon DEF HttpInv
<1> QED
  BY <1>3, <1>4, <1>5, <1>6, Zenon

LEMMA StoppedKeeps == HttpInv /\ Stopped => HttpInv'
<1> SUFFICES ASSUME HttpInv, Stopped PROVE HttpInv'
  BY Zenon
<1>1. stage = "writing" /\ Finish("reset") /\ UNCHANGED <<made, wrote>>
  BY Zenon DEF Stopped
<1>2. end = "open"
  BY <1>1, Zenon DEF HttpInv, StageInv
<1>3. EndsLast(made)' /\ EndsLast(wrote)' /\ (\A i \in 1..Len(wrote') : wrote'[i] = "data")
  BY <1>1, <1>2, Zenon DEF HttpInv, BodiesInv, EndsLast
<1> QED
  BY <1>1, <1>3, FinishKeeps, Zenon

LEMMA HttpStep == HttpInv /\ [HttpNext]_httpVars => HttpInv'
<1> SUFFICES ASSUME HttpInv, [HttpNext]_httpVars PROVE HttpInv'
  BY Zenon
<1>1. CASE PeerLeaves
  <2>1. /\ UNCHANGED <<respVars, stage, answer, made, wrote, end>> /\ stage # "received"
    BY <1>1, Zenon DEF PeerLeaves
  <2>2. BodiesInv' /\ StageInv'
    BY <2>1, Zenon DEF HttpInv, BodiesInv, EndsLast, StageInv, respVars
  <2>3. UNCHANGED <<options, request>> /\ answer' = answer
    BY <2>1, Zenon DEF respVars
  <2>4. VersionsAgree'
    BY <2>1, <2>3, StaysAgreed, Zenon DEF HttpInv
  <2> QED
    BY <2>2, <2>4, Zenon DEF HttpInv
<1>2. CASE UNCHANGED httpVars
  <2>1. Own' = Own /\ (FallbackServes' <=> FallbackServes)
    BY <1>2, Zenon DEF httpVars, Own, FallbackServes, ClaimsPath
  <2>2. UNCHANGED <<options, request, stage, answer, permit, body, got, data_done, made, altSvc, wrote, end>>
    BY <1>2, Zenon DEF httpVars
  <2>3. BodiesInv' /\ StageInv'
    BY <2>2, Zenon DEF HttpInv, BodiesInv, EndsLast, StageInv
  <2>4. VersionsAgree'
    BY <2>1, <2>2, Zenon DEF HttpInv, VersionsAgree, Agreed
  <2> QED
    BY <2>3, <2>4, Zenon DEF HttpInv
<1> QED
  BY <1>1, <1>2, Http3Decides, Http2Decides, Http1Decides, PollKeeps, RespondKeeps, WriteKeeps,
     StoppedKeeps, Zenon DEF HttpNext

(* A request is served alike over every HTTP version, and the fallback's response is whole when it *)
(* ends well, with its stream slot until then: for any options, requests, origins and bodies       *)
(* (http_admission.rs, http1.rs, http2.rs, http3.rs, websocket.rs and fallback.rs).                *)
THEOREM HttpVersionsAgree == HttpSpec => []HttpAgrees
<1>1. HttpInit => HttpInv
  <2> SUFFICES ASSUME HttpInit PROVE HttpInv
    BY Zenon
  <2>1. EndsLast(<<>>)
    BY DEF EndsLast
  <2>2. body \in WithEnds \/ body = <<>>
    BY Zenon DEF HttpInit, Received
  <2>3. EndsLast(body)
    BY <2>1, <2>2, BodiesEnd, Zenon
  <2>4. /\ stage = "received" /\ answer = "none" /\ permit \in BOOLEAN
        /\ got = <<>> /\ made = <<>> /\ wrote = <<>> /\ altSvc = "none" /\ end = "open"
    BY Zenon DEF HttpInit, Received
  <2> QED
    BY <2>1, <2>3, <2>4 DEF HttpInv, BodiesInv, StageInv, VersionsAgree
<1>2. HttpInv => HttpAgrees
  BY Zenon DEF HttpInv, BodiesInv, StageInv, EndsLast, HttpAgrees, ResponseIsWhole
<1> QED
  BY <1>1, <1>2, HttpStep, PTL DEF HttpSpec

-----------------------------------------------------------------------------
(* The limits of Serve, by what is known of finite sets. *)
Finite == INSTANCE FiniteSetTheorems

(* The library speaks of the same finite sets and of the same sizes. *)
LEMMA SameSizes ==
    ASSUME NEW S
    PROVE  (IsFiniteSet(S) <=> Finite!IsFiniteSet(S)) /\ Cardinality(S) = Finite!Cardinality(S)
  BY Zenon DEF IsFiniteSet, Finite!IsFiniteSet, Cardinality, Finite!Cardinality

(* Such a step keeps the set finite and within its limit. *)
LEMMA KeepingLimit ==
    ASSUME NEW old, NEW new, NEW limit \in Nat, IsFiniteSet(old), Cardinality(old) <= limit,
           KeepsLimit(old, new, limit)
    PROVE  IsFiniteSet(new) /\ Cardinality(new) <= limit
<1>1. CASE new \subseteq old
  <2>1. Finite!IsFiniteSet(old) /\ new \in SUBSET old
    BY <1>1, SameSizes, Zenon
  <2>2. Finite!IsFiniteSet(new) /\ Finite!Cardinality(new) <= Finite!Cardinality(old)
    BY <2>1, Finite!FS_Subset, Zenon
  <2>3. IsFiniteSet(new) /\ Cardinality(new) = Finite!Cardinality(new)
    BY <2>2, SameSizes, Zenon
  <2>4. Cardinality(old) = Finite!Cardinality(old)
    BY SameSizes, Zenon
  <2> QED
    BY <2>1, <2>2, <2>3, <2>4, Finite!FS_CardinalityType
<1>2. ASSUME NEW x, new = old \cup {x}, Cardinality(old) < limit
      PROVE IsFiniteSet(new) /\ Cardinality(new) <= limit
  <2>1. IsFiniteSet(new) /\ (Cardinality(new) = Cardinality(old) \/ Cardinality(new) = Cardinality(old) + 1)
    BY <1>2, SameSizes, Finite!FS_AddElement, ZenonT(30)
  <2> QED
    BY <1>2, <2>1, SameSizes, Finite!FS_CardinalityType
<1> QED
  BY <1>1, <1>2, Zenon DEF KeepsLimit

(* The invariant holds in every state of the accept loop and its tasks. *)
THEOREM ServeInvariant == Spec => []ServeInv
<1>1. Init => ServeInv
  BY LimitsAssumption, SameSizes, Finite!FS_EmptySet, SMTT(30)
     DEF Init, ServeInv, TypeOK, Tasks, Stages, Live, Waiting, Busy, Counted, FiniteInv, LimitsKept, OwnedInv
<1>2. ServeInv /\ [Next]_vars => ServeInv'
  <2> SUFFICES ASSUME ServeInv, [Next]_vars PROVE ServeInv'
    BY Zenon
  <2>1. TypeOK'
    BY ServeTypes, Zenon DEF ServeInv
  <2>2. FiniteInv' /\ LimitsKept'
    BY LimitSteps, KeepingLimit, LimitsAssumption, Zenon DEF ServeInv, FiniteInv, LimitsKept
  <2>3. \A c \in Connections : OwnedInv(c)'
    BY <2>1, ServeStep, Zenon
  <2> QED
    BY <2>1, <2>2, <2>3, Zenon DEF ServeInv
<1> QED
  BY <1>1, <1>2, PTL DEF Spec

(* For any number of connections and streams and any limits: connection permits are those of the   *)
(* live tasks, stream permits those of streams that are read or run, neither limit is exceeded, no *)
(* stream task outlives its connection's task and none of those outlives serve_sources (serve.rs,  *)
(* tcp.rs, native.rs).                                                                             *)
THEOREM ServeOwnsItsTasks == Spec => []TasksAreOwned
<1>1. ServeInv => PermitsFollowTasks
  BY Zenon DEF ServeInv, TypeOK, OwnedInv, PermitsFollowTasks
<1>2. ServeInv => LimitsKept
  BY Zenon DEF ServeInv
<1>3. ServeInv => NoOrphans
  BY Zenon DEF ServeInv, OwnedInv, NoOrphans
<1> QED
  BY <1>1, <1>2, <1>3, ServeInvariant, PTL DEF TasksAreOwned

=============================================================================
