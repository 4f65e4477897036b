------------------------- MODULE MessageQueueProofs -------------------------
(***************************************************************************)
(* Theorems of MessageQueue for every set of producers and every limit:    *)
(* the bounds, the order and the two no-lost-wakeup properties.  And of    *)
(* ConnectionMetadata: that a call runs with its own set or fails, and     *)
(* fails only for an evicted one, for any connections, calls and sets.     *)
(***************************************************************************)
EXTENDS MessageQueue, ConnectionMetadata, TLAPS

Holders == {p \in Producers : Holding(p)}

(* senders is the number of senders that were not dropped. *)
SendersCounted == senders = Cardinality(Holders)

(* There are that many, and at least one while somebody holds one. *)
SendersKnown == senders \in Nat /\ \A p \in Producers : Holding(p) => senders > 0

(* A waker is registered only while there is no room and somebody receives. *)
WakersOnlyWhenFull == HasRoom \/ ~receiverOpen => senderWakers = {}

(* A producer that waits is about to be polled, or its waker is registered. *)
WaitersAreKnown ==
    \A p \in Producers :
        producer[p] \in {"sending", "reserving"} => p \in woken \cup waking \cup senderWakers

(* The receiver's waker is registered only while the queue is empty and may still get a value. *)
WakerOnlyWhenEmpty == receiverWaker => queue = <<>> /\ senders # 0

(* A receiver that waits is about to be polled, or its waker is registered. *)
ReceiverIsKnown ==
    receiver = "receiving" => Receiver \in woken \cup waking \/ receiverWaker

(* A producer that reserves, or holds a permit, is the only one. *)
ReservesAlone ==
    \A p \in Producers : Reserves(p) => OnlyProducer(p)

(* A dropped receiver closed the queue, and a closed queue holds nothing. *)
ClosedIsEmpty ==
    /\ ~receiverOpen => queue = <<>> /\ queuedBytes = 0
    /\ receiver # "dropped" => receiverOpen

(* Nobody holds a sender any more once the receiver has seen the end. *)
EndIsFinal == receiver = "ended" => senders = 0

IInv ==
    /\ TypeOK
    /\ SendersCounted
    /\ WakersOnlyWhenFull
    /\ WaitersAreKnown
    /\ WakerOnlyWhenEmpty
    /\ ReceiverIsKnown
    /\ ReservesAlone
    /\ PermitHasRoom
    /\ ClosedIsEmpty
    /\ Bounded
    /\ InOrder
    /\ EndIsFinal

-----------------------------------------------------------------------------
(* What the proofs use of finite sets and their sizes; the last section takes it from              *)
(* FiniteSetTheorems.                                                                              *)
SizeFacts ==
    /\ \A S : IsFiniteSet(S) => Cardinality(S) \in Nat /\ (Cardinality(S) = 0 <=> S = {})
    /\ \A x : Cardinality({x}) = 1
    /\ \A S, T : IsFiniteSet(S) /\ T \subseteq S => IsFiniteSet(T) /\ Cardinality(T) <= Cardinality(S)
    /\ \A S, x : IsFiniteSet(S) /\ x \notin S => Cardinality(S \cup {x}) = Cardinality(S) + 1
    /\ \A S, x : IsFiniteSet(S) /\ x \in S => Cardinality(S \ {x}) = Cardinality(S) - 1
    /\ \A D : \A s \in Seq(D) :
           /\ IsFiniteSet(Range(s))
           /\ (\A i, j \in DOMAIN s : s[i] = s[j] => i = j) => Cardinality(Range(s)) = Len(s)

-----------------------------------------------------------------------------
(* The number of holders is a natural number, positive while somebody holds a sender. *)
LEMMA HoldersFinite ==
    ASSUME SizeFacts, TypeOK, SendersCounted
    PROVE  IsFiniteSet(Holders) /\ SendersKnown
<1>1. IsFiniteSet(Holders)
  BY TasksAssumption, Zenon DEF SizeFacts, Holders
<1>2. senders \in Nat
  BY <1>1, Zenon DEF SizeFacts, SendersCounted
<1>3. \A p \in Producers : Holding(p) => senders > 0
  <2>1. Holders # {} => Cardinality(Holders) # 0
    BY <1>1, Zenon DEF SizeFacts
  <2>2. QED
    BY <1>2, <2>1 DEF SendersCounted, Holders
<1>4. QED
  BY <1>1, <1>2, <1>3, Zenon DEF SendersKnown

(* Clone adds one holder. *)
LEMMA CloneCounted ==
    ASSUME SizeFacts, TypeOK, SendersCounted, NEW p \in Producers, NEW q \in Producers, Clone(p, q)
    PROVE  SendersCounted'
<1>1. Holders' = Holders \cup {q} /\ q \notin Holders
  BY Zenon DEF Clone, Holders, Holding, TypeOK, ProducerStates
<1>2. Cardinality(Holders \cup {q}) = Cardinality(Holders) + 1
  BY <1>1, HoldersFinite, Zenon DEF SizeFacts
<1>3. QED
  BY <1>1, <1>2, Zenon DEF SendersCounted, Clone

(* Dropping a sender removes one holder. *)
LEMMA DropCounted ==
    ASSUME SizeFacts, TypeOK, SendersCounted, NEW p \in Producers, DropSender(p)
    PROVE  SendersCounted'
<1>1. Holders' = Holders \ {p} /\ p \in Holders
  BY Zenon DEF DropSender, Holders, Holding, TypeOK, ProducerStates
<1>2. Cardinality(Holders \ {p}) = Cardinality(Holders) - 1
  BY <1>1, HoldersFinite, Zenon DEF SizeFacts
<1>3. QED
  BY <1>1, <1>2, Zenon DEF SendersCounted, DropSender

(* Every other step leaves the holders alone. *)
LEMMA HoldersUnchanged ==
    ASSUME TypeOK, SendersCounted, [Next]_vars,
           ~ \E p, q \in Producers : Clone(p, q),
           ~ \E p \in Producers : DropSender(p)
    PROVE  SendersCounted'
<1>1. Holders' = Holders
  BY SMTT(30) DEF Next, vars, state, Holders, Holding, TypeOK, ProducerStates, TrySend, StartSend,
         PermitSend, PollSend, PollClosed, PollWaits, StartReserve, PollReserve, Abandon,
         StartRecv, PollRecv, TryRecv, AbandonRecv, DropReceiver, Wake, MayStart
<1>2. senders' = senders
  BY Zenon DEF Next, vars, state, TrySend, StartSend, PermitSend, PollSend, PollClosed, PollWaits,
         StartReserve, PollReserve, Abandon, StartRecv, PollRecv, TryRecv, AbandonRecv,
         DropReceiver, Wake, Push, Pop, TakeReceiverWaker
<1>3. QED
  BY <1>1, <1>2, Zenon DEF SendersCounted

-----------------------------------------------------------------------------
(* Taking the receiver's waker keeps the types. *)
LEMMA TakeType ==
    ASSUME TypeOK, TakeReceiverWaker
    PROVE  receiverWaker' \in BOOLEAN /\ waking' \subseteq Tasks
<1>1. waking' \subseteq Tasks
  <2>1. CASE receiverWaker
    BY <2>1, Zenon DEF TakeReceiverWaker, TypeOK, Tasks
  <2>2. CASE ~receiverWaker
    BY <2>2, Zenon DEF TakeReceiverWaker, TypeOK, Tasks
  <2>3. QED
    BY <2>1, <2>2, Zenon
<1>2. receiverWaker' = FALSE
  BY Zenon DEF TakeReceiverWaker
<1>3. QED
  BY <1>1, <1>2, Zenon

(* The type invariant is preserved: the counters stay naturals. *)
LEMMA TypeStep ==
    ASSUME TypeOK, SendersKnown, InOrder, [Next]_vars
    PROVE  TypeOK'
<1> USE LimitsAssumption, TasksAssumption DEF TypeOK, Tasks, ProducerStates, ReceiverStates
<1>1. ASSUME NEW size \in 0..MaxSize, Push(size)
      PROVE  /\ queue' \in Seq(Values)
             /\ queuedBytes' \in Nat /\ accepted' \in Nat /\ delivered' \in Nat
             /\ senders' \in Nat /\ receiverOpen' \in BOOLEAN /\ receiverWaker' \in BOOLEAN
             /\ senderWakers' \subseteq Producers /\ waking' \subseteq Tasks
  <2>1. [id |-> accepted + 1, size |-> size] \in Values
    BY DEF Values
  <2>2. queue' \in Seq(Values)
    BY <1>1, <2>1 DEF Push
  <2>3. receiverWaker' \in BOOLEAN /\ waking' \subseteq Tasks
    BY <1>1, TakeType, Zenon DEF Push
  <2>4. QED
    BY <1>1, <2>2, <2>3 DEF Push
<1>2. ASSUME Pop
      PROVE  /\ queue' \in Seq(Values)
             /\ queuedBytes' \in Nat /\ accepted' \in Nat /\ delivered' \in Nat
             /\ senders' \in Nat /\ receiverOpen' \in BOOLEAN /\ receiverWaker' \in BOOLEAN
             /\ senderWakers' \subseteq Producers /\ waking' \subseteq Tasks
  <2>1. Head(queue) \in Values /\ Tail(queue) \in Seq(Values)
    BY <1>2 DEF Pop
  <2>2. Head(queue).id \in Nat /\ Head(queue).size \in Nat
    BY <2>1 DEF Values
  <2>3. QED
    BY <1>2, <2>1, <2>2, SMTT(30) DEF Pop, HasRoom
<1>3. CASE \E p \in Producers, size \in Sizes :
             TrySend(p, size) \/ StartSend(p, size) \/ PermitSend(p, size)
  BY <1>1, <1>3, ZenonT(30) DEF TrySend, StartSend, PermitSend, state
<1>4. ASSUME NEW p \in Producers, PollSend(p) \/ PollReserve(p)
      PROVE  TypeOK'
  <2>1. CASE PollClosed(p)
    BY <2>1 DEF PollClosed, state
  <2>2. CASE PollWaits(p)
    BY <2>2, Zenon DEF PollWaits
  <2>3. CASE /\ Push(pending[p])
             /\ producer' = [producer EXCEPT ![p] = "idle"]
             /\ pending' = [pending EXCEPT ![p] = 0]
             /\ woken' = woken \ {p}
             /\ UNCHANGED receiver
    BY <1>1, <2>3
  <2>4. CASE /\ producer' = [producer EXCEPT ![p] = "permit"]
             /\ woken' = woken \ {p}
             /\ UNCHANGED <<state, waking, pending, receiver, accepted, delivered>>
    BY <2>4, Zenon DEF state
  <2>5. QED
    BY <1>4, <2>1, <2>2, <2>3, <2>4, Zenon DEF PollSend, PollReserve
<1>5. CASE \E p \in Producers : StartReserve(p) \/ Abandon(p)
  BY <1>5, SMTT(30) DEF StartReserve, Abandon, state
<1>6. ASSUME NEW p \in Producers, DropSender(p)
      PROVE  TypeOK'
  <2>1. senders' \in Nat
    BY <1>6, SMTT(30) DEF SendersKnown, DropSender, Holding
  <2>2. receiverWaker' \in BOOLEAN /\ waking' \subseteq Tasks
    BY <1>6, TakeType, Zenon DEF DropSender
  <2>3. QED
    BY <1>6, <2>1, <2>2, Zenon DEF DropSender
<1>7. CASE \E p, q \in Producers : Clone(p, q)
  BY <1>7 DEF Clone
<1>8. CASE StartRecv \/ AbandonRecv \/ \E t \in Tasks : Wake(t)
  BY <1>8, SMTT(30) DEF StartRecv, AbandonRecv, Wake, state
<1>13. CASE DropReceiver
  <2>1. queue' \in Seq(Values)
    BY <1>13 DEF DropReceiver
  <2>2. receiverOpen' \in BOOLEAN
    BY <1>13, Zenon DEF DropReceiver
  <2>3. QED
    BY <1>13, <2>1, <2>2, Zenon DEF DropReceiver
<1>9. CASE PollRecv
  <2>1. CASE Pop /\ receiver' = "idle"
    BY <1>2, <1>9, <2>1, Zenon DEF PollRecv
  <2>2. CASE receiver' = "ended" /\ UNCHANGED <<state, waking, accepted, delivered>>
    BY <1>9, <2>2, Zenon DEF PollRecv, state
  <2>3. CASE receiverWaker' = TRUE /\ UNCHANGED <<queue, queuedBytes, senders, receiverOpen,
                                       senderWakers, waking, receiver, accepted, delivered>>
    BY <1>9, <2>3, Zenon DEF PollRecv
  <2>4. QED
    BY <1>9, <2>1, <2>2, <2>3, Zenon DEF PollRecv
<1>10. CASE TryRecv
  BY <1>2, <1>10, Zenon DEF TryRecv
<1>11. CASE UNCHANGED vars
  BY <1>11, Zenon DEF vars, state
<1>12. QED
  BY <1>3, <1>4, <1>5, <1>6, <1>7, <1>8, <1>9, <1>10, <1>11, <1>13, Zenon DEF Next

-----------------------------------------------------------------------------
(* reserve is called by the only producer, and no producer is cloned while it reserves. *)
LEMMA ReservesStep ==
    ASSUME TypeOK, ReservesAlone, [Next]_vars
    PROVE  ReservesAlone'
<1> USE DEF ReservesAlone, OnlyProducer, Reserves, Holding
<1>1. ASSUME \A q \in Producers : Holding(q)' => Holding(q),
             \A q \in Producers : Reserves(q)' => Reserves(q)
      PROVE  ReservesAlone'
  BY <1>1, Zenon
<1>2. ASSUME NEW p \in Producers, NEW what \in {"idle", "sending", "dropped"}, Holding(p),
             producer' = [producer EXCEPT ![p] = what]
      PROVE  ReservesAlone'
  BY <1>1, <1>2, Zenon DEF TypeOK
<1>3. CASE UNCHANGED producer
  BY <1>1, <1>3, Zenon
<1>4. ASSUME NEW p \in Producers, NEW size \in Sizes,
             TrySend(p, size) \/ StartSend(p, size) \/ PermitSend(p, size)
      PROVE  ReservesAlone'
  BY <1>2, <1>3, <1>4, Zenon DEF TrySend, StartSend, PermitSend, MayStart
<1>5. ASSUME NEW p \in Producers, PollSend(p) \/ Abandon(p) \/ DropSender(p)
      PROVE  ReservesAlone'
  BY <1>2, <1>3, <1>5, Zenon DEF PollSend, PollClosed, PollWaits, Abandon, DropSender
<1>6. ASSUME NEW p \in Producers, StartReserve(p)
      PROVE  ReservesAlone'
  BY <1>6 DEF StartReserve, MayStart, TypeOK
<1>7. ASSUME NEW p \in Producers, PollReserve(p)
      PROVE  ReservesAlone'
  <2>1. CASE producer' = [producer EXCEPT ![p] = "permit"]
    BY <1>1, <1>7, <2>1, Zenon DEF PollReserve, TypeOK
  <2>2. QED
    BY <1>2, <1>3, <1>7, <2>1, Zenon DEF PollReserve, PollClosed, PollWaits
<1>8. ASSUME NEW p \in Producers, NEW q \in Producers, Clone(p, q)
      PROVE  ReservesAlone'
  BY <1>8, Zenon DEF Clone, TypeOK
<1>9. CASE \/ StartRecv \/ PollRecv \/ TryRecv \/ AbandonRecv \/ DropReceiver
           \/ (\E t \in Tasks : Wake(t)) \/ UNCHANGED vars
  BY <1>3, <1>9, Zenon DEF StartRecv, PollRecv, TryRecv, AbandonRecv, DropReceiver, Wake, vars
<1>10. QED
  BY <1>4, <1>5, <1>6, <1>7, <1>8, <1>9, Zenon DEF Next

(* What pushing does to the queue. *)
LEMMA PushQueue ==
    ASSUME TypeOK, Bounded, InOrder, receiverOpen, HasRoom, NEW size \in 0..MaxSize, Push(size)
    PROVE  /\ Bounded' /\ InOrder'
           /\ queue' # <<>>
           /\ HasRoom' => HasRoom
<1>1. [id |-> accepted + 1, size |-> size] \in Values
  BY DEF Values, TypeOK
<1>2. /\ Len(queue') = Len(queue) + 1
      /\ queue' # <<>>
      /\ \A i \in 1..Len(queue) : queue'[i] = queue[i]
      /\ queue'[Len(queue) + 1] = [id |-> accepted + 1, size |-> size]
  BY <1>1 DEF TypeOK, Push
<1>3. Len(queue) \in Nat
  BY DEF TypeOK
<1>4. Bounded'
  BY <1>2, <1>3, LimitsAssumption DEF Bounded, HasRoom, Push, TypeOK
<1>5. InOrder'
  <2>1. accepted' = delivered' + Len(queue')
    BY <1>2, <1>3 DEF InOrder, Push, TypeOK
  <2>2. ASSUME NEW i \in 1..Len(queue')
        PROVE  queue'[i].id = delivered' + i
    <3>1. CASE i = Len(queue) + 1
      BY <1>2, <1>3, <3>1 DEF InOrder, Push, TypeOK
    <3>2. CASE i \in 1..Len(queue)
      BY <1>2, <1>3, <3>2, Zenon DEF InOrder, Push, TypeOK
    <3>3. QED
      BY <1>2, <1>3, <3>1, <3>2
  <2>3. QED
    BY <2>1, <2>2, Zenon DEF InOrder
<1>6. QED
  BY <1>2, <1>4, <1>5, Zenon

(* What taking a value does to the queue. *)
LEMMA PopQueue ==
    ASSUME TypeOK, Bounded, InOrder, Pop
    PROVE  /\ Bounded' /\ InOrder'
           /\ HasRoom => HasRoom'
<1>1. /\ Head(queue) \in Values
      /\ Head(queue) = queue[1]
      /\ Len(queue') = Len(queue) - 1
      /\ \A i \in 1..Len(queue') : queue'[i] = queue[i + 1]
      /\ Len(queue) \in Nat \ {0}
  BY DEF TypeOK, Pop
<1>2. Head(queue).size \in Nat
  BY <1>1 DEF Values
<1>3. queuedBytes' =< queuedBytes /\ queuedBytes' \in Nat
  BY <1>2 DEF Pop, TypeOK
<1>4. Bounded' /\ (HasRoom => HasRoom')
  BY <1>1, <1>3, LimitsAssumption DEF Bounded, HasRoom, TypeOK
<1>5. InOrder'
  <2>1. delivered' = delivered + 1
    BY <1>1 DEF InOrder, Pop
  <2>2. ASSUME NEW i \in 1..Len(queue')
        PROVE  queue'[i].id = delivered' + i
    <3>1. i + 1 \in 1..Len(queue)
      BY <1>1
    <3>2. queue'[i] = queue[i + 1] /\ queue[i + 1].id = delivered + (i + 1)
      BY <1>1, <3>1, Zenon DEF InOrder
    <3>3. QED
      BY <2>1, <3>2 DEF TypeOK
  <2>3. receiverOpen' => accepted' = delivered' + Len(queue')
    BY <1>1, <2>1 DEF InOrder, Pop, TypeOK
  <2>4. QED
    BY <2>2, <2>3, Zenon DEF InOrder
<1>6. QED
  BY <1>4, <1>5, Zenon

-----------------------------------------------------------------------------
(* The queue's bounds and order are preserved: a push finds room, with a permit too. *)
LEMMA QueueStep ==
    ASSUME IInv, [Next]_vars
    PROVE  Bounded' /\ InOrder' /\ ClosedIsEmpty'
<1> USE LimitsAssumption DEF IInv
<1>1. ASSUME NEW size \in 0..MaxSize, Push(size), receiverOpen, HasRoom, UNCHANGED receiver
      PROVE  Bounded' /\ InOrder' /\ ClosedIsEmpty'
  <2>1. Bounded' /\ InOrder'
    BY <1>1, PushQueue, Zenon
  <2>2. ClosedIsEmpty'
    BY <1>1, Zenon DEF Push, ClosedIsEmpty
  <2>3. QED
    BY <2>1, <2>2, Zenon
<1>2. ASSUME Pop, receiver # "dropped"
      PROVE  Bounded' /\ InOrder' /\ ClosedIsEmpty'
  <2>1. Bounded' /\ InOrder'
    BY <1>2, PopQueue, Zenon
  <2>2. ClosedIsEmpty'
    BY <1>2, Zenon DEF Pop, ClosedIsEmpty
  <2>3. QED
    BY <2>1, <2>2, Zenon
<1>3. ASSUME UNCHANGED <<queue, queuedBytes, receiverOpen, accepted, delivered>>,
             receiver = "dropped" => receiver' = "dropped"
      PROVE  Bounded' /\ InOrder' /\ ClosedIsEmpty'
  BY <1>3, Zenon DEF Bounded, InOrder, ClosedIsEmpty
<1>4. CASE \E p \in Producers, size \in Sizes : TrySend(p, size) \/ StartSend(p, size)
  BY <1>1, <1>3, <1>4, Zenon DEF TrySend, StartSend, state
<1>5. ASSUME NEW p \in Producers, NEW size \in Sizes, PermitSend(p, size)
      PROVE  Bounded' /\ InOrder' /\ ClosedIsEmpty'
  BY <1>1, <1>3, <1>5, Zenon DEF PermitSend, PermitHasRoom, state
<1>6. ASSUME NEW p \in Producers, PollSend(p)
      PROVE  Bounded' /\ InOrder' /\ ClosedIsEmpty'
  <2>1. pending[p] \in 0..MaxSize
    BY Zenon DEF TypeOK
  <2>2. QED
    BY <1>1, <1>3, <1>6, <2>1, Zenon DEF PollSend, PollClosed, PollWaits, state
<1>7. CASE \E p \in Producers : StartReserve(p) \/ PollReserve(p) \/ Abandon(p) \/ DropSender(p)
  BY <1>3, <1>7, Zenon DEF StartReserve, PollReserve, PollClosed, PollWaits, Abandon, DropSender, state
<1>8. CASE \E p, q \in Producers : Clone(p, q)
  BY <1>3, <1>8, Zenon DEF Clone
<1>9. CASE StartRecv \/ PollRecv \/ TryRecv \/ AbandonRecv \/ \E t \in Tasks : Wake(t)
  BY <1>2, <1>3, <1>9, Zenon DEF StartRecv, PollRecv, TryRecv, AbandonRecv, Wake, state
<1>10. CASE DropReceiver
  <2>1. Len(queue') = 0 /\ queue' = <<>> /\ queuedBytes' = 0 /\ ~receiverOpen'
    BY <1>10, Zenon DEF DropReceiver
  <2>2. receiver' = "dropped"
    BY <1>10, Zenon DEF DropReceiver
  <2>3. QED
    BY <2>1, <2>2 DEF Bounded, InOrder, ClosedIsEmpty
<1>11. CASE UNCHANGED vars
  BY <1>3, <1>11, Zenon DEF vars, state
<1>12. QED
  BY <1>4, <1>5, <1>6, <1>7, <1>8, <1>9, <1>10, <1>11, Zenon DEF Next

-----------------------------------------------------------------------------
(* The producers' wakers: registered only when full, never forgotten, and all of them called once *)
(* there is room.                                                                                 *)
LEMMA ProducersStep ==
    ASSUME IInv, [Next]_vars
    PROVE  WakersOnlyWhenFull' /\ WaitersAreKnown' /\ PermitHasRoom'
<1> USE DEF IInv
<1> DEFINE Goal == WakersOnlyWhenFull' /\ WaitersAreKnown' /\ PermitHasRoom'
<1>1. ASSUME NEW size \in 0..MaxSize, Push(size), receiverOpen, HasRoom,
             \A q \in Producers : producer'[q] # "permit",
             \A q \in Producers : producer'[q] \in {"sending", "reserving"} =>
                 producer[q] \in {"sending", "reserving"} /\ (q \in woken => q \in woken')
      PROVE  Goal
  <2>1. senderWakers' = {}
    BY <1>1, Zenon DEF WakersOnlyWhenFull, Push
  <2>2. waking \subseteq waking' /\ senderWakers = {}
    BY <1>1, Zenon DEF WakersOnlyWhenFull, Push, TakeReceiverWaker
  <2>3. QED
    BY <1>1, <2>1, <2>2, Zenon DEF WakersOnlyWhenFull, WaitersAreKnown, PermitHasRoom
<1>2. ASSUME Pop, UNCHANGED producer, woken \cap Producers \subseteq woken'
      PROVE  Goal
  <2>1. HasRoom => HasRoom'
    BY <1>2, PopQueue, Zenon
  <2>2. /\ UNCHANGED receiverOpen
        /\ waking \cup senderWakers \subseteq waking' \cup senderWakers'
        /\ HasRoom' => senderWakers' = {}
        /\ senderWakers' \subseteq senderWakers
    BY <1>2, Zenon DEF Pop
  <2>3. QED
    BY <1>2, <2>1, <2>2, Zenon DEF WakersOnlyWhenFull, WaitersAreKnown, PermitHasRoom
<1>3. ASSUME UNCHANGED <<queue, queuedBytes, receiverOpen, senderWakers>>,
             \A q \in Producers : producer'[q] = "permit" => producer[q] = "permit",
             \A q \in Producers : producer'[q] \in {"sending", "reserving"} =>
                 \/ q \in woken'
                 \/ /\ producer[q] \in {"sending", "reserving"}
                    /\ q \in woken \cup waking => q \in woken' \cup waking'
      PROVE  Goal
  <2>1. HasRoom' = HasRoom
    BY <1>3, Zenon DEF HasRoom
  <2>2. WakersOnlyWhenFull'
    BY <1>3, <2>1, Zenon DEF WakersOnlyWhenFull
  <2>3. WaitersAreKnown'
    BY <1>3, Zenon DEF WaitersAreKnown
  <2>4. PermitHasRoom'
    BY <1>3, <2>1, Zenon DEF PermitHasRoom
  <2>5. QED
    BY <2>2, <2>3, <2>4, Zenon
<1>4. ASSUME NEW p \in Producers, NEW size \in Sizes, TrySend(p, size)
      PROVE  Goal
  <2>1. \A q \in Producers : producer[q] # "permit"
    BY <1>4, Zenon DEF TrySend, MayStart, ReservesAlone, Reserves, OnlyProducer, Holding
  <2>2. QED
    BY <1>1, <1>4, <2>1, LimitsAssumption, Zenon DEF TrySend
<1>5. ASSUME NEW p \in Producers, NEW size \in Sizes, StartSend(p, size)
      PROVE  Goal
  BY <1>3, <1>5, Zenon DEF StartSend, TypeOK, state
<1>6. ASSUME NEW p \in Producers, NEW size \in Sizes, PermitSend(p, size)
      PROVE  Goal
  <2>1. OnlyProducer(p)
    BY <1>6, Zenon DEF PermitSend, ReservesAlone, Reserves
  <2>2. \A q \in Producers : producer'[q] \in {"absent", "dropped", "idle"}
    BY <1>6, <2>1, Zenon DEF PermitSend, OnlyProducer, Holding, TypeOK
  <2>3. CASE receiverOpen
    BY <1>1, <1>6, <2>2, <2>3, LimitsAssumption, Zenon DEF PermitSend, PermitHasRoom
  <2>4. CASE ~receiverOpen
    BY <1>3, <1>6, <2>2, <2>4, Zenon DEF PermitSend, state
  <2>5. QED
    BY <2>3, <2>4, Zenon
<1>7. ASSUME NEW p \in Producers, PollClosed(p)
      PROVE  Goal
  BY <1>3, <1>7, Zenon DEF PollClosed, TypeOK, state
<1>8. ASSUME NEW p \in Producers, PollWaits(p)
      PROVE  Goal
  <2>1. HasRoom' = HasRoom
    BY <1>8, Zenon DEF PollWaits, HasRoom
  <2>2. QED
    BY <1>8, <2>1, Zenon DEF PollWaits, WakersOnlyWhenFull, WaitersAreKnown, PermitHasRoom
<1>9. ASSUME NEW p \in Producers, PollSend(p)
      PROVE  Goal
  <2>1. pending[p] \in 0..MaxSize
    BY Zenon DEF TypeOK
  <2>2. CASE /\ receiverOpen
             /\ HasRoom
             /\ Push(pending[p])
             /\ producer' = [producer EXCEPT ![p] = "idle"]
             /\ woken' = woken \ {p}
    <3>1. \A q \in Producers : producer[q] # "permit"
      BY <1>9, Zenon DEF PollSend, ReservesAlone, Reserves, OnlyProducer, Holding
    <3>2. QED
      BY <1>1, <2>1, <2>2, <3>1, Zenon DEF TypeOK
  <2>3. QED
    BY <1>7, <1>8, <1>9, <2>2, Zenon DEF PollSend
<1>10. ASSUME NEW p \in Producers, StartReserve(p)
       PROVE  Goal
  BY <1>3, <1>10, Zenon DEF StartReserve, TypeOK, state
<1>11. ASSUME NEW p \in Producers, PollReserve(p)
       PROVE  Goal
  <2>1. CASE /\ HasRoom
             /\ producer' = [producer EXCEPT ![p] = "permit"]
             /\ woken' = woken \ {p}
             /\ UNCHANGED <<state, waking, pending, receiver, accepted, delivered>>
    <3>1. HasRoom' = HasRoom
      BY <2>1, Zenon DEF HasRoom, state
    <3>2. QED
      BY <2>1, <3>1, Zenon DEF WakersOnlyWhenFull, WaitersAreKnown, PermitHasRoom, TypeOK, state
  <2>2. QED
    BY <1>7, <1>8, <1>11, <2>1, Zenon DEF PollReserve
<1>12. ASSUME NEW p \in Producers, Abandon(p)
       PROVE  Goal
  BY <1>3, <1>12, Zenon DEF Abandon, TypeOK, state
<1>13. ASSUME NEW p \in Producers, DropSender(p)
       PROVE  Goal
  BY <1>3, <1>13, Zenon DEF DropSender, TakeReceiverWaker, TypeOK
<1>14. ASSUME NEW p \in Producers, NEW q \in Producers, Clone(p, q)
       PROVE  Goal
  BY <1>3, <1>14, Zenon DEF Clone, TypeOK
<1>15. CASE StartRecv \/ AbandonRecv \/ \E t \in Tasks : Wake(t)
  BY <1>3, <1>15, TasksAssumption, Zenon DEF StartRecv, AbandonRecv, Wake, state
<1>16. CASE PollRecv \/ TryRecv
  BY <1>2, <1>3, <1>16, TasksAssumption, Zenon DEF PollRecv, TryRecv, state
<1>17. CASE DropReceiver
  BY <1>17, Zenon DEF DropReceiver, WakersOnlyWhenFull, WaitersAreKnown, PermitHasRoom
<1>18. CASE UNCHANGED vars
  BY <1>3, <1>18, Zenon DEF vars, state
<1>19. QED
  BY <1>4, <1>5, <1>6, <1>9, <1>10, <1>11, <1>12, <1>13, <1>14, <1>15, <1>16, <1>17, <1>18, Zenon DEF Next

(* The receiver's waker: registered only when nothing is queued, taken by whoever ends that. *)
LEMMA ReceiverStep ==
    ASSUME IInv, [Next]_vars
    PROVE  WakerOnlyWhenEmpty' /\ ReceiverIsKnown'
<1> USE DEF IInv
<1> DEFINE Goal == WakerOnlyWhenEmpty' /\ ReceiverIsKnown'
<1>1. ASSUME TakeReceiverWaker, UNCHANGED receiver, woken \ Producers \subseteq woken'
      PROVE  Goal
  BY <1>1, TasksAssumption, Zenon DEF TakeReceiverWaker, WakerOnlyWhenEmpty, ReceiverIsKnown
<1>2. ASSUME UNCHANGED <<queue, senders, receiverWaker>>,
             receiver' = "receiving" =>
                 \/ Receiver \in woken'
                 \/ /\ receiver = "receiving"
                    /\ Receiver \in woken \cup waking => Receiver \in woken' \cup waking'
      PROVE  Goal
  BY <1>2, Zenon DEF WakerOnlyWhenEmpty, ReceiverIsKnown
<1>3. ASSUME Pop, receiver' # "receiving"
      PROVE  Goal
  BY <1>3, Zenon DEF Pop, WakerOnlyWhenEmpty, ReceiverIsKnown
<1>4. ASSUME NEW p \in Producers, NEW size \in Sizes,
             TrySend(p, size) \/ StartSend(p, size) \/ PermitSend(p, size)
      PROVE  Goal
  BY <1>1, <1>2, <1>4, Zenon DEF TrySend, StartSend, PermitSend, Push, state
<1>5. ASSUME NEW p \in Producers, PollSend(p) \/ PollReserve(p) \/ StartReserve(p) \/ Abandon(p)
      PROVE  Goal
  BY <1>1, <1>2, <1>5, TasksAssumption, Zenon
     DEF PollSend, PollReserve, PollClosed, PollWaits, StartReserve, Abandon, Push, state
<1>6. ASSUME NEW p \in Producers, DropSender(p)
      PROVE  Goal
  <2>1. CASE senders = 1
    BY <1>1, <1>6, <2>1, Zenon DEF DropSender
  <2>2. CASE senders # 1
    BY <1>6, <2>2 DEF DropSender, WakerOnlyWhenEmpty, ReceiverIsKnown, TypeOK
  <2>3. QED
    BY <2>1, <2>2, Zenon
<1>7. ASSUME NEW p \in Producers, NEW q \in Producers, Clone(p, q)
      PROVE  Goal
  BY <1>7 DEF Clone, WakerOnlyWhenEmpty, ReceiverIsKnown, TypeOK
<1>8. CASE StartRecv \/ AbandonRecv \/ \E t \in Tasks : Wake(t)
  BY <1>2, <1>8, Zenon DEF StartRecv, AbandonRecv, Wake, state
<1>9. CASE PollRecv
  BY <1>2, <1>3, <1>9, Zenon DEF PollRecv, WakerOnlyWhenEmpty, ReceiverIsKnown, state
<1>10. CASE TryRecv
  BY <1>3, <1>10, Zenon DEF TryRecv
<1>11. CASE DropReceiver
  BY <1>11, Zenon DEF DropReceiver, WakerOnlyWhenEmpty, ReceiverIsKnown
<1>12. CASE UNCHANGED vars
  BY <1>2, <1>12, Zenon DEF vars, state
<1>13. QED
  BY <1>4, <1>5, <1>6, <1>7, <1>8, <1>9, <1>10, <1>11, <1>12, Zenon DEF Next

(* The end is final: without a sender nobody clones one. *)
LEMMA EndStep ==
    ASSUME IInv, SendersKnown, [Next]_vars
    PROVE  EndIsFinal'
<1> USE DEF IInv, EndIsFinal
<1>1. ASSUME NEW p \in Producers, Holding(p), UNCHANGED receiver
      PROVE  EndIsFinal'
  BY <1>1 DEF SendersKnown
<1>2. CASE \E p \in Producers, size \in Sizes :
             TrySend(p, size) \/ StartSend(p, size) \/ PermitSend(p, size)
  BY <1>1, <1>2, Zenon DEF TrySend, StartSend, PermitSend, MayStart, Holding
<1>3. CASE \E p \in Producers : PollSend(p) \/ StartReserve(p) \/ PollReserve(p)
  BY <1>1, <1>3, Zenon DEF PollSend, StartReserve, PollReserve, PollClosed, PollWaits, MayStart, Holding
<1>4. CASE \E p \in Producers : Abandon(p) \/ DropSender(p)
  BY <1>1, <1>4, Zenon DEF Abandon, DropSender, Holding
<1>5. CASE \E p, q \in Producers : Clone(p, q)
  BY <1>1, <1>5, Zenon DEF Clone
<1>6. CASE StartRecv \/ PollRecv \/ TryRecv \/ AbandonRecv \/ DropReceiver
  BY <1>6, Zenon DEF StartRecv, PollRecv, TryRecv, AbandonRecv, DropReceiver, Pop, state
<1>7. CASE (\E t \in Tasks : Wake(t)) \/ UNCHANGED vars
  BY <1>7, Zenon DEF Wake, vars, state
<1>8. QED
  BY <1>2, <1>3, <1>4, <1>5, <1>6, <1>7, Zenon DEF Next

-----------------------------------------------------------------------------
(* A fresh channel satisfies the inductive invariant. *)
LEMMA InitIInv ==
    ASSUME SizeFacts, Init
    PROVE  IInv
<1>1. PICK p \in Producers : producer = [q \in Producers |-> IF q = p THEN "idle" ELSE "absent"]
  BY Zenon DEF Init
<1>2. SendersCounted
  <2>1. Holders = {p}
    BY <1>1, Zenon DEF Holders, Holding
  <2>2. QED
    BY <2>1, Zenon DEF SizeFacts, SendersCounted, Init
<1>3. TypeOK
  <2>1. queue \in Seq(Values)
    BY DEF Init
  <2>2. producer \in [Producers -> ProducerStates]
    BY <1>1, Zenon DEF ProducerStates
  <2>3. pending \in [Producers -> 0..MaxSize]
    BY LimitsAssumption DEF Init
  <2>4. receiverOpen \in BOOLEAN /\ receiverWaker \in BOOLEAN
    BY Zenon DEF Init
  <2>5. QED
    BY <2>1, <2>2, <2>3, <2>4, Zenon DEF Init, TypeOK, ReceiverStates
<1>4. Len(queue) = 0
  BY Zenon DEF Init
<1>5. QED
  BY <1>1, <1>2, <1>3, <1>4, LimitsAssumption
     DEF IInv, Init, WakersOnlyWhenFull, WaitersAreKnown, WakerOnlyWhenEmpty, ReceiverIsKnown,
         ReservesAlone, Reserves, PermitHasRoom, ClosedIsEmpty, Bounded, InOrder, EndIsFinal

(* Every step preserves the inductive invariant. *)
LEMMA NextIInv ==
    ASSUME SizeFacts, IInv, [Next]_vars
    PROVE  IInv'
<1> SendersKnown
  BY HoldersFinite, Zenon DEF IInv
<1>1. SendersCounted'
  BY CloneCounted, DropCounted, HoldersUnchanged, Zenon DEF IInv
<1>2. TypeOK'
  BY TypeStep, Zenon DEF IInv
<1>3. ReservesAlone'
  BY ReservesStep, Zenon DEF IInv
<1>4. QED
  BY <1>1, <1>2, <1>3, QueueStep, ProducersStep, ReceiverStep, EndStep, Zenon DEF IInv

-----------------------------------------------------------------------------
(* A push below the limits, by somebody who holds a sender, is a Put. *)
LEMMA PushPuts ==
    ASSUME IInv, SendersKnown, NEW p \in Producers, Holding(p), NEW size \in 0..MaxSize, Push(size),
           receiverOpen, HasRoom, UNCHANGED receiver
    PROVE  Fifo!Next
<1>1. senders # 0 /\ Consumer = "reading" /\ UNCHANGED Consumer
  BY DEF SendersKnown, IInv, EndIsFinal, Consumer, Push
<1>2. Fifo!Put(size)
  BY <1>1, Zenon DEF Push, HasRoom, Fifo!Put
<1>3. QED
  BY <1>2, Zenon DEF Fifo!Next

(* Taking a value is a Take. *)
LEMMA PopTakes ==
    ASSUME IInv, Pop, receiver \in {"idle", "receiving"}, receiver' \in {"idle", "receiving"}
    PROVE  Fifo!Next
<1>1. Consumer = "reading" /\ UNCHANGED Consumer
  BY Zenon DEF IInv, ClosedIsEmpty, Consumer, Pop
<1>2. Fifo!Take
  BY <1>1, Zenon DEF Pop, Fifo!Take
<1>3. QED
  BY <1>2, Zenon DEF Fifo!Next

(* Every step of the queue is a step of the bounded FIFO, or leaves it alone. *)
LEMMA FifoStep ==
    ASSUME IInv, SendersKnown, [Next]_vars
    PROVE  [Fifo!Next]_Fifo!fifo
<1> USE LimitsAssumption
<1>1. ASSUME UNCHANGED <<queue, queuedBytes, accepted, delivered, receiverOpen>>,
             (senders' # 0) = (senders # 0), receiver' = "ended" <=> receiver = "ended"
      PROVE  UNCHANGED Fifo!fifo
  BY <1>1, Zenon DEF Fifo!fifo, Consumer
<1>2. ASSUME NEW p \in Producers, NEW size \in Sizes,
             TrySend(p, size) \/ StartSend(p, size) \/ PermitSend(p, size)
      PROVE  [Fifo!Next]_Fifo!fifo
  <2>1. CASE TrySend(p, size)
    BY <2>1, PushPuts, Zenon DEF TrySend, MayStart, Holding
  <2>2. CASE StartSend(p, size)
    BY <1>1, <2>2, Zenon DEF StartSend, state
  <2>3. CASE PermitSend(p, size) /\ receiverOpen
    BY <2>3, PushPuts, Zenon DEF PermitSend, IInv, PermitHasRoom, Holding
  <2>4. CASE PermitSend(p, size) /\ ~receiverOpen
    BY <1>1, <2>4, Zenon DEF PermitSend, state
  <2>5. QED
    BY <1>2, <2>1, <2>2, <2>3, <2>4, Zenon
<1>3. ASSUME NEW p \in Producers, PollSend(p) \/ StartReserve(p) \/ PollReserve(p) \/ Abandon(p)
      PROVE  [Fifo!Next]_Fifo!fifo
  <2>1. pending[p] \in 0..MaxSize
    BY Zenon DEF IInv, TypeOK
  <2>2. CASE PollSend(p) /\ Push(pending[p]) /\ receiverOpen /\ HasRoom /\ UNCHANGED receiver
    BY <2>1, <2>2, PushPuts, Zenon DEF PollSend, Holding
  <2>3. CASE UNCHANGED <<queue, queuedBytes, accepted, delivered, receiverOpen, senders, receiver>>
    BY <1>1, <2>3, Zenon
  <2>4. QED
    BY <1>3, <2>2, <2>3, Zenon
       DEF PollSend, StartReserve, PollReserve, PollClosed, PollWaits, Abandon, state
<1>4. ASSUME NEW p \in Producers, DropSender(p)
      PROVE  [Fifo!Next]_Fifo!fifo
  <2>1. senders \in Nat /\ senders > 0
    BY <1>4, Zenon DEF SendersKnown, DropSender, Holding
  <2>2. CASE senders = 1
    <3>1. Fifo!Finish
      BY <1>4, <2>2 DEF DropSender, Fifo!Finish, Consumer
    <3>2. QED
      BY <3>1, Zenon DEF Fifo!Next
  <2>3. CASE senders # 1
    BY <1>1, <1>4, <2>1, <2>3 DEF DropSender
  <2>4. QED
    BY <2>2, <2>3, Zenon
<1>5. ASSUME NEW p \in Producers, NEW q \in Producers, Clone(p, q)
      PROVE  [Fifo!Next]_Fifo!fifo
  BY <1>1, <1>5 DEF SendersKnown, IInv, Clone
<1>6. CASE StartRecv \/ AbandonRecv \/ (\E t \in Tasks : Wake(t)) \/ UNCHANGED vars
  BY <1>1, <1>6, Zenon DEF StartRecv, AbandonRecv, Wake, vars, state
<1>7. CASE PollRecv
  <2>1. CASE Pop /\ receiver' = "idle"
    BY <1>7, <2>1, PopTakes, Zenon DEF PollRecv
  <2>2. CASE queue = <<>> /\ senders = 0 /\ receiver' = "ended"
             /\ UNCHANGED <<state, waking, accepted, delivered>>
    <3>1. Fifo!End
      BY <1>7, <2>2, Zenon DEF PollRecv, IInv, ClosedIsEmpty, Fifo!End, Consumer, state
    <3>2. QED
      BY <3>1, Zenon DEF Fifo!Next
  <2>3. CASE UNCHANGED <<queue, queuedBytes, senders, receiverOpen, receiver, accepted, delivered>>
    BY <1>1, <2>3, Zenon
  <2>4. QED
    BY <1>7, <2>1, <2>2, <2>3, Zenon DEF PollRecv
<1>8. CASE TryRecv
  BY <1>8, PopTakes, Zenon DEF TryRecv
<1>9. CASE DropReceiver
  <2>1. Fifo!Leave
    BY <1>9, Zenon DEF DropReceiver, IInv, ClosedIsEmpty, Fifo!Leave, Consumer
  <2>2. QED
    BY <2>1, Zenon DEF Fifo!Next
<1>10. QED
  BY <1>2, <1>3, <1>4, <1>5, <1>6, <1>7, <1>8, <1>9, Zenon DEF Next

-----------------------------------------------------------------------------
(* ConnectionMetadata. *)

(* b was stored after every time that a was. *)
Later(s, a, b) == \E k \in DOMAIN s : s[k] = b /\ \A l \in DOMAIN s : s[l] = a => l < k

(* What a connection holds of the sets that were stored: the last ones in their order, and a set   *)
(* it does not hold any more was stored before each of them, of which there are MaxSets then.      *)
HeldInv(held, s) ==
    /\ held \in Seq(Nat) /\ s \in Seq(Nat) /\ Len(held) <= MaxSets
    /\ \A i, j \in DOMAIN held : i < j => Later(s, held[i], held[j])
    /\ \A id \in Range(s) \ Range(held) :
           Len(held) = MaxSets /\ \A j \in DOMAIN held : Later(s, id, held[j])

(* Types, and what is confirmed, or referred to, was stored on that connection. *)
SetRequests == [on : Connections, id : Nat, offered : BOOLEAN]
SetTypes ==
    /\ current \in Nat /\ ids \in Nat /\ setting \subseteq Nat
    /\ confirmed \in [Connections -> Nat]
    /\ call \in [Calls -> {"new", "sent", "served", "failed", "answered", "done"}]
    /\ request \in [Calls -> SetRequests]
    /\ reply \in [Calls -> Nat] /\ merged \in [Calls -> Nat]
    /\ sets \in [Connections -> Seq(Nat)] /\ stored \in [Connections -> Seq(Nat)]
Known(n, id) == id # 0 => n \in Keeping /\ id \in Range(stored[n])
KnownInv ==
    /\ \A n \in Connections : Known(n, confirmed[n])
    /\ \A c \in Calls : Known(request[c].on, reply[c])
    /\ \A c \in Calls : call[c] = "sent" /\ ~request[c].offered => Known(request[c].on, request[c].id)
SetsKept == \A n \in Connections : HeldInv(sets[n], stored[n])
CallSetsInv == SetTypes /\ KnownInv /\ SetsKept /\ SeesItsSet

-----------------------------------------------------------------------------
(* The store of one connection. *)

(* Storing x comes after whatever is not x, and changes nothing else. *)
LEMMA LaterOfAppend ==
    ASSUME NEW s \in Seq(Nat), NEW x \in Nat, NEW a, a # x
    PROVE  /\ Later(Append(s, x), a, x)
           /\ \A b : Later(s, a, b) => Later(Append(s, x), a, b)
<1> DEFINE longer == Append(s, x)
           n == Len(s) + 1
<1>1. /\ n \in Nat /\ DOMAIN s = 1..(n - 1) /\ DOMAIN longer = 1..n
      /\ longer[n] = x /\ \A i \in 1..(n - 1) : longer[i] = s[i]
  OBVIOUS
<1>2. n \in 1..n /\ \A l \in 1..n : l # n => l \in 1..(n - 1) /\ l < n
  OBVIOUS
<1>3. \A l \in 1..(n - 1) : l \in 1..n
  OBVIOUS
<1> HIDE DEF longer, n
<1>4. Later(longer, a, x)
  BY <1>1, <1>2, Zenon DEF Later
<1>5. ASSUME NEW b, Later(s, a, b) PROVE Later(longer, a, b)
  <2>1. PICK k \in DOMAIN s : s[k] = b /\ \A l \in DOMAIN s : s[l] = a => l < k
    BY <1>5, Zenon DEF Later
  <2>2. k \in DOMAIN longer /\ longer[k] = b
    BY <1>1, <1>3, <2>1, Zenon
  <2>3. ASSUME NEW l \in DOMAIN longer, longer[l] = a PROVE l < k
    BY <1>1, <1>2, <2>1, <2>3, Zenon
  <2> QED
    BY <2>2, <2>3, Zenon DEF Later
<1> QED
  BY <1>4, <1>5, Zenon DEF longer

(* The other sets that are held, in their order. *)
LEMMA OthersKept ==
    ASSUME NEW held \in Seq(Nat), NEW x \in Nat,
           \A i, j \in DOMAIN held : held[i] = x /\ held[j] = x => i = j
    PROVE  LET others == Others(held, x)
           IN  /\ others \in Seq(Nat)
               /\ Len(others) = IF x \in Range(held) THEN Len(held) - 1 ELSE Len(held)
               /\ \A i \in DOMAIN others : others[i] # x /\ others[i] \in Range(held)
               /\ \A y \in Range(held) : y # x => y \in Range(others)
               /\ \A i, j \in DOMAIN others : i < j =>
                      \E k, l \in DOMAIN held : k < l /\ others[i] = held[k] /\ others[j] = held[l]
<1> DEFINE others == Others(held, x)
<1>1. CASE x \notin Range(held)
  <2>1. others = held
    BY <1>1, Zenon DEF Others
  <2>2. \A i \in DOMAIN held : held[i] \in Range(held)
    BY Zenon DEF Range
  <2> HIDE DEF others
  <2>3. \A i \in DOMAIN others : others[i] # x /\ others[i] \in Range(held)
    BY <1>1, <2>1, <2>2, Zenon
  <2>4. \A i, j \in DOMAIN others : i < j =>
            \E k, l \in DOMAIN held : k < l /\ others[i] = held[k] /\ others[j] = held[l]
    BY <2>1, Zenon
  <2> QED
    BY <1>1, <2>1, <2>3, <2>4, Zenon DEF others
<1>2. CASE x \in Range(held)
  <2> DEFINE at == CHOOSE i \in DOMAIN held : held[i] = x
             n == Len(held)
  <2>1. at \in DOMAIN held /\ held[at] = x
    BY <1>2, Zenon DEF Range
  <2>2. others = [i \in 1..(n - 1) |-> IF i < at THEN held[i] ELSE held[i + 1]]
    BY <1>2, Zenon DEF Others
  <2>3. n \in Nat /\ DOMAIN held = 1..n /\ \A i \in 1..n : held[i] \in Nat
    OBVIOUS
  <2> HIDE DEF at, others, n
  <2>4. n - 1 \in Nat /\ at \in 1..n
    BY <2>1, <2>3
  <2>5. DOMAIN others = 1..(n - 1) /\ \A i \in 1..(n - 1) :
            others[i] = held[IF i < at THEN i ELSE i + 1]
    BY <2>2, Zenon
  <2>6. \A i \in 1..(n - 1) : (IF i < at THEN i ELSE i + 1) \in 1..n /\ (IF i < at THEN i ELSE i + 1) # at
    BY <2>3, <2>4
  <2>7. others \in Seq(Nat) /\ Len(others) = n - 1
    <3>1. \A i \in 1..(n - 1) : others[i] \in Nat
      BY <2>3, <2>5, <2>6, Zenon
    <3>2. others \in [1..(n - 1) -> Nat]
      BY <2>2, <3>1, <2>5, Zenon
    <3> QED
      BY <2>4, <3>2
  <2>8. ASSUME NEW i \in DOMAIN others PROVE others[i] # x /\ others[i] \in Range(held)
    BY <2>1, <2>3, <2>5, <2>6, <2>8, Zenon DEF Range
  <2>9. ASSUME NEW y \in Range(held), y # x PROVE y \in Range(others)
    <3>1. PICK k \in DOMAIN held : held[k] = y
      BY <2>9, Zenon DEF Range
    <3>2. k \in 1..n /\ k # at
      BY <2>1, <2>3, <2>9, <3>1, Zenon
    <3>3. PICK i \in 1..(n - 1) : k = IF i < at THEN i ELSE i + 1
      <4>1. CASE k < at
        BY <2>3, <2>4, <3>2, <4>1
      <4>2. CASE k > at
        <5>1. k - 1 \in 1..(n - 1) /\ ~(k - 1 < at) /\ (k - 1) + 1 = k
          BY <2>3, <2>4, <3>2, <4>2
        <5> QED
          BY <5>1, Zenon
      <4> QED
        BY <2>3, <2>4, <3>2, <4>1, <4>2
    <3> QED
      BY <2>5, <3>1, <3>3, Zenon DEF Range
  <2>10. ASSUME NEW i \in DOMAIN others, NEW j \in DOMAIN others, i < j
         PROVE  \E k, l \in DOMAIN held : k < l /\ others[i] = held[k] /\ others[j] = held[l]
    <3>1. i \in 1..(n - 1) /\ j \in 1..(n - 1)
      BY <2>5, <2>10, Zenon
    <3>2. PICK k, l : k = (IF i < at THEN i ELSE i + 1) /\ l = (IF j < at THEN j ELSE j + 1)
      BY Zenon
    <3>3. k < l
      <4>1. i \in Nat /\ j \in Nat /\ at \in Nat /\ i < j
        BY <2>4, <2>10, <3>1
      <4> QED
        BY <3>2, <4>1
    <3>4. k \in DOMAIN held /\ l \in DOMAIN held /\ others[i] = held[k] /\ others[j] = held[l]
      BY <2>3, <2>5, <2>6, <3>1, <3>2, Zenon
    <3> QED
      BY <3>3, <3>4, Zenon
  <2> QED
    BY <1>2, <2>7, <2>8, <2>9, <2>10, Zenon DEF n, others
<1> QED
  BY <1>1, <1>2, Zenon

(* What is held is held once. *)
LEMMA HeldOnce ==
    ASSUME NEW held, NEW s, HeldInv(held, s)
    PROVE  \A i, j \in DOMAIN held : held[i] = held[j] => i = j
<1>1. held \in Seq(Nat) /\ s \in Seq(Nat) /\ \A i, j \in DOMAIN held : i < j => Later(s, held[i], held[j])
  BY Zenon DEF HeldInv
<1>2. ASSUME NEW a PROVE ~Later(s, a, a)
  BY <1>1 DEF Later
<1>3. ASSUME NEW i \in DOMAIN held, NEW j \in DOMAIN held, i < j PROVE held[i] # held[j]
  BY <1>1, <1>2, <1>3, Zenon
<1>4. ASSUME NEW i \in DOMAIN held, NEW j \in DOMAIN held, i # j PROVE i < j \/ j < i
  BY <1>1, <1>4
<1> QED
  BY <1>3, <1>4, Zenon

(* store keeps the last sets, each once. *)
LEMMA StoreKeeps ==
    ASSUME MaxSets \in Nat \ {0}, NEW held, NEW s, HeldInv(held, s), NEW x \in Nat
    PROVE  HeldInv(Stored(held, x), Append(s, x))
<1> DEFINE others == Others(held, x)
           cut == IF Len(others) = MaxSets THEN Tail(others) ELSE others
           now == Append(cut, x)
           longer == Append(s, x)
<1>1. /\ held \in Seq(Nat) /\ s \in Seq(Nat) /\ Len(held) <= MaxSets
      /\ \A i, j \in DOMAIN held : i < j => Later(s, held[i], held[j])
      /\ \A id \in Range(s) \ Range(held) :
             Len(held) = MaxSets /\ \A j \in DOMAIN held : Later(s, id, held[j])
  BY Zenon DEF HeldInv
<1>2. /\ others \in Seq(Nat)
      /\ Len(others) = IF x \in Range(held) THEN Len(held) - 1 ELSE Len(held)
      /\ \A i \in DOMAIN others : others[i] # x /\ others[i] \in Range(held)
      /\ \A y \in Range(held) : y # x => y \in Range(others)
      /\ \A i, j \in DOMAIN others : i < j =>
             \E k, l \in DOMAIN held : k < l /\ others[i] = held[k] /\ others[j] = held[l]
  <2>1. \A i, j \in DOMAIN held : held[i] = x /\ held[j] = x => i = j
    BY HeldOnce, Zenon
  <2> QED
    <3>1. held \in Seq(Nat)
      BY <1>1, Zenon
    <3> QED
      BY <2>1, <3>1, OthersKept
<1> HIDE DEF others
<1>3. /\ \A i, j \in DOMAIN others : i < j => Later(s, others[i], others[j])
      /\ \A y \in Range(held) : y # x => \E i \in DOMAIN others : others[i] = y
  <2>1. ASSUME NEW i \in DOMAIN others, NEW j \in DOMAIN others, i < j PROVE Later(s, others[i], others[j])
    <3>1. PICK k \in DOMAIN held, l \in DOMAIN held :
              k < l /\ others[i] = held[k] /\ others[j] = held[l]
      BY <1>2, <2>1, Zenon
    <3>2. Later(s, held[k], held[l])
      BY <1>1, <3>1, Zenon
    <3> QED
      BY <3>1, <3>2, Zenon
  <2>2. ASSUME NEW y \in Range(held), y # x PROVE \E i \in DOMAIN others : others[i] = y
    BY <1>2, <2>2, ZenonT(30) DEF Range
  <2> QED
    BY <2>1, <2>2, Zenon
(* What is cut off is the first of them. *)
<1>4. PICK d \in 0..1 : /\ cut \in Seq(Nat) /\ Len(cut) = Len(others) - d /\ Len(cut) < MaxSets
                        /\ \A i \in DOMAIN cut : i + d \in DOMAIN others /\ cut[i] = others[i + d]
                        /\ d = 1 => Len(others) = MaxSets
  <2>1. CASE Len(others) = MaxSets
    <3>1. cut = Tail(others) /\ Len(others) \in Nat /\ Len(others) > 0
      BY <1>2, <2>1
    <3>2. PICK r : r = Tail(others)
      BY Zenon
    <3>3. r \in Seq(Nat)
      BY <1>2, <3>1, <3>2
    <3>4. Len(r) = Len(others) - 1
      BY <1>2, <3>1, <3>2
    <3>5. \A i \in 1..Len(r) : r[i] = others[i + 1]
      BY <1>2, <3>1, <3>2
    <3>6. \A i \in DOMAIN r : i + 1 \in DOMAIN others /\ r[i] = others[i + 1]
      <4>1. DOMAIN r = 1..Len(r) /\ DOMAIN others = 1..Len(others)
        BY <1>2, <3>3
      <4>2. \A i \in 1..Len(r) : i + 1 \in 1..Len(others)
        BY <3>1, <3>4
      <4> QED
        BY <3>5, <4>1, <4>2, Zenon
    <3>7. Len(r) < MaxSets
      BY <2>1, <3>1, <3>4
    <3>8. cut = r /\ 1 \in 0..1
      BY <3>1, <3>2
    <3> QED
      BY <2>1, <3>3, <3>4, <3>6, <3>7, <3>8, Zenon
  <2>2. CASE Len(others) # MaxSets
    <3>1. cut = others
      BY <2>2, Zenon
    <3>2. Len(others) \in Nat /\ Len(others) < MaxSets /\ Len(others) = Len(others) - 0
      BY <1>1, <1>2, <2>2, SMTT(30)
    <3>3. \A i \in DOMAIN others : i + 0 = i
      BY <1>2
    <3>4. 0 \in 0..1 /\ 0 # 1
      OBVIOUS
    <3> QED
      BY <1>2, <3>1, <3>2, <3>3, <3>4, Zenon
  <2> QED
    BY <2>1, <2>2, Zenon
<1> HIDE DEF cut
<1>5. /\ \A i \in DOMAIN cut : cut[i] # x /\ cut[i] \in Range(held) /\ cut[i] \in Nat
      /\ \A i, j \in DOMAIN cut : i < j => Later(s, cut[i], cut[j])
  <2>1. ASSUME NEW i \in DOMAIN cut PROVE cut[i] # x /\ cut[i] \in Range(held) /\ cut[i] \in Nat
    <3>1. cut[i] # x /\ cut[i] \in Range(held)
      BY <1>2, <1>4, <2>1, ZenonT(30)
    <3>2. cut[i] \in Nat
      BY <1>4, <2>1, SMTT(30)
    <3> QED
      BY <3>1, <3>2, Zenon
  <2>2. ASSUME NEW i \in DOMAIN cut, NEW j \in DOMAIN cut, i < j PROVE Later(s, cut[i], cut[j])
    <3>1. i + d < j + d
      BY <1>4, <2>2, SMTT(30)
    <3> QED
      BY <1>3, <1>4, <2>2, <3>1, Zenon
  <2> QED
    BY <2>1, <2>2, Zenon
<1> DEFINE n == Len(cut) + 1
<1>6. /\ n \in Nat /\ DOMAIN cut = 1..(n - 1) /\ DOMAIN now = 1..n /\ Len(now) = n /\ n <= MaxSets
      /\ now \in Seq(Nat) /\ now[n] = x /\ \A i \in 1..(n - 1) : now[i] = cut[i]
  BY <1>4
<1>7. /\ n \in 1..n /\ \A i \in 1..n : i = n \/ i \in 1..(n - 1)
      /\ \A i \in 1..(n - 1) : i \in 1..n /\ ~(n < i)
  BY <1>4, SMTT(30)
<1>8. ASSUME NEW a, a # x
      PROVE  /\ Later(longer, a, x)
             /\ \A b : Later(s, a, b) => Later(longer, a, b)
  BY <1>1, <1>8, LaterOfAppend, Zenon
<1>9. /\ longer \in Seq(Nat) /\ Range(longer) = Range(s) \cup {x}
  <2>1. /\ longer \in Seq(Nat) /\ Len(s) \in Nat /\ DOMAIN longer = 1..(Len(s) + 1) /\ DOMAIN s = 1..Len(s)
        /\ longer[Len(s) + 1] = x /\ \A i \in 1..Len(s) : longer[i] = s[i]
    BY <1>1
  <2>2. 1..(Len(s) + 1) = 1..Len(s) \cup {Len(s) + 1}
    BY <2>1
  <2> HIDE DEF longer
  <2>3. ASSUME NEW y \in Range(longer) PROVE y \in Range(s) \cup {x}
    BY <2>1, <2>2, <2>3, Zenon DEF Range
  <2>4. ASSUME NEW y \in Range(s) \cup {x} PROVE y \in Range(longer)
    BY <2>1, <2>2, <2>4, Zenon DEF Range
  <2> QED
    BY <2>1, <2>3, <2>4, Zenon
<1> HIDE DEF now, n, longer
<1>10. ASSUME NEW i \in DOMAIN now, NEW j \in DOMAIN now, i < j PROVE Later(longer, now[i], now[j])
  <2>1. i \in 1..(n - 1) /\ now[i] = cut[i] /\ cut[i] # x
    <3>1. i # n
      BY <1>6, <1>7, <1>10
    <3> QED
      BY <1>5, <1>6, <1>7, <3>1, <1>10, Zenon
  <2>2. CASE j = n
    BY <1>6, <1>8, <2>1, <2>2, Zenon
  <2>3. CASE j # n
    <3>1. j \in 1..(n - 1) /\ now[j] = cut[j]
      BY <1>6, <1>7, <1>10, <2>3, Zenon
    <3> QED
      BY <1>5, <1>6, <1>8, <1>10, <2>1, <3>1, Zenon
  <2> QED
    BY <2>2, <2>3, Zenon
<1>11. ASSUME NEW id \in Range(longer) \ Range(now)
       PROVE  Len(now) = MaxSets /\ \A j \in DOMAIN now : Later(longer, id, now[j])
  <2>1. id # x /\ id \in Range(s) /\ \A i \in DOMAIN cut : cut[i] # id
    <3>1. x \in Range(now)
      BY <1>6, <1>7, Zenon DEF Range
    <3>2. \A i \in DOMAIN cut : cut[i] \in Range(now)
      BY <1>6, <1>7, Zenon DEF Range
    <3> QED
      BY <1>9, <1>11, <3>1, <3>2, Zenon
  <2>2. n = MaxSets /\ \A j \in DOMAIN cut : Later(s, id, cut[j])
    <3>1. CASE id \notin Range(held)
      <4>1. Len(held) = MaxSets /\ \A j \in DOMAIN held : Later(s, id, held[j])
        BY <1>1, <2>1, <3>1, Zenon
      <4>2. \A j \in DOMAIN cut : \E k \in DOMAIN held : cut[j] = held[k]
        BY <1>5, Zenon DEF Range
      <4>3. n = MaxSets
        BY <1>1, <1>2, <1>4, <4>1 DEF n, cut
      <4> QED
        BY <4>1, <4>2, <4>3, Zenon
    <3>2. CASE id \in Range(held)
      <4>1. PICK p \in DOMAIN others : others[p] = id
        BY <1>3, <2>1, <3>2, Zenon
      <4>2. d = 1 /\ p = 1
        <5>1. ~(p - d \in DOMAIN cut)
          <6>1. (p - d) + d = p
            BY <1>2, <1>4, <4>1
          <6> QED
            BY <1>4, <2>1, <4>1, <6>1, Zenon
        <5>2. p \in 1..Len(others) /\ Len(others) \in Nat /\ DOMAIN cut = 1..Len(cut)
              /\ Len(cut) = Len(others) - d
          <6>1. DOMAIN others = 1..Len(others) /\ Len(others) \in Nat
            BY <1>2
          <6>2. DOMAIN cut = 1..Len(cut) /\ Len(cut) = Len(others) - d
            BY <1>4
          <6> QED
            BY <4>1, <6>1, <6>2, Zenon
        <5>3. ~(p - d \in 1..(Len(others) - d))
          BY <5>1, <5>2, Zenon
        <5> QED
          BY <5>2, <5>3
      <4>3. ASSUME NEW j \in DOMAIN cut PROVE Later(s, id, cut[j])
        <5>1. p < j + d
          BY <1>4, <4>2
        <5> QED
          BY <1>3, <1>4, <4>1, <4>3, <5>1, Zenon
      <4>4. n = MaxSets
        BY <1>2, <1>4, <4>2 DEF n
      <4> QED
        BY <4>3, <4>4, Zenon
    <3> QED
      BY <3>1, <3>2, Zenon
  <2>3. ASSUME NEW j \in DOMAIN now PROVE Later(longer, id, now[j])
    BY <1>6, <1>7, <1>8, <2>1, <2>2, <2>3, Zenon
  <2> QED
    BY <1>6, <2>2, <2>3, Zenon
<1>12. Stored(held, x) = now
  BY Zenon DEF Stored, now, cut, others
<1>13. HeldInv(now, longer)
  BY <1>6, <1>9, <1>10, <1>11, Zenon DEF HeldInv
<1> QED
  BY <1>12, <1>13, Zenon DEF longer

(* A set that was stored and is not held any more was evicted. *)
LEMMA NotHeldIsEvicted ==
    ASSUME SizeFacts, MaxSets \in Nat \ {0}, NEW held, NEW s, HeldInv(held, s), NEW id \in Range(s) \ Range(held)
    PROVE  Evicted(s, id)
<1> DEFINE Since == {s[j] : j \in {k \in 1..Len(s) : \A l \in 1..Len(s) : s[l] = id => l < k}}
<1>1. /\ held \in Seq(Nat) /\ s \in Seq(Nat) /\ Len(held) = MaxSets
      /\ \A j \in DOMAIN held : Later(s, id, held[j])
  BY Zenon DEF HeldInv
<1>2. DOMAIN s = 1..Len(s) /\ DOMAIN held = 1..Len(held) /\ Len(s) \in Nat /\ held \in [1..Len(held) -> Nat]
      /\ s \in [1..Len(s) -> Nat]
  BY <1>1
<1>3. Range(held) \subseteq Since
  <2>1. ASSUME NEW j \in DOMAIN held PROVE held[j] \in Since
    <3>1. PICK k \in DOMAIN s : s[k] = held[j] /\ \A l \in DOMAIN s : s[l] = id => l < k
      BY <1>1, <2>1, Zenon DEF Later
    <3> QED
      BY <1>2, <3>1, Zenon
  <2> QED
    BY <2>1, Zenon DEF Range
<1>4. IsFiniteSet(Since)
  <2>1. IsFiniteSet(Range(s))
    BY <1>1, Zenon DEF SizeFacts
  <2>2. Since \subseteq Range(s)
    BY <1>2, Zenon DEF Range
  <2> QED
    BY <2>1, <2>2, Zenon DEF SizeFacts
<1>5. Cardinality(Range(held)) = MaxSets
  <2>1. \A i, j \in DOMAIN held : held[i] = held[j] => i = j
    BY <1>2, HeldOnce, Zenon
  <2> QED
    BY <1>1, <2>1, Zenon DEF SizeFacts
<1>6. Cardinality(Range(held)) <= Cardinality(Since)
  BY <1>3, <1>4, Zenon DEF SizeFacts
<1>7. Cardinality(Since) \in Nat
  BY <1>4, Zenon DEF SizeFacts
<1> HIDE DEF Since
<1>8. Cardinality(Since) >= MaxSets
  BY <1>5, <1>6, <1>7, Zenon
<1> QED
  BY <1>8, Zenon DEF Since, Evicted

(* The steps. *)

(* ConnectionMetadataSource::set *)
LEMMA SetKeeps == CallSetsInv /\ (Set \/ WriteSet) => CallSetsInv' /\ FailsOnlyEvicted
<1> SUFFICES ASSUME CallSetsInv, Set \/ WriteSet PROVE CallSetsInv' /\ FailsOnlyEvicted
  BY Zenon
<1>1. UNCHANGED <<confirmed, call, request, reply, sets, stored, merged>>
  BY Zenon DEF Set, WriteSet, serverVars
<1>2. current' \in Nat /\ ids' \in Nat /\ setting' \subseteq Nat
  <2>1. current \in Nat /\ ids \in Nat /\ setting \subseteq Nat
    BY Zenon DEF CallSetsInv, SetTypes
  <2>2. CASE Set
    BY <2>1, <2>2 DEF Set
  <2>3. CASE WriteSet
    <3>1. (current' \in setting \/ current' = 0) /\ setting' \subseteq setting /\ ids' = ids
      BY <2>3, Zenon DEF WriteSet
    <3>2. 0 \in Nat
      BY Zenon
    <3> QED
      BY <2>1, <3>1, <3>2, Zenon
  <2> QED
    BY <2>2, <2>3, Zenon
<1>3. SetTypes'
  BY <1>1, <1>2, Zenon DEF CallSetsInv, SetTypes
<1>4. KnownInv' /\ SetsKept' /\ SeesItsSet'
  BY <1>1, Zenon DEF CallSetsInv, KnownInv, Known, SetsKept, SeesItsSet
<1>5. FailsOnlyEvicted
  <2> SUFFICES ASSUME NEW c \in Calls, call[c] = "sent", call'[c] = "failed" PROVE FALSE
    BY Zenon DEF FailsOnlyEvicted
  <2> QED
    BY <1>1, Zenon
<1> QED
  BY <1>3, <1>4, <1>5, Zenon DEF CallSetsInv

(* ClientConnectionMetadata::prepare: a reference follows a confirmation. *)
LEMMA PrepareKeeps ==
    ASSUME CallSetsInv, NEW c \in Calls, PrepareSet(c)
    PROVE  CallSetsInv' /\ FailsOnlyEvicted
<1>1. /\ UNCHANGED <<current, ids, setting, confirmed, reply, sets, stored, merged>>
      /\ call[c] = "new" /\ call' = [call EXCEPT ![c] = "sent"]
  BY Zenon DEF PrepareSet, clientVars, serverVars
<1>2. SetTypes /\ KnownInv
  BY Zenon DEF CallSetsInv
<1>3. PICK b \in BOOLEAN : b = (confirmed[request[c].on] # current)
  BY Zenon
<1>4. request' = [request EXCEPT ![c].id = current, ![c].offered = b]
  BY <1>3, Zenon DEF PrepareSet
<1>5. /\ request' \in [Calls -> SetRequests]
      /\ request'[c].on = request[c].on /\ request'[c].id = current /\ request'[c].offered = b
      /\ \A d \in Calls : d # c => request'[d] = request[d]
  <2>1. request \in [Calls -> SetRequests] /\ current \in Nat
    BY <1>2, Zenon DEF SetTypes
  <2> QED
    BY <1>4, <2>1, Zenon DEF SetRequests
<1>6. /\ call' \in [Calls -> {"new", "sent", "served", "failed", "answered", "done"}]
      /\ call'[c] = "sent" /\ \A d \in Calls : d # c => call'[d] = call[d]
  BY <1>1, <1>2, Zenon DEF SetTypes
<1>7. SetTypes'
  BY <1>1, <1>2, <1>5, <1>6, Zenon DEF SetTypes
<1>8. KnownInv'
  <2>1. \A n, id : Known(n, id) => (id # 0 => n \in Keeping /\ id \in Range(stored'[n]))
    BY <1>1, Zenon DEF Known
  <2>2. ~b => Known(request[c].on, current)
    <3>1. request[c].on \in Connections
      BY <1>2, Zenon DEF SetTypes, SetRequests
    <3> QED
      BY <1>2, <1>3, <3>1, Zenon DEF KnownInv
  <2>3. ASSUME NEW d \in Calls PROVE request'[d].on = request[d].on
    BY <1>5, <2>3, Zenon
  <2>4. ASSUME NEW d \in Calls, call'[d] = "sent", ~request'[d].offered
        PROVE  Known(request'[d].on, request'[d].id)
    <3>1. CASE d = c
      BY <1>5, <2>2, <2>4, <3>1, Zenon
    <3>2. CASE d # c
      BY <1>2, <1>5, <1>6, <2>4, <3>2, Zenon DEF KnownInv
    <3> QED
      BY <3>1, <3>2, Zenon
  <2> QED
    BY <1>1, <1>2, <2>3, <2>4, Zenon DEF KnownInv, Known
<1>9. SeesItsSet'
  <2> SUFFICES ASSUME NEW d \in Calls, call'[d] \in {"served", "answered", "done"}
               PROVE  merged'[d] = request'[d].id
    BY Zenon DEF SeesItsSet
  <2>1. d # c
    BY <1>6, Zenon
  <2> QED
    BY <1>1, <1>5, <1>6, <2>1, Zenon DEF CallSetsInv, SeesItsSet
<1>10. SetsKept'
  BY <1>1, Zenon DEF CallSetsInv, SetsKept
<1>11. FailsOnlyEvicted
  <2> SUFFICES ASSUME NEW d \in Calls, call[d] = "sent", call'[d] = "failed" PROVE FALSE
    BY Zenon DEF FailsOnlyEvicted
  <2> QED
    BY <1>6, Zenon
<1> QED
  BY <1>7, <1>8, <1>9, <1>10, <1>11, Zenon DEF CallSetsInv

(* resolve: a call is served with the set it was prepared with, or fails as the set was evicted. *)
LEMMA ResolveKeeps ==
    ASSUME SizeFacts, MaxSets \in Nat \ {0}, CallSetsInv, NEW c \in Calls, Resolve(c)
    PROVE  CallSetsInv' /\ FailsOnlyEvicted
<1> DEFINE r == request[c]
           n == r.on
           known == IF n \in Keeping THEN LookupSet(sets[n], r.id) ELSE {}
<1>1. SetTypes /\ KnownInv /\ SetsKept /\ SeesItsSet
  BY Zenon DEF CallSetsInv
<1>2. /\ call[c] = "sent" /\ UNCHANGED <<current, ids, setting, confirmed, request>>
      /\ \/ /\ r.id = 0
            /\ call' = [call EXCEPT ![c] = "served"] /\ merged' = [merged EXCEPT ![c] = 0]
            /\ UNCHANGED <<reply, sets, stored>>
         \/ /\ call' = [call EXCEPT ![c] = "served"] /\ merged' = [merged EXCEPT ![c] = r.id]
            /\ UNCHANGED <<reply, sets, stored>>
         \/ /\ n \in Keeping
            /\ call' = [call EXCEPT ![c] = "served"] /\ merged' = [merged EXCEPT ![c] = r.id]
            /\ sets' = [sets EXCEPT ![n] = Stored(sets[n], r.id)]
            /\ stored' = [stored EXCEPT ![n] = Append(stored[n], r.id)]
            /\ reply' = [reply EXCEPT ![c] = r.id]
         \/ /\ \E set \in known : call' = [call EXCEPT ![c] = "served"] /\ merged' = [merged EXCEPT ![c] = set]
            /\ UNCHANGED <<reply, sets, stored>>
         \/ /\ r.id # 0 /\ ~r.offered /\ known = {}
            /\ call' = [call EXCEPT ![c] = "failed"] /\ UNCHANGED <<reply, sets, stored, merged>>
  BY Zenon DEF Resolve, clientVars, serverVars
<1>3. n \in Connections /\ r.id \in Nat
  BY <1>1, Zenon DEF SetTypes, SetRequests
<1>4. \A set \in known : set = r.id
  BY Zenon DEF LookupSet
<1>5. \/ /\ call' = [call EXCEPT ![c] = "served"] /\ merged' = [merged EXCEPT ![c] = r.id]
         /\ UNCHANGED <<reply, sets, stored>>
      \/ /\ n \in Keeping
         /\ call' = [call EXCEPT ![c] = "served"] /\ merged' = [merged EXCEPT ![c] = r.id]
         /\ sets' = [sets EXCEPT ![n] = Stored(sets[n], r.id)]
         /\ stored' = [stored EXCEPT ![n] = Append(stored[n], r.id)]
         /\ reply' = [reply EXCEPT ![c] = r.id]
      \/ /\ r.id # 0 /\ ~r.offered /\ known = {}
         /\ call' = [call EXCEPT ![c] = "failed"] /\ UNCHANGED <<reply, sets, stored, merged>>
  <2> HIDE DEF r, n, known
  <2> QED
    BY <1>2, <1>4, Zenon
<1>6. PICK how \in {"served", "failed"} : call' = [call EXCEPT ![c] = how]
  BY <1>5, Zenon
<1>7. /\ call' \in [Calls -> {"new", "sent", "served", "failed", "answered", "done"}]
      /\ call'[c] = how /\ \A d \in Calls : d # c => call'[d] = call[d]
  BY <1>1, <1>6, Zenon DEF SetTypes
<1>8. /\ sets' \in [Connections -> Seq(Nat)] /\ stored' \in [Connections -> Seq(Nat)]
      /\ \A m \in Connections : HeldInv(sets'[m], stored'[m]) /\ Range(stored[m]) \subseteq Range(stored'[m])
  <2>1. CASE UNCHANGED <<sets, stored>>
    BY <1>1, <2>1, Zenon DEF SetTypes, SetsKept
  <2>2. CASE /\ sets' = [sets EXCEPT ![n] = Stored(sets[n], r.id)]
             /\ stored' = [stored EXCEPT ![n] = Append(stored[n], r.id)]
    <3>1. sets \in [Connections -> Seq(Nat)] /\ stored \in [Connections -> Seq(Nat)]
      BY <1>1, Zenon DEF SetTypes
    <3>2. HeldInv(Stored(sets[n], r.id), Append(stored[n], r.id))
      BY <1>1, <1>3, StoreKeeps, Zenon DEF SetsKept
    <3>3. Stored(sets[n], r.id) \in Seq(Nat) /\ Append(stored[n], r.id) \in Seq(Nat)
      BY <3>2, Zenon DEF HeldInv
    <3>4. Range(stored[n]) \subseteq Range(Append(stored[n], r.id))
      <4>1. \A i \in DOMAIN stored[n] : /\ i \in DOMAIN Append(stored[n], r.id)
                                       /\ Append(stored[n], r.id)[i] = stored[n][i]
        BY <1>3, <3>1, SMTT(30)
      <4> QED
        BY <4>1, Zenon DEF Range
    <3> HIDE DEF r, n
    <3>5. sets' \in [Connections -> Seq(Nat)] /\ stored' \in [Connections -> Seq(Nat)]
      BY <1>3, <2>2, <3>1, <3>3, Zenon
    <3>6. /\ sets'[n] = Stored(sets[n], r.id) /\ stored'[n] = Append(stored[n], r.id)
          /\ \A m \in Connections : m # n => sets'[m] = sets[m] /\ stored'[m] = stored[m]
      BY <1>3, <2>2, <3>1, Zenon
    <3>7. ASSUME NEW m \in Connections
          PROVE  HeldInv(sets'[m], stored'[m]) /\ Range(stored[m]) \subseteq Range(stored'[m])
      <4>1. CASE m = n
        BY <3>2, <3>4, <3>6, <4>1, Zenon
      <4>2. CASE m # n
        BY <1>1, <3>6, <4>2, Zenon DEF SetsKept
      <4> QED
        BY <4>1, <4>2, Zenon
    <3> QED
      BY <3>5, <3>7, Zenon
  <2> QED
    BY <1>5, <2>1, <2>2, Zenon
<1>9. SetTypes'
  <2>1. merged' \in [Calls -> Nat] /\ reply' \in [Calls -> Nat]
    BY <1>1, <1>3, <1>5, Zenon DEF SetTypes
  <2> QED
    BY <1>1, <1>2, <1>7, <1>8, <2>1, Zenon DEF SetTypes
<1>10. KnownInv'
  <2>1. ASSUME NEW m \in Connections, NEW id, Known(m, id) PROVE Known(m, id)'
    BY <1>8, <2>1, Zenon DEF Known
  <2>2. \A m \in Connections : Known(m, confirmed[m])'
    BY <1>1, <1>2, <2>1, Zenon DEF KnownInv, Known
  <2>3. \A d \in Calls : request[d].on \in Connections
    BY <1>1, Zenon DEF SetTypes, SetRequests
  <2>4. ASSUME NEW d \in Calls PROVE Known(request[d].on, reply[d])'
    <3>1. CASE reply'[d] = reply[d]
      BY <1>1, <1>2, <2>1, <2>3, <2>4, <3>1, Zenon DEF KnownInv, Known
    <3>2. CASE reply'[d] # reply[d]
      <4>1. /\ d = c /\ reply'[d] = r.id /\ n \in Keeping
            /\ stored' = [stored EXCEPT ![n] = Append(stored[n], r.id)]
        BY <1>1, <1>5, <2>4, <3>2, Zenon DEF SetTypes
      <4>2. stored'[n] = Append(stored[n], r.id) /\ stored[n] \in Seq(Nat)
        BY <1>1, <1>3, <4>1, Zenon DEF SetTypes
      <4>3. r.id \in Range(stored'[n])
        <5>1. PICK s \in Seq(Nat) : s = stored[n] /\ stored'[n] = Append(s, r.id)
          BY <4>2, Zenon
        <5>2. Len(s) + 1 \in DOMAIN Append(s, r.id) /\ Append(s, r.id)[Len(s) + 1] = r.id
          BY <1>3
        <5> QED
          BY <5>1, <5>2, Zenon DEF Range
      <4> QED
        BY <1>2, <4>1, <4>3, Zenon DEF Known
    <3> QED
      BY <3>1, <3>2, Zenon
  <2>5. ASSUME NEW d \in Calls, call'[d] = "sent", ~request'[d].offered
        PROVE  Known(request[d].on, request[d].id)'
    <3>1. d # c
      BY <1>7, <2>5, Zenon
    <3> QED
      BY <1>1, <1>2, <1>7, <2>1, <2>3, <2>5, <3>1, Zenon DEF KnownInv, Known
  <2> QED
    BY <1>2, <2>2, <2>4, <2>5, Zenon DEF KnownInv
<1>11. SeesItsSet'
  <2> SUFFICES ASSUME NEW d \in Calls, call'[d] \in {"served", "answered", "done"}
               PROVE  merged'[d] = request'[d].id
    BY Zenon DEF SeesItsSet
  <2>1. CASE d = c
    <3>1. merged' = [merged EXCEPT ![c] = r.id]
      BY <1>5, <1>7, <2>1, Zenon
    <3> QED
      BY <1>1, <1>2, <2>1, <3>1, Zenon DEF SetTypes
  <2>2. CASE d # c
    <3>1. merged'[d] = merged[d]
      BY <1>1, <1>5, <2>2, Zenon DEF SetTypes
    <3> QED
      BY <1>1, <1>2, <1>7, <2>2, <3>1, Zenon DEF SeesItsSet
  <2> QED
    BY <2>1, <2>2, Zenon
<1>12. FailsOnlyEvicted
  <2> SUFFICES ASSUME NEW d \in Calls, call[d] = "sent", call'[d] = "failed"
               PROVE  Evicted(stored[request[d].on], request[d].id)
    BY Zenon DEF FailsOnlyEvicted
  <2>1. d = c
    BY <1>7, Zenon
  <2>2. r.id # 0 /\ ~r.offered /\ known = {}
    BY <1>5, <1>7, <2>1, Zenon
  <2>3. n \in Keeping /\ r.id \in Range(stored[n])
    BY <1>1, <1>2, <2>2, Zenon DEF KnownInv, Known
  <2>4. r.id \notin Range(sets[n])
    BY <2>2, <2>3, Zenon DEF LookupSet
  <2>5. HeldInv(sets[n], stored[n])
    BY <1>1, <1>3, Zenon DEF SetsKept
  <2> QED
    BY <2>1, <2>3, <2>4, <2>5, NotHeldIsEvicted, Zenon
<1> QED
  BY <1>8, <1>9, <1>10, <1>11, <1>12, Zenon DEF CallSetsInv, SetsKept

(* OfferedSet::learn, in its two steps. *)
LEMMA LearnKeeps ==
    ASSUME CallSetsInv, NEW c \in Calls, LearnSet(c) \/ Confirm(c)
    PROVE  CallSetsInv' /\ FailsOnlyEvicted
<1>1. SetTypes /\ KnownInv /\ SetsKept /\ SeesItsSet
  BY Zenon DEF CallSetsInv
<1>2. /\ UNCHANGED <<current, ids, setting, request, sets, stored, merged>>
      /\ call[c] \in {"served", "answered"}
  BY Zenon DEF LearnSet, Confirm, clientVars, serverVars
<1>3. PICK how \in {"answered", "done"} : call' = [call EXCEPT ![c] = how]
  BY Zenon DEF LearnSet, Confirm
<1>4. /\ call' \in [Calls -> {"new", "sent", "served", "failed", "answered", "done"}]
      /\ call'[c] = how /\ \A d \in Calls : d # c => call'[d] = call[d]
  BY <1>1, <1>3, Zenon DEF SetTypes
<1>5. /\ reply' \in [Calls -> Nat]
      /\ \A d \in Calls : reply'[d] \in {reply[d], 0}
  <2>1. reply \in [Calls -> Nat]
    BY <1>1, Zenon DEF SetTypes
  <2>2. CASE LearnSet(c)
    BY <2>1, <2>2, Zenon DEF LearnSet
  <2>3. CASE Confirm(c)
    BY <2>1, <2>3, Zenon DEF Confirm
  <2> QED
    BY <2>2, <2>3, Zenon
<1>6. /\ confirmed' \in [Connections -> Nat]
      /\ \A n \in Connections : confirmed'[n] = confirmed[n] \/ (n = request[c].on /\ confirmed'[n] = reply[c])
  <2>1. confirmed \in [Connections -> Nat] /\ reply[c] \in Nat
    BY <1>1, Zenon DEF SetTypes
  <2>2. CASE LearnSet(c)
    BY <2>1, <2>2, Zenon DEF LearnSet, clientVars
  <2>3. CASE Confirm(c)
    <3>1. confirmed' = confirmed \/ confirmed' = [confirmed EXCEPT ![request[c].on] = reply[c]]
      BY <2>3, Zenon DEF Confirm
    <3> QED
      BY <2>1, <3>1, Zenon
  <2> QED
    BY <2>2, <2>3, Zenon
<1>7. SetTypes'
  BY <1>1, <1>2, <1>4, <1>5, <1>6, Zenon DEF SetTypes
<1>8. KnownInv'
  <2>1. ASSUME NEW n \in Connections PROVE Known(n, confirmed[n])'
    BY <1>1, <1>2, <1>6, <2>1, Zenon DEF KnownInv, Known
  <2>2. ASSUME NEW d \in Calls PROVE Known(request[d].on, reply[d])'
    BY <1>1, <1>2, <1>5, <2>2, Zenon DEF KnownInv, Known
  <2>3. ASSUME NEW d \in Calls, call'[d] = "sent", ~request'[d].offered
        PROVE  Known(request[d].on, request[d].id)'
    <3>1. d # c
      BY <1>4, <2>3, Zenon
    <3> QED
      BY <1>1, <1>2, <1>4, <2>3, <3>1, Zenon DEF KnownInv, Known
  <2> QED
    BY <2>1, <2>2, <2>3, Zenon DEF KnownInv
<1>9. SeesItsSet'
  <2> SUFFICES ASSUME NEW d \in Calls, call'[d] \in {"served", "answered", "done"}
               PROVE  merged'[d] = request'[d].id
    BY Zenon DEF SeesItsSet
  <2>1. call[d] \in {"served", "answered", "done"}
    BY <1>2, <1>4, Zenon
  <2> QED
    BY <1>1, <1>2, <2>1, Zenon DEF SeesItsSet
<1>10. SetsKept'
  BY <1>1, <1>2, Zenon DEF SetsKept
<1>11. FailsOnlyEvicted
  <2> SUFFICES ASSUME NEW d \in Calls, call[d] = "sent", call'[d] = "failed" PROVE FALSE
    BY Zenon DEF FailsOnlyEvicted
  <2> QED
    BY <1>4, Zenon
<1> QED
  BY <1>7, <1>8, <1>9, <1>10, <1>11, Zenon DEF CallSetsInv

(* Before the first set. *)
LEMMA NoSetsYet ==
    ASSUME MaxSets \in Nat \ {0}, SetsInit
    PROVE  CallSetsInv
<1>1. /\ current = 0 /\ ids = 0 /\ setting = {} /\ confirmed = [n \in Connections |-> 0]
      /\ call = [c \in Calls |-> "new"] /\ reply = [c \in Calls |-> 0] /\ merged = [c \in Calls |-> 0]
      /\ sets = [n \in Connections |-> <<>>] /\ stored = [n \in Connections |-> <<>>]
  BY Zenon DEF SetsInit, Fresh
<1>2. request \in [Calls -> SetRequests]
  <2> DEFINE First == {[on |-> n, id |-> 0, offered |-> FALSE] : n \in Connections}
  <2>1. First \subseteq SetRequests
    <3>1. ASSUME NEW n \in Connections PROVE [on |-> n, id |-> 0, offered |-> FALSE] \in SetRequests
      BY Zenon DEF SetRequests
    <3> QED
      BY <3>1, Zenon
  <2>2. request \in [Calls -> First]
    BY Zenon DEF SetsInit
  <2> HIDE DEF First
  <2> QED
    BY <2>1, <2>2, Zenon
<1>3. SetTypes
  BY <1>1, <1>2 DEF SetTypes
<1>4. KnownInv
  BY <1>1, Zenon DEF KnownInv, Known
<1>5. HeldInv(<<>>, <<>>)
  <2>1. DOMAIN <<>> = {} /\ Range(<<>>) = {} /\ Len(<<>>) = 0 /\ <<>> \in Seq(Nat)
    BY DEF Range
  <2> QED
    BY <2>1 DEF HeldInv
<1>6. SetsKept
  BY <1>1, <1>5, Zenon DEF SetsKept
<1>7. SeesItsSet
  BY <1>1, Zenon DEF SeesItsSet
<1> QED
  BY <1>3, <1>4, <1>6, <1>7, Zenon DEF CallSetsInv

(* Each step. *)
LEMMA SetsStep ==
    ASSUME SizeFacts, MaxSets \in Nat \ {0}, CallSetsInv, [SetsNext]_cmVars
    PROVE  CallSetsInv' /\ [SeesItsSet' /\ FailsOnlyEvicted]_cmVars
<1>1. ASSUME SetsNext PROVE CallSetsInv' /\ FailsOnlyEvicted
  BY <1>1, SetKeeps, PrepareKeeps, ResolveKeeps, LearnKeeps, Zenon DEF SetsNext
<1>2. ASSUME UNCHANGED cmVars PROVE CallSetsInv'
  BY <1>2, Zenon DEF cmVars, clientVars, serverVars, CallSetsInv, SetTypes, KnownInv, Known, SetsKept, SeesItsSet
<1>3. CallSetsInv' => SeesItsSet'
  BY Zenon DEF CallSetsInv
<1> QED
  BY <1>1, <1>2, <1>3, Zenon

-----------------------------------------------------------------------------
(* The theorems, with what is known of finite sets. *)
Finite == INSTANCE FiniteSetTheorems

(* The library speaks of the same finite sets and of the same sizes. *)
LEMMA SameSizes ==
    ASSUME NEW S
    PROVE  (IsFiniteSet(S) <=> Finite!IsFiniteSet(S)) /\ Cardinality(S) = Finite!Cardinality(S)
  BY Zenon DEF IsFiniteSet, Finite!IsFiniteSet, Cardinality, Finite!Cardinality

LEMMA UpToSize ==
    ASSUME NEW n \in Nat
    PROVE  Finite!IsFiniteSet(1..n) /\ Finite!Cardinality(1..n) = n
  BY Finite!FS_Interval

LEMMA SizesKnown == SizeFacts
<1>1. ASSUME NEW S, IsFiniteSet(S) PROVE Cardinality(S) \in Nat /\ (Cardinality(S) = 0 <=> S = {})
  BY <1>1, SameSizes, Finite!FS_CardinalityType, Finite!FS_EmptySet, Zenon
<1>2. ASSUME NEW x PROVE Cardinality({x}) = 1
  BY SameSizes, Finite!FS_Singleton, Zenon
<1>3. ASSUME NEW S, IsFiniteSet(S), NEW T, T \subseteq S
      PROVE  IsFiniteSet(T) /\ Cardinality(T) <= Cardinality(S)
  <2>1. Finite!IsFiniteSet(T) /\ Finite!Cardinality(T) <= Finite!Cardinality(S)
    BY <1>3, SameSizes, Finite!FS_Subset, Zenon
  <2>2. Cardinality(T) = Finite!Cardinality(T) /\ Cardinality(S) = Finite!Cardinality(S)
    BY SameSizes, Zenon
  <2>3. IsFiniteSet(T)
    BY <2>1, SameSizes, Zenon
  <2> QED
    BY <2>1, <2>2, <2>3, Zenon
<1>4. ASSUME NEW S, IsFiniteSet(S), NEW x
      PROVE  /\ x \notin S => Cardinality(S \cup {x}) = Cardinality(S) + 1
             /\ x \in S => Cardinality(S \ {x}) = Cardinality(S) - 1
  <2>1. /\ x \notin S => Finite!Cardinality(S \cup {x}) = Finite!Cardinality(S) + 1
        /\ x \in S => Finite!Cardinality(S \ {x}) = Finite!Cardinality(S) - 1
    BY <1>4, SameSizes, Finite!FS_AddElement, Finite!FS_RemoveElement, Zenon
  <2>2. /\ Cardinality(S) = Finite!Cardinality(S)
        /\ Cardinality(S \cup {x}) = Finite!Cardinality(S \cup {x})
        /\ Cardinality(S \ {x}) = Finite!Cardinality(S \ {x})
    BY SameSizes, Zenon
  <2> QED
    BY <2>1, <2>2, Zenon
<1>5. ASSUME NEW D, NEW s \in Seq(D)
      PROVE  /\ IsFiniteSet(Range(s))
             /\ (\A i, j \in DOMAIN s : s[i] = s[j] => i = j) => Cardinality(Range(s)) = Len(s)
  <2>1. Len(s) \in Nat /\ DOMAIN s = 1..Len(s) /\ s \in [1..Len(s) -> D]
    OBVIOUS
  <2>2. Finite!IsFiniteSet(1..Len(s)) /\ Finite!Cardinality(1..Len(s)) = Len(s)
    BY <2>1, UpToSize, Zenon
  <2>3. s \in Finite!Surjection(1..Len(s), Range(s))
    BY <2>1, Zenon DEF Finite!Surjection, Range
  <2>4. /\ Finite!IsFiniteSet(Range(s))
        /\ s \in Finite!Injection(1..Len(s), Range(s)) => Finite!Cardinality(Range(s)) = Len(s)
    BY <2>2, <2>3, Finite!FS_Surjection, Zenon
  <2>5. ASSUME \A i, j \in DOMAIN s : s[i] = s[j] => i = j
        PROVE  s \in Finite!Injection(1..Len(s), Range(s))
    BY <2>1, <2>3, <2>5, Zenon DEF Finite!Injection, Finite!IsInjective, Finite!Surjection
  <2> QED
    BY <2>4, <2>5, SameSizes, Zenon
<1> QED
  BY <1>1, <1>2, <1>3, <1>4, <1>5, Zenon DEF SizeFacts

(* The inductive invariant holds in every reachable state. *)
THEOREM Inductive == Spec => []IInv
<1>1. Init => IInv
  BY SizesKnown, InitIInv, Zenon
<1>2. IInv /\ [Next]_vars => IInv'
  BY SizesKnown, NextIInv, Zenon
<1>3. QED
  BY <1>1, <1>2, PTL DEF Spec

(* The queue's state always has its type: the sender count of Drop for Sender never underflows. *)
THEOREM TypeCorrect == Spec => []TypeOK
<1>1. IInv => TypeOK
  BY Zenon DEF IInv
<1>2. QED
  BY <1>1, Inductive, PTL

(* has_room and push keep the queue within its count, and its bytes within one value of the limit. *)
THEOREM QueueIsBounded == Spec => []Bounded
<1>1. IInv => Bounded
  BY Zenon DEF IInv
<1>2. QED
  BY <1>1, Inductive, PTL

(* Values leave in the order they were accepted, none lost or repeated. *)
THEOREM QueueIsFifo == Spec => []InOrder
<1>1. IInv => InOrder
  BY Zenon DEF IInv
<1>2. QED
  BY <1>1, Inductive, PTL

(* A permit of a single producer finds room whenever it is used. *)
THEOREM PermitsFindRoom == Spec => []PermitHasRoom
<1>1. IInv => PermitHasRoom
  BY Zenon DEF IInv
<1>2. QED
  BY <1>1, Inductive, PTL

(* Nobody sleeps who could go on: poll_pop and the receiver's drop wake the producers that wait, *)
(* push and the last sender's drop wake the receiver.                                             *)
THEOREM NoLostWakeup == Spec => []NobodySleeps
<1>1. IInv => NoSleepingProducer
  BY Zenon DEF IInv, NoSleepingProducer, WakersOnlyWhenFull, WaitersAreKnown
<1>2. IInv => NoSleepingReceiver
  BY Zenon DEF IInv, NoSleepingReceiver, WakerOnlyWhenEmpty, ReceiverIsKnown
<1>3. QED
  BY <1>1, <1>2, Inductive, PTL DEF NobodySleeps

(* For every set of producers, every limit and every order of polls, drops and wakes, what queue.rs *)
(* does is what a bounded FIFO does.                                                                *)
THEOREM QueueImplementsFifo == Spec => ImplementsFifo
<1>1. Init => Fifo!Init
  BY DEF Init, Fifo!Init, Consumer
<1>2. IInv /\ [Next]_vars => [Fifo!Next]_Fifo!fifo
  BY SizesKnown, FifoStep, HoldersFinite, Zenon DEF IInv
<1>3. QED
  BY <1>1, <1>2, Inductive, PTL DEF Spec, ImplementsFifo, Fifo!Spec

(* A call sees the connection metadata that was current when it was prepared, and fails only when  *)
(* its server stored that set and then as many others as it keeps: for any calls, connections and  *)
(* sets, and any order of requests and answers (connection_metadata.rs, prepare, resolve, store    *)
(* and learn).  A server keeps at least one set (MAX_SETS).                                        *)
THEOREM CallsSeeTheirSets ==
    ASSUME MaxSets \in Nat \ {0}
    PROVE  SetsSpec => CallSeesItsSet
<1>1. CallSetsInv /\ [SetsNext]_cmVars => CallSetsInv' /\ [SeesItsSet' /\ FailsOnlyEvicted]_cmVars
  BY SizesKnown, SetsStep, Zenon
<1>2. SetsInit => CallSetsInv
  BY NoSetsYet, Zenon
<1> QED
  BY <1>1, <1>2, PTL DEF SetsSpec, CallSeesItsSet

=============================================================================
