---------------------------- MODULE MessageQueue ----------------------------
(***************************************************************************)
(* The queue of queue.rs: it hands a call's messages from one task to      *)
(* another, bounded by a count of values and by a sum of bytes.            *)
(*                                                                         *)
(* Every method locks the state, changes it and unlocks, so each is one    *)
(* action.  The wakers a method takes under the lock are called after the  *)
(* unlock: they sit in waking until Wake calls them.  A task that returned *)
(* Pending is polled again when it was woken, or spuriously: a select that *)
(* holds the future polls it whenever another branch wakes the task, and   *)
(* may drop it between polls, which leaves its waker registered.           *)
(***************************************************************************)
EXTENDS Integers, Sequences, FiniteSets

CONSTANTS Producers,    \* the tasks that may hold a Sender
          Receiver,     \* the task that holds the Receiver
          MaxValues,    \* Limits::values
          MaxBytes,     \* Limits::bytes
          Sizes,        \* the sizes in bytes of values
          MaxSize,      \* an upper bound of Sizes
          MaxAccepted   \* bound of the model: values ever queued

ASSUME TasksAssumption ==
    /\ Receiver \notin Producers
    /\ IsFiniteSet(Producers)
ASSUME LimitsAssumption ==
    /\ MaxValues \in Nat \ {0}
    /\ MaxBytes \in Nat \ {0}
    /\ MaxSize \in Nat
    /\ MaxAccepted \in Nat
    /\ Sizes \subseteq 0..MaxSize

VARIABLES queue,         \* State::queue, values numbered as they were queued
          queuedBytes,   \* State::queued_bytes
          senders,       \* State::senders
          receiverOpen,  \* State::receiver_open
          receiverWaker, \* State::receiver_waker is Some
          senderWakers,  \* State::sender_wakers
          waking,        \* tasks whose wakers were taken and not yet called
          woken,         \* tasks the runtime will poll
          producer,      \* what each producer is doing
          pending,       \* the size of the value a send future holds, else 0
          receiver,      \* what the receiver is doing
          accepted,      \* values queued so far
          delivered      \* values taken so far

state == <<queue, queuedBytes, senders, receiverOpen, receiverWaker, senderWakers>>
vars == <<state, waking, woken, producer, pending, receiver, accepted, delivered>>

Tasks == Producers \cup {Receiver}
ProducerStates == {"absent", "idle", "sending", "reserving", "permit", "dropped"}
ReceiverStates == {"idle", "receiving", "ended", "dropped"}
Holding(p) == producer[p] \notin {"absent", "dropped"}
Reserves(p) == producer[p] \in {"reserving", "permit"}
OnlyProducer(p) == \A q \in Producers : Holding(q) => q = p

Values == [id : Nat, size : 0..MaxSize]

TypeOK ==
    /\ queue \in Seq(Values)
    /\ queuedBytes \in Nat
    /\ senders \in Nat
    /\ receiverOpen \in BOOLEAN
    /\ receiverWaker \in BOOLEAN
    /\ senderWakers \subseteq Producers
    /\ waking \subseteq Tasks
    /\ woken \subseteq Tasks
    /\ producer \in [Producers -> ProducerStates]
    /\ pending \in [Producers -> 0..MaxSize]
    /\ receiver \in ReceiverStates
    /\ accepted \in Nat
    /\ delivered \in Nat

(* channel: one sender, held by one of the producers. *)
Init ==
    /\ queue = <<>>
    /\ queuedBytes = 0
    /\ senders = 1
    /\ receiverOpen = TRUE
    /\ receiverWaker = FALSE
    /\ senderWakers = {}
    /\ waking = {}
    /\ woken = {}
    /\ \E p \in Producers :
           producer = [q \in Producers |-> IF q = p THEN "idle" ELSE "absent"]
    /\ pending = [p \in Producers |-> 0]
    /\ receiver = "idle"
    /\ accepted = 0
    /\ delivered = 0

-----------------------------------------------------------------------------
(* State::has_room. *)
HasRoom == Len(queue) < MaxValues /\ queuedBytes < MaxBytes

TakeReceiverWaker ==
    /\ waking' = IF receiverWaker THEN waking \cup {Receiver} ELSE waking
    /\ receiverWaker' = FALSE

(* State::push, and waking the receiver it returned. *)
Push(size) ==
    /\ queue' = Append(queue, [id |-> accepted + 1, size |-> size])
    /\ queuedBytes' = queuedBytes + size
    /\ accepted' = accepted + 1
    /\ TakeReceiverWaker
    /\ UNCHANGED <<senders, receiverOpen, senderWakers, delivered>>

(* Room is left in the model's bound for one more value. *)
Busy == {p \in Producers : producer[p] \in {"sending", "reserving", "permit"}}
MayStart(p) ==
    /\ producer[p] = "idle"
    /\ accepted + Cardinality(Busy) < MaxAccepted

(* Sender::try_send.  A closed or full queue hands the value back. *)
TrySend(p, size) ==
    /\ MayStart(p)
    /\ receiverOpen
    /\ HasRoom
    /\ Push(size)
    /\ UNCHANGED <<woken, producer, pending, receiver>>

(* Sender::send, before its first poll. *)
StartSend(p, size) ==
    /\ MayStart(p)
    /\ producer' = [producer EXCEPT ![p] = "sending"]
    /\ pending' = [pending EXCEPT ![p] = size]
    /\ woken' = woken \cup {p}
    /\ UNCHANGED <<state, waking, receiver, accepted, delivered>>

(* What send and reserve do when the receiver is gone or there is no room. *)
PollWaits(p) ==
    /\ receiverOpen
    /\ ~HasRoom
    /\ senderWakers' = senderWakers \cup {p}
    /\ woken' = woken \ {p}
    /\ UNCHANGED <<queue, queuedBytes, senders, receiverOpen, receiverWaker, waking, producer,
                   pending, receiver, accepted, delivered>>

PollClosed(p) ==
    /\ ~receiverOpen
    /\ producer' = [producer EXCEPT ![p] = "idle"]
    /\ pending' = [pending EXCEPT ![p] = 0]
    /\ woken' = woken \ {p}
    /\ UNCHANGED <<state, waking, receiver, accepted, delivered>>

PollSend(p) ==
    /\ producer[p] = "sending"
    /\ \/ PollClosed(p)
       \/ PollWaits(p)
       \/ /\ receiverOpen
          /\ HasRoom
          /\ Push(pending[p])
          /\ producer' = [producer EXCEPT ![p] = "idle"]
          /\ pending' = [pending EXCEPT ![p] = 0]
          /\ woken' = woken \ {p}
          /\ UNCHANGED receiver

(* Sender::reserve: the permit holds no space.  A queue must have a single *)
(* producer to reserve (queue.rs:152-154); nor is it cloned meanwhile.     *)
StartReserve(p) ==
    /\ MayStart(p)
    /\ OnlyProducer(p)
    /\ producer' = [producer EXCEPT ![p] = "reserving"]
    /\ woken' = woken \cup {p}
    /\ UNCHANGED <<state, waking, pending, receiver, accepted, delivered>>

(* A reserve that does not look for room. *)
PollReserveEagerly(p) ==
    /\ producer[p] = "reserving"
    /\ receiverOpen
    /\ producer' = [producer EXCEPT ![p] = "permit"]
    /\ woken' = woken \ {p}
    /\ UNCHANGED <<state, waking, pending, receiver, accepted, delivered>>

PollReserve(p) ==
    /\ producer[p] = "reserving"
    /\ \/ PollClosed(p)
       \/ PollWaits(p)
       \/ /\ receiverOpen
          /\ HasRoom
          /\ producer' = [producer EXCEPT ![p] = "permit"]
          /\ woken' = woken \ {p}
          /\ UNCHANGED <<state, waking, pending, receiver, accepted, delivered>>

(* Permit::send: it does not look for room again, and drops the value when the *)
(* receiver is gone.                                                           *)
PermitSend(p, size) ==
    /\ producer[p] = "permit"
    /\ producer' = [producer EXCEPT ![p] = "idle"]
    /\ IF receiverOpen
       THEN Push(size)
       ELSE UNCHANGED <<state, waking, accepted, delivered>>
    /\ UNCHANGED <<woken, pending, receiver>>

(* A select drops the send or reserve future, or the permit: a waker it registered stays. *)
Abandon(p) ==
    /\ producer[p] \in {"sending", "reserving", "permit"}
    /\ producer' = [producer EXCEPT ![p] = "idle"]
    /\ pending' = [pending EXCEPT ![p] = 0]
    /\ woken' = woken \ {p}
    /\ UNCHANGED <<state, waking, receiver, accepted, delivered>>

(* Sender::clone, the new sender moving to another task. *)
Clone(p, q) ==
    /\ Holding(p) /\ ~Reserves(p)
    /\ producer[q] = "absent"
    /\ senders' = senders + 1
    /\ producer' = [producer EXCEPT ![q] = "idle"]
    /\ UNCHANGED <<queue, queuedBytes, receiverOpen, receiverWaker, senderWakers, waking, woken,
                   pending, receiver, accepted, delivered>>

(* Drop for Sender: the last one wakes the receiver. *)
DropSender(p) ==
    /\ producer[p] = "idle"
    /\ producer' = [producer EXCEPT ![p] = "dropped"]
    /\ senders' = senders - 1
    /\ IF senders = 1 THEN TakeReceiverWaker ELSE UNCHANGED <<receiverWaker, waking>>
    /\ UNCHANGED <<queue, queuedBytes, receiverOpen, senderWakers, woken, pending, receiver,
                   accepted, delivered>>

-----------------------------------------------------------------------------
(* A pop that wakes one of the waiting producers. *)
PopWakesOne ==
    /\ queue # <<>>
    /\ queue' = Tail(queue)
    /\ queuedBytes' = IF queuedBytes > Head(queue).size THEN queuedBytes - Head(queue).size ELSE 0
    /\ IF HasRoom' /\ senderWakers # {}
       THEN LET p == CHOOSE q \in senderWakers : TRUE
            IN  waking' = waking \cup {p} /\ senderWakers' = senderWakers \ {p}
       ELSE UNCHANGED <<waking, senderWakers>>
    /\ delivered' = Head(queue).id
    /\ UNCHANGED <<senders, receiverOpen, receiverWaker, accepted>>

(* Receiver::poll_pop of a queued value: once there is room, every waiting producer is woken. *)
Pop ==
    /\ queue # <<>>
    /\ queue' = Tail(queue)
    /\ queuedBytes' = IF queuedBytes > Head(queue).size THEN queuedBytes - Head(queue).size ELSE 0
    /\ IF HasRoom'
       THEN waking' = waking \cup senderWakers /\ senderWakers' = {}
       ELSE UNCHANGED <<waking, senderWakers>>
    /\ delivered' = Head(queue).id
    /\ UNCHANGED <<senders, receiverOpen, receiverWaker, accepted>>

(* Receiver::recv, before its first poll. *)
StartRecv ==
    /\ receiver = "idle"
    /\ receiver' = "receiving"
    /\ woken' = woken \cup {Receiver}
    /\ UNCHANGED <<state, waking, producer, pending, accepted, delivered>>

(* Receiver::poll_recv. *)
PollRecv ==
    /\ receiver = "receiving"
    /\ woken' = woken \ {Receiver}
    /\ UNCHANGED <<producer, pending>>
    /\ \/ /\ Pop
          /\ receiver' = "idle"
       \/ /\ queue = <<>>
          /\ senders = 0
          /\ receiver' = "ended"
          /\ UNCHANGED <<state, waking, accepted, delivered>>
       \/ /\ queue = <<>>
          /\ senders # 0
          /\ receiverWaker' = TRUE
          /\ UNCHANGED <<queue, queuedBytes, senders, receiverOpen, senderWakers, waking, receiver,
                         accepted, delivered>>

(* Receiver::try_recv of a queued value; it never registers a waker. *)
TryRecv ==
    /\ receiver = "idle"
    /\ Pop
    /\ UNCHANGED <<woken, producer, pending, receiver>>

(* A select drops the recv future; its waker stays. *)
AbandonRecv ==
    /\ receiver = "receiving"
    /\ receiver' = "idle"
    /\ woken' = woken \ {Receiver}
    /\ UNCHANGED <<state, waking, producer, pending, accepted, delivered>>

(* A drop that leaves the waiting producers asleep. *)
DropReceiverSilently ==
    /\ receiver \in {"idle", "ended"}
    /\ receiver' = "dropped"
    /\ receiverOpen' = FALSE
    /\ queuedBytes' = 0
    /\ queue' = <<>>
    /\ UNCHANGED <<senders, receiverWaker, senderWakers, waking, woken, producer, pending, accepted,
                   delivered>>

(* Drop for Receiver. *)
DropReceiver ==
    /\ receiver \in {"idle", "ended"}
    /\ receiver' = "dropped"
    /\ receiverOpen' = FALSE
    /\ queuedBytes' = 0
    /\ queue' = <<>>
    /\ waking' = waking \cup senderWakers
    /\ senderWakers' = {}
    /\ UNCHANGED <<senders, receiverWaker, woken, producer, pending, accepted, delivered>>

(* waker.wake(), after the unlock. *)
Wake(t) ==
    /\ t \in waking
    /\ waking' = waking \ {t}
    /\ woken' = woken \cup {t}
    /\ UNCHANGED <<state, producer, pending, receiver, accepted, delivered>>

Next ==
    \/ \E p \in Producers, size \in Sizes :
           TrySend(p, size) \/ StartSend(p, size) \/ PermitSend(p, size)
    \/ \E p \in Producers :
           PollSend(p) \/ StartReserve(p) \/ PollReserve(p) \/ Abandon(p) \/ DropSender(p)
    \/ \E p, q \in Producers : Clone(p, q)
    \/ StartRecv \/ PollRecv \/ TryRecv \/ AbandonRecv \/ DropReceiver
    \/ \E t \in Tasks : Wake(t)

(* The runtime polls a task that was woken, a woken task's wake call is made, and a receiver that *)
(* is not dropped keeps receiving: the request pump's consumer and the upload both read in a loop. *)
(* Receiving is strongly fair: a select whose other branches keep winning drops the recv future    *)
(* again and again, but only as often as there are other events.                                   *)
Fairness ==
    /\ \A p \in Producers : WF_vars(p \in woken /\ (PollSend(p) \/ PollReserve(p)))
    /\ SF_vars(Receiver \in woken /\ PollRecv)
    /\ WF_vars(StartRecv)
    /\ \A t \in Tasks : WF_vars(Wake(t))

Spec == Init /\ [][Next]_vars
FairSpec == Spec /\ Fairness

-----------------------------------------------------------------------------
(* queue.rs:31-32 "a queue never holds more than this plus one message": the count never exceeds *)
(* its limit, and the bytes exceed theirs by less than one value, also through a permit that     *)
(* looked for room before the value existed.                                                     *)
Bounded ==
    /\ Len(queue) =< MaxValues
    /\ queuedBytes < MaxBytes + MaxSize

(* The queue as its users see it: a receiver that is not gone reads until it has seen the end. *)
Consumer == IF receiver = "ended" THEN "ended" ELSE IF receiverOpen THEN "reading" ELSE "gone"
Fifo == INSTANCE BoundedFifo WITH
            Sizes <- 0..MaxSize, items <- queue, bytes <- queuedBytes, put <- accepted,
            taken <- delivered, producing <- senders # 0, consumer <- Consumer

(* Whatever its tasks, futures and permits do, the queue is a bounded FIFO: try_send, send and a   *)
(* permit of reserve alike put only below both limits, and poll_recv ends only when it should.     *)
ImplementsFifo == Fifo!Spec

(* No lost wakeup on the producers' side: a send or a reserve that could go on, because there is *)
(* room or nobody receives any more, is about to be polled, also after other waiting futures were *)
(* dropped with their wakers registered.                                                          *)
NoSleepingProducer ==
    \A p \in Producers :
        producer[p] \in {"sending", "reserving"} /\ (HasRoom \/ ~receiverOpen)
            => p \in woken \cup waking

(* No lost wakeup on the consumer's side: a receiver for which there is a value, or whose last *)
(* sender is gone, is about to be polled.                                                      *)
NoSleepingReceiver ==
    receiver = "receiving" /\ (queue # <<>> \/ senders = 0)
        => Receiver \in woken \cup waking

(* No lost wakeup on either side of the queue (push, poll_pop and both drops). *)
NobodySleeps == NoSleepingProducer /\ NoSleepingReceiver

(* What a permit promises without holding space: with one producer there is still room when it *)
(* is used, so Permit::send need not look.                                                      *)
PermitHasRoom ==
    \A p \in Producers : producer[p] = "permit" /\ receiverOpen => HasRoom

(* Values leave in the order they were accepted, none lost or repeated, while the receiver lives. *)
InOrder ==
    /\ \A i \in 1..Len(queue) : queue[i].id = delivered + i
    /\ receiverOpen => accepted = delivered + Len(queue)

(* While a send or reserve waits, values keep getting through: it completes or is abandoned, or    *)
(* another one is accepted before it, as long as the receiver keeps receiving or is dropped.  So   *)
(* a lone producer is served; one of several may starve, since poll_pop wakes every producer and   *)
(* a try_send takes the room first.                                                                *)
SomeSendCompletes ==
    \A p \in Producers, n \in 0..(MaxAccepted - 1) :
        (producer[p] \in {"sending", "reserving"} /\ accepted = n)
            ~> (producer[p] \notin {"sending", "reserving"} \/ accepted # n)

=============================================================================
