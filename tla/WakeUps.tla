------------------------------ MODULE WakeUps -------------------------------
(***************************************************************************)
(* Two hand-overs between tasks that rely on futures' AtomicWaker, which   *)
(* is one cell with a waker or none: register stores, wake takes and wakes.*)
(*                                                                         *)
(* The cell that tells a request pump how its call settles (latest.rs):    *)
(* one sender replaces the value, one receiver waits for a newer one.      *)
(* Nothing but the value is locked, so the two interleave at every atomic. *)
(* A value is the number of the send that stored it.                       *)
(*                                                                         *)
(* And a stream that is polled only after it woke (wake_gate.rs), between  *)
(* a task that polls it, also for other reasons, and the source of its     *)
(* items.  The stream inside is what polls and wakes promise: an item is   *)
(* taken or the waker stored under one lock, and a source that adds an     *)
(* item takes the waker under it and wakes it afterwards.                  *)
(***************************************************************************)
EXTENDS Naturals

CONSTANTS MaxSends, MaxItems   \* bounds

VARIABLES value, version, closed, waker,   \* Shared
          sender,        \* where the sender is in send or in drop
          receiverAt,    \* where the receiver is in changed or in borrow_and_update
          receiverWoken, \* whether its task was woken since its last poll
          receiverSeen,  \* Receiver::seen
          loaded,        \* the version that borrow_and_update last loaded
          borrowed       \* and the value it returned

shared == <<value, version, closed>>
receiverVars == <<receiverAt, receiverSeen, loaded, borrowed>>
latestVars == <<shared, waker, sender, receiverWoken, receiverVars>>

LatestInit ==
    /\ value = 0 /\ version = 0 /\ closed = FALSE /\ waker = FALSE /\ sender = "idle"
    /\ receiverWoken = FALSE /\ receiverAt = "idle" /\ receiverSeen = 0 /\ loaded = 0 /\ borrowed = 0

-----------------------------------------------------------------------------
(* send: the value, then its version, then the waker; and drop. *)
StoreValue ==
    /\ sender = "idle" /\ value < MaxSends
    /\ value' = value + 1 /\ sender' = "stored"
    /\ UNCHANGED <<version, closed, waker, receiverWoken, receiverVars>>
CountVersion ==
    /\ sender = "stored" /\ version' = version + 1 /\ sender' = "counted"
    /\ UNCHANGED <<value, closed, waker, receiverWoken, receiverVars>>
SenderGone ==
    /\ sender = "idle" /\ closed' = TRUE /\ sender' = "closing"
    /\ UNCHANGED <<value, version, waker, receiverWoken, receiverVars>>
WakeReceiver ==
    /\ sender \in {"counted", "closing"}
    /\ sender' = IF sender = "counted" THEN "idle" ELSE "dropped"
    /\ waker' = FALSE /\ receiverWoken' = (receiverWoken \/ waker)
    /\ UNCHANGED <<shared, receiverVars>>

-----------------------------------------------------------------------------
(* A poll of changed; a select may also poll it unwoken, or drop it. *)
Register ==
    /\ receiverAt \in {"idle", "pending"}
    /\ waker' = TRUE /\ receiverWoken' = FALSE /\ receiverAt' = "registered"
    /\ UNCHANGED <<shared, sender, receiverSeen, loaded, borrowed>>
Look(otherwise) ==
    /\ receiverSeen' = version /\ receiverAt' = IF version # receiverSeen THEN "idle" ELSE otherwise
    /\ UNCHANGED <<shared, waker, sender, receiverWoken, loaded, borrowed>>
LookVersion == receiverAt = "registered" /\ Look("looked")

(* A closed cell that is not looked at again. *)
LookClosedOnce ==
    /\ receiverAt = "looked" /\ receiverAt' = IF closed THEN "ended" ELSE "pending"
    /\ UNCHANGED <<shared, waker, sender, receiverWoken, receiverSeen, loaded, borrowed>>
LookClosed ==
    /\ receiverAt = "looked" /\ receiverAt' = IF closed THEN "again" ELSE "pending"
    /\ UNCHANGED <<shared, waker, sender, receiverWoken, receiverSeen, loaded, borrowed>>
LookAgain == receiverAt = "again" /\ Look("ended")
DropChanged ==
    /\ receiverAt = "pending" /\ receiverAt' = "idle"
    /\ UNCHANGED <<shared, waker, sender, receiverWoken, receiverSeen, loaded, borrowed>>

(* borrow_and_update: the version first. *)
LoadVersion ==
    /\ receiverAt = "idle" /\ loaded' = version /\ receiverAt' = "borrowing"
    /\ UNCHANGED <<shared, waker, sender, receiverWoken, receiverSeen, borrowed>>
ReadValue ==
    /\ receiverAt = "borrowing" /\ borrowed' = value /\ receiverSeen' = loaded /\ receiverAt' = "idle"
    /\ UNCHANGED <<shared, waker, sender, receiverWoken, loaded>>

Sends == StoreValue \/ CountVersion \/ SenderGone \/ WakeReceiver
Receives == Register \/ LookVersion \/ LookClosed \/ LookAgain \/ DropChanged \/ LoadVersion \/ ReadValue
LatestNext == Sends \/ Receives
LatestSpec == LatestInit /\ [][LatestNext]_latestVars

-----------------------------------------------------------------------------
(* The receiver never sleeps over a value it was not told of, nor over the end: either nothing is  *)
(* new, or its task was woken, or the sender is about to wake it (changed registers before it       *)
(* looks).  It hears of the end only after the last value (the second look), and the value it      *)
(* borrows is never older than the version it then counts as seen.                                 *)
NoMissedChange ==
    /\ (receiverAt = "pending" /\ ~receiverWoken) =>
           /\ version = receiverSeen \/ sender = "counted"
           /\ ~closed \/ sender = "closing"
    /\ receiverAt = "ended" => receiverSeen = value
    /\ receiverAt # "borrowing" => borrowed >= loaded

-----------------------------------------------------------------------------
(* wake_gate.rs *)

VARIABLES added, taken,    \* the items of the inner stream, put in and yielded
          innerWaker,      \* whether it holds the gate's waker
          source,          \* where its source is
          gateWoken, task, \* Gate::woken, and whether Gate::task holds a waker
          poll,            \* where the task is
          scheduled        \* whether it was woken since it last began to poll

inner == <<added, taken, innerWaker>>
gateVars == <<inner, source, gateWoken, task, poll, scheduled>>

GateInit ==
    /\ added = 0 /\ taken = 0 /\ innerWaker = FALSE /\ source = "idle"
    /\ gateWoken = TRUE /\ task = FALSE /\ poll = "idle" /\ scheduled = FALSE

-----------------------------------------------------------------------------
(* The source, and the gate's wake_by_ref. *)
AddItem ==
    /\ source = "idle" /\ added < MaxItems /\ added' = added + 1
    /\ innerWaker' = FALSE /\ source' = IF innerWaker THEN "waking" ELSE "idle"
    /\ UNCHANGED <<taken, gateWoken, task, poll, scheduled>>
StoreWoken ==
    /\ source = "waking" /\ gateWoken' = TRUE /\ source' = "stored"
    /\ UNCHANGED <<inner, task, poll, scheduled>>
WakeTask ==
    /\ source = "stored" /\ source' = "idle"
    /\ task' = FALSE /\ scheduled' = (scheduled \/ task)
    /\ UNCHANGED <<inner, gateWoken, poll>>

(* poll_next; the task that polls is woken, or has another reason to. *)
RegisterTask ==
    /\ poll \in {"idle", "pending"}
    /\ poll' = "registered" /\ task' = TRUE /\ scheduled' = FALSE
    /\ UNCHANGED <<inner, source, gateWoken>>
SwapWoken ==
    /\ poll = "registered" /\ gateWoken' = FALSE
    /\ poll' = IF gateWoken THEN "polling" ELSE "pending"
    /\ UNCHANGED <<inner, source, task, scheduled>>
PollInner ==
    /\ poll = "polling"
    /\ IF taken < added
       THEN taken' = taken + 1 /\ poll' = "yielding" /\ UNCHANGED innerWaker
       ELSE innerWaker' = TRUE /\ poll' = "pending" /\ UNCHANGED taken
    /\ UNCHANGED <<added, source, gateWoken, task, scheduled>>
(* A stream that yielded, behind a gate that stays closed. *)
LeaveClosed ==
    /\ poll = "yielding" /\ poll' = "idle"
    /\ UNCHANGED <<inner, source, gateWoken, task, scheduled>>
OpenGate ==
    /\ poll = "yielding" /\ gateWoken' = TRUE /\ poll' = "idle"
    /\ UNCHANGED <<inner, source, task, scheduled>>

GateNext ==
    \/ AddItem \/ StoreWoken \/ WakeTask
    \/ RegisterTask \/ SwapWoken \/ PollInner \/ OpenGate
GateSpec == GateInit /\ [][GateNext]_gateVars

-----------------------------------------------------------------------------
(* However often the task is polled for other reasons while the source wakes the stream, a poll    *)
(* that was skipped is made up for: a task that waits with an item to take was woken, or is about  *)
(* to be, and then finds the gate open (poll_next swaps before it polls, wake_by_ref opens the gate *)
(* before it wakes).                                                                               *)
NoItemStranded ==
    (poll = "pending" /\ taken < added) =>
        /\ scheduled \/ (source \in {"waking", "stored"} /\ task)
        /\ gateWoken \/ source = "waking"

=============================================================================
