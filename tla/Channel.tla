------------------------------- MODULE Channel ------------------------------
(***************************************************************************)
(* The reconnecting channel of the client (client/channel.rs): the slot    *)
(* that calls take their connection from, the supervisor task that dials   *)
(* again when it is lost, and close, from any thread.                      *)
(*                                                                         *)
(* Every method of Shared changes the slot under its lock and publishes    *)
(* the state it saw, and an event, after the unlock: two steps here.       *)
(* Connections are numbered as they are dialed; a dial is one step, which  *)
(* ChannelDial opens up.                                                   *)
(***************************************************************************)
EXTENDS Naturals

CONSTANTS MaxDials,     \* bound: connections dialed
          MaxAttempts   \* bound: reconnect attempts that are told apart

ASSUME ChannelBounds == MaxDials \in Nat \ {0} /\ MaxAttempts \in Nat \ {0}

VARIABLES slot,         \* Slot::state
          transport,    \* Slot::transport, 0 for none
          watch,        \* the value of state_tx
          open,         \* the connections that are open
          dialed,       \* connections dialed so far
          supervisor,   \* where the supervisor task is
          current,      \* the connection it watches
          generation, attempt,   \* its locals
          closer,       \* the thread whose close was first
          taken,        \* the connection that close took from the slot
          shutdown,     \* the shutdown channel
          publishing,   \* states taken under the lock and not yet published
          events        \* how many events of each kind were sent; those of attempts are not counted

shared == <<slot, transport>>
published == <<watch, events>>
locals == <<current, generation, attempt>>
closing == <<closer, taken, shutdown>>
vars == <<shared, published, open, dialed, supervisor, locals, closing, publishing>>

Kinds == {"ConnectionLost", "Ready", "Closed"}

Established == [phase |-> "Ready", generation |-> 1, attempt |-> 0]

(* connect_to, once the first dial succeeded. *)
Init ==
    /\ slot = Established /\ transport = 1
    /\ watch = Established /\ events = [k \in Kinds |-> 0]
    /\ open = {1} /\ dialed = 1
    /\ supervisor = "watching" /\ current = 1 /\ generation = 1 /\ attempt = 1
    /\ closer = "idle" /\ taken = 0 /\ shutdown = FALSE
    /\ publishing = [who \in {"supervisor", "closer"} |-> Established]

-----------------------------------------------------------------------------

ChangeSlot(who, state) == slot' = state /\ publishing' = [publishing EXCEPT ![who] = state]
Publish(who) == watch' = publishing[who]
Send(kind) == events' = [events EXCEPT ![kind] = @ + 1]

(* The network ends a connection. *)
Lose(t) ==
    /\ t \in open
    /\ open' = open \ {t}
    /\ UNCHANGED <<shared, published, dialed, supervisor, locals, closing, publishing>>

(* supervise sees its connection closed: begin_reconnect.  Its selects are biased to the shutdown  *)
(* channel, which may close between the poll of that branch and the next; so the other branches   *)
(* stay possible here.                                                                             *)
BeginReconnect ==
    /\ supervisor = "watching" /\ current \notin open
    /\ IF slot.phase = "Closed"
       THEN supervisor' = "returned" /\ UNCHANGED <<shared, generation, attempt, publishing>>
       ELSE /\ transport' = 0
            /\ ChangeSlot("supervisor", [slot EXCEPT !.phase = "Reconnecting", !.attempt = 1])
            /\ generation' = slot.generation /\ attempt' = 1
            /\ supervisor' = "lost"
    /\ UNCHANGED <<published, open, dialed, current, closing>>

PublishLost ==
    /\ supervisor = "lost"
    /\ Publish("supervisor") /\ Send("ConnectionLost")
    /\ supervisor' = "attempting"
    /\ UNCHANGED <<shared, open, dialed, locals, closing, publishing>>

(* reconnect_attempt *)
ReconnectAttempt ==
    /\ supervisor = "attempting"
    /\ IF slot.phase # "Reconnecting" \/ slot.generation # generation
       THEN supervisor' = "returned" /\ UNCHANGED <<slot, publishing>>
       ELSE /\ ChangeSlot("supervisor", [slot EXCEPT !.attempt = attempt])
            /\ supervisor' = "attempted"
    /\ UNCHANGED <<transport, published, open, dialed, locals, closing>>

PublishAttempt ==
    /\ supervisor = "attempted"
    /\ Publish("supervisor")
    /\ supervisor' = "sleeping"
    /\ UNCHANGED <<shared, events, open, dialed, locals, closing, publishing>>

(* The backoff delay passes. *)
Awake ==
    /\ supervisor = "sleeping"
    /\ supervisor' = "dialing"
    /\ UNCHANGED <<shared, published, open, dialed, locals, closing, publishing>>

(* reconnect_failed; attempts above the bound are not told apart. *)
DialFails ==
    /\ supervisor = "dialing"
    /\ attempt' = IF attempt < MaxAttempts THEN attempt + 1 ELSE attempt
    /\ supervisor' = "attempting"
    /\ UNCHANGED <<shared, published, open, dialed, current, generation, closing, publishing>>

(* A dial that finds the channel closed and forgets its connection. *)
InstallLeaking ==
    /\ supervisor = "dialing" /\ dialed < MaxDials
    /\ dialed' = dialed + 1
    /\ open' = open \cup {dialed'}
    /\ IF slot.phase # "Reconnecting" \/ slot.generation # generation
       THEN supervisor' = "returned" /\ UNCHANGED <<shared, current, publishing>>
       ELSE /\ ChangeSlot("supervisor",
                          [phase |-> "Ready", generation |-> generation + 1, attempt |-> 0])
            /\ transport' = dialed' /\ current' = dialed'
            /\ supervisor' = "installed"
    /\ UNCHANGED <<published, generation, attempt, closing>>

(* A dial that succeeds reopens the channel, closed or not. *)
InstallAnyway ==
    /\ supervisor = "dialing" /\ dialed < MaxDials
    /\ dialed' = dialed + 1
    /\ open' = open \cup {dialed'}
    /\ ChangeSlot("supervisor", [phase |-> "Ready", generation |-> generation + 1, attempt |-> 0])
    /\ transport' = dialed' /\ current' = dialed'
    /\ supervisor' = "installed"
    /\ UNCHANGED <<published, generation, attempt, closing>>
(* dial succeeds: install, or close the new connection if the channel was closed meanwhile. *)
Install ==
    /\ supervisor = "dialing" /\ dialed < MaxDials
    /\ dialed' = dialed + 1
    /\ IF slot.phase # "Reconnecting" \/ slot.generation # generation
       THEN supervisor' = "returned" /\ UNCHANGED <<shared, open, current, publishing>>
       ELSE /\ ChangeSlot("supervisor",
                          [phase |-> "Ready", generation |-> generation + 1, attempt |-> 0])
            /\ open' = open \cup {dialed'}
            /\ transport' = dialed' /\ current' = dialed'
            /\ supervisor' = "installed"
    /\ UNCHANGED <<published, generation, attempt, closing>>

PublishInstall ==
    /\ supervisor = "installed"
    /\ Publish("supervisor") /\ Send("Ready")
    /\ supervisor' = "watching"
    /\ UNCHANGED <<shared, open, dialed, locals, closing, publishing>>

(* shutdown.changed() in each of the supervisor's selects; a dial in flight is dropped. *)
SeesShutdown ==
    /\ supervisor \in {"watching", "sleeping", "dialing"} /\ shutdown
    /\ supervisor' = "returned"
    /\ UNCHANGED <<shared, published, open, dialed, locals, closing, publishing>>

-----------------------------------------------------------------------------

(* Channel::close; the calls after the first change nothing. *)
Close ==
    /\ closer = "idle"
    /\ taken' = transport /\ transport' = 0
    /\ ChangeSlot("closer", [slot EXCEPT !.phase = "Closed", !.attempt = 0])
    /\ closer' = "publishing"
    /\ UNCHANGED <<published, open, dialed, supervisor, locals, shutdown>>

PublishClosed ==
    /\ closer = "publishing"
    /\ Publish("closer") /\ Send("Closed")
    /\ closer' = "stopping"
    /\ UNCHANGED <<shared, open, dialed, supervisor, locals, taken, shutdown, publishing>>

CloseTransport ==
    /\ closer = "stopping"
    /\ shutdown' = TRUE
    /\ open' = open \ {taken}
    /\ closer' = "done"
    /\ UNCHANGED <<shared, published, dialed, supervisor, locals, taken, publishing>>

Supervises ==
    \/ BeginReconnect \/ PublishLost \/ ReconnectAttempt \/ PublishAttempt \/ Awake
    \/ PublishInstall \/ SeesShutdown
Dials == Install \/ DialFails
Closes == PublishClosed \/ CloseTransport

Next == Supervises \/ Dials \/ Close \/ Closes \/ \E t \in open : Lose(t)

Spec == Init /\ [][Next]_vars

-----------------------------------------------------------------------------

(* Nothing is left open once close is done and the supervisor has returned. *)
NothingLeaks == (closer = "done" /\ supervisor = "returned") => open = {}

(* Closed is final, whatever dial or loss completes after close; and a generation is established   *)
(* once, by a connection dialed after the last one was lost (Shared::install).                     *)
GenerationsGrow ==
    [][/\ slot.phase = "Closed" => slot'.phase = "Closed"
       /\ slot'.generation # slot.generation =>
             /\ slot'.generation = slot.generation + 1
             /\ slot.phase = "Reconnecting" /\ slot'.phase = "Ready"
             /\ transport' > current]_vars

(* What subscribe_state observes, once everyone who changed the state has published it, is the     *)
(* latest state (channel.rs, line 649).                                                            *)
ObservesLatest ==
    (supervisor \notin {"lost", "attempted", "installed"} /\ closer # "publishing") => watch = slot
=============================================================================
