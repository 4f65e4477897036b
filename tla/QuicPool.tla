------------------------------ MODULE QuicPool ------------------------------
(* The QUIC connections of one channel generation (client/pool.rs).          *)
(*                                                                         *)
(* Connection 0 is the generation's own; the pool dials the others.  A call  *)
(* picks a connection under the read lock, then may ask for another one,    *)
(* outside it; one background task at a time dials; a watcher per added      *)
(* connection forgets, retires or drains it.  The measured rates and round    *)
(* trips are inputs of a pick: how many connections' worth of load there is,  *)
(* up to the most a pool with room can compare it with, and which            *)
(* connections are near enough to be crowded.                                *)
EXTENDS Naturals, FiniteSets, Sequences, Functions

CONSTANTS
    Calls,       \* the calls that pick a connection
    MaxExtra,    \* bound: connections dialed after the generation's own
    MaxConns,    \* max_quic_connections
    MinConns,    \* min_quic_connections
    BusyCalls    \* BUSY_CALLS

ASSUME PoolAssumption ==
    /\ IsFiniteSet(Calls)
    /\ MaxConns \in Nat \ {0} /\ MinConns \in 1..MaxConns
    /\ BusyCalls \in Nat \ {0}
    /\ MaxExtra \in Nat /\ MaxExtra >= MinConns - 1

Primary == 0
Ids == 0..MaxExtra

VARIABLES
    conn,       \* "none", "open", "lost" (by the network or the channel), "retired" (by the pool)
    added,      \* the connections the pool added, in order
    pinned,     \* the added ones that belong to the minimum
    used,       \* the ones picked since their last idle check
    watcher,    \* where each added connection's watcher is
    idled,      \* watchers that were notified that their last call ended
    call,       \* where each call is, and on which connection
    dialing,    \* a dial, or the pause after a failed one, is under way
    inFlight,   \* dial_in_flight: a dial itself is under way
    dialer,     \* where the dial's task is
    notifying,  \* successful dials that have yet to notify the calls waiting for them
    dropped     \* the last handle of the pool is gone

poolVars == <<conn, added, pinned, used, watcher, idled, call, dialing, inFlight, dialer, notifying, dropped>>
conns == <<conn, added, pinned, used, watcher, idled>>
dials == <<dialing, inFlight, dialer, notifying>>

NewCall == [phase |-> "new", at |-> Primary, streaming |-> FALSE, load |-> 0, patient |-> FALSE]

(* Calls in flight on a connection, and the streaming ones among them. *)
On(c) == {k \in Calls : call[k].phase \in {"growing", "flying"} /\ call[k].at = c}
Streams(c) == {k \in On(c) : call[k].streaming}
Open == Len(added) + 1
Connections == {Primary} \union Range(added)

(* QuicPool::new, with the connections the race dialed toward the minimum. *)
PoolInit ==
    \E others \in 0..(MinConns - 1) :
        /\ conn = [c \in Ids |-> IF c <= others THEN "open" ELSE "none"]
        /\ added = [i \in 1..others |-> i]
        /\ pinned = 0..others
        /\ used = {} /\ idled = {}
        /\ watcher = [c \in Ids |-> IF c \in 1..others THEN "watching" ELSE "none"]
        /\ call = [k \in Calls |-> NewCall]
        /\ dialing = FALSE /\ inFlight = FALSE /\ dialer = "none" /\ notifying = 0
        /\ dropped = FALSE

-----------------------------------------------------------------------------
(* Calls. *)

(* The start of pick: the rates are recorded once, for the whole pick. *)
Start(k, streaming, load) ==
    /\ ~dropped
    /\ call[k].phase = "new"
    /\ call' = [call EXCEPT ![k] = [phase |-> "picking", at |-> Primary, streaming |-> streaming,
                                    load |-> load, patient |-> streaming]]
    /\ UNCHANGED <<conns, dials, dropped>>

(* Whether the rates the pick recorded are enough for that many connections. *)
LoadReaches(k, connections) == call[k].load >= connections

Spread(k, near) == MinConns > 1 \/ LoadReaches(k, 1) \/ (Primary \in near /\ Cardinality(Streams(Primary)) >= BusyCalls)

(* The connection with the fewest calls, the earlier of two; without spreading, the primary. *)
Least(k, near) ==
    LET order == <<Primary>> \o (IF Spread(k, near) THEN added ELSE <<>>)
        least == CHOOSE i \in DOMAIN order :
                    \A j \in DOMAIN order :
                        \/ Cardinality(On(order[i])) < Cardinality(On(order[j]))
                        \/ Cardinality(On(order[i])) = Cardinality(On(order[j])) /\ i <= j
    IN  order[least]

Crowded(k, near) ==
    /\ call[k].streaming /\ Spread(k, near) /\ Open < MaxConns
    /\ Least(k, near) \in near /\ Cardinality(Streams(Least(k, near))) >= BusyCalls

(* Whether the pick wants another connection, decided on what it saw under the lock. *)
Wants(k, near) ==
    \/ Open < MinConns
    \/ Cardinality(On(Least(k, near))) >= BusyCalls /\ Open < MaxConns /\ LoadReaches(k, Open)
    \/ Crowded(k, near)

(* grow: one dial at a time. *)
Grow ==
    /\ dialing' = TRUE
    /\ inFlight' = (inFlight \/ ~dialing)
    /\ dialer' = IF dialing THEN dialer ELSE "dialing"
    /\ UNCHANGED notifying

(* try_pick under the read lock, when the call should wait for the dial instead. *)
Decline(k, near) ==
    /\ call[k].phase = "picking" /\ call[k].patient
    /\ Crowded(k, near)
    /\ Grow /\ inFlight'
    /\ call' = [call EXCEPT ![k].phase = "declined"]
    /\ UNCHANGED <<conns, dropped>>

(* try_pick under the read lock, when it picks: the call is counted and the connection used. *)
Pick(k, near) ==
    /\ call[k].phase = "picking"
    /\ IF Crowded(k, near) /\ call[k].patient THEN Grow /\ ~inFlight' ELSE UNCHANGED dials
    /\ call' = [call EXCEPT ![k] = [NewCall EXCEPT
                    !.phase = IF Wants(k, near) THEN "growing" ELSE "flying",
                    !.at = Least(k, near), !.streaming = call[k].streaming]]
    /\ used' = (used \union {Least(k, near)}) \ {Primary}
    /\ UNCHANGED <<conn, added, pinned, watcher, idled, dropped>>

(* The rest of try_pick, after the lock is released. *)
GrowAfterPick(k) ==
    /\ call[k].phase = "growing"
    /\ Grow
    /\ call' = [call EXCEPT ![k].phase = "flying"]
    /\ UNCHANGED <<conns, dropped>>

(* A waiting call registers with dialed, then looks at the dial again. *)
Register(k) ==
    /\ call[k].phase = "declined"
    /\ call' = [call EXCEPT ![k].phase = "armed"]
    /\ UNCHANGED <<conns, dials, dropped>>
LookAgain(k) ==
    /\ call[k].phase = "armed"
    /\ call' = [call EXCEPT ![k].phase = IF inFlight THEN "waiting" ELSE "picking"]
    /\ UNCHANGED <<conns, dials, dropped>>
Wake(k) ==
    /\ call[k].phase = "woken"
    /\ call' = [call EXCEPT ![k].phase = "picking"]
    /\ UNCHANGED <<conns, dials, dropped>>

(* CROWDED_DIAL_WAIT is over: a waiting call stops waiting, any call stops declining. *)
Expire(k) ==
    /\ call[k].phase \in {"picking", "declined", "armed", "waiting", "woken"} /\ call[k].patient
    /\ call' = [call EXCEPT ![k].patient = FALSE,
                            ![k].phase = IF @ = "waiting" THEN "picking" ELSE @]
    /\ UNCHANGED <<conns, dials, dropped>>

(* The caller drops a call that waits for a dial. *)
Abandon(k) ==
    /\ call[k].phase \in {"waiting", "woken"}
    /\ call' = [call EXCEPT ![k] = [NewCall EXCEPT !.phase = "done"]]
    /\ UNCHANGED <<conns, dials, dropped>>

(* A guard that compares the count after its decrement instead of before. *)
EndUnheard(k) ==
    /\ call[k].phase = "flying"
    /\ call' = [call EXCEPT ![k] = [NewCall EXCEPT !.phase = "done"]]
    /\ UNCHANGED <<conns, dials, dropped>>

(* CallGuard's drop: the last call of a connection notifies its watcher. *)
End(k) ==
    /\ call[k].phase = "flying"
    /\ call' = [call EXCEPT ![k] = [NewCall EXCEPT !.phase = "done"]]
    /\ idled' = IF On(call[k].at) = {k} /\ watcher[call[k].at] \in {"armed", "waiting"}
                THEN idled \union {call[k].at} ELSE idled
    /\ UNCHANGED <<conn, added, pinned, used, watcher, dials, dropped>>

-----------------------------------------------------------------------------
(* The dial's task. *)

(* A pool that adds every connection it dials, full or not. *)
AddAlways(c) ==
    /\ added' = Append(added, c)
    /\ conn' = [conn EXCEPT ![c] = "open"]
    /\ pinned' = IF Open < MinConns THEN pinned \union {c} ELSE pinned
    /\ watcher' = [watcher EXCEPT ![c] = "watching"]

(* Pool::add: a full pool, or one that is gone, closes the connection at once. *)
AddConn(c) ==
    IF Open >= MaxConns \/ dropped
    THEN conn' = [conn EXCEPT ![c] = "retired"] /\ UNCHANGED <<added, pinned, watcher>>
    ELSE /\ added' = Append(added, c)
         /\ conn' = [conn EXCEPT ![c] = "open"]
         /\ pinned' = IF Open < MinConns THEN pinned \union {c} ELSE pinned
         /\ watcher' = [watcher EXCEPT ![c] = "watching"]

DialSucceeds ==
    /\ dialer = "dialing"
    /\ \E c \in Ids :
        /\ conn[c] = "none" /\ \A d \in Ids : d < c => conn[d] # "none"
        /\ AddConn(c)
    /\ dialer' = "added"
    /\ UNCHANGED <<used, idled, call, dialing, inFlight, notifying, dropped>>
ExtraDialFails ==
    /\ dialer = "dialing"
    /\ dialer' = "failed"
    /\ UNCHANGED <<conns, call, dialing, inFlight, notifying, dropped>>

(* dial_in_flight is cleared before anything is notified. *)
ClearInFlight ==
    /\ dialer \in {"added", "failed"} /\ ~dropped
    /\ inFlight' = FALSE
    /\ dialer' = IF dialer = "added" THEN "cleared" ELSE "cleared failed"
    /\ UNCHANGED <<conns, call, dialing, notifying, dropped>>

(* A task that finds the pool gone ends. *)
QuitDialing ==
    /\ dialer \in {"added", "failed", "pausing"} /\ dropped
    /\ dialer' = "none"
    /\ UNCHANGED <<conns, call, dialing, inFlight, notifying, dropped>>

(* notify_waiters: every registered call stops waiting. *)
Woken == [k \in Calls |->
    IF call[k].phase \in {"armed", "waiting"} THEN [call[k] EXCEPT !.phase = "woken"] ELSE call[k]]

(* After a success the next dial may start before the waiting calls are notified. *)
ClearDialing ==
    /\ dialer = "cleared"
    /\ dialing' = FALSE /\ dialer' = "none" /\ notifying' = notifying + 1
    /\ UNCHANGED <<conns, call, inFlight, dropped>>
NotifyAdded ==
    /\ notifying > 0
    /\ notifying' = notifying - 1
    /\ call' = Woken
    /\ UNCHANGED <<conns, dialing, inFlight, dialer, dropped>>

(* After a failure the calls are notified, and DIAL_RETRY passes before the next dial. *)
NotifyFailed ==
    /\ dialer = "cleared failed"
    /\ call' = Woken /\ dialer' = "pausing"
    /\ UNCHANGED <<conns, dialing, inFlight, notifying, dropped>>
Resume ==
    /\ dialer = "pausing" /\ ~dropped
    /\ dialer' = "none" /\ dialing' = FALSE
    /\ UNCHANGED <<conns, call, inFlight, notifying, dropped>>

-----------------------------------------------------------------------------
(* The watchers of the connections the pool added. *)

(* added.retain: the pool has a connection at most once (AddedOnce). *)
Without(c) ==
    LET at == CHOOSE i \in DOMAIN added : added[i] = c
    IN  IF c \in Range(added) THEN SubSeq(added, 1, at - 1) \o SubSeq(added, at + 1, Len(added))
                              ELSE added
Forget(c) == added' = Without(c)

(* The connection closed: the pool forgets it. *)
WatchClosed(c) ==
    /\ watcher[c] \in {"watching", "waiting"} /\ conn[c] # "open"
    /\ IF watcher[c] = "watching" /\ ~dropped THEN Forget(c) ELSE UNCHANGED added
    /\ watcher' = [watcher EXCEPT ![c] = "done"]
    /\ UNCHANGED <<conn, pinned, used, idled, call, dials, dropped>>

(* idle_check.tick: whether the connection was used since the last one. *)
IdleTick(c) ==
    /\ watcher[c] = "watching" /\ ~dropped
    /\ used' = used \ {c}
    /\ watcher' = IF c \notin pinned /\ c \notin used
                  THEN [watcher EXCEPT ![c] = "retiring"] ELSE watcher
    /\ UNCHANGED <<conn, added, pinned, idled, call, dials, dropped>>

(* retire_if_idle: the calls are counted under the write lock, which no pick holds. *)
Retire(c) ==
    /\ watcher[c] = "retiring"
    /\ IF On(c) = {}
       THEN /\ Forget(c)
            /\ conn' = [conn EXCEPT ![c] = IF @ = "open" THEN "retired" ELSE @]
            /\ watcher' = [watcher EXCEPT ![c] = "done"]
       ELSE /\ watcher' = [watcher EXCEPT ![c] = "watching"]
            /\ UNCHANGED <<conn, added>>
    /\ UNCHANGED <<pinned, used, idled, call, dials, dropped>>

(* The generation ended: the primary closed or the pool is gone. *)
Over == dropped \/ conn[Primary] # "open"
StopWatching(c) ==
    /\ watcher[c] = "watching" /\ Over
    /\ IF dropped THEN UNCHANGED added ELSE Forget(c)
    /\ watcher' = [watcher EXCEPT ![c] = "draining"]
    /\ UNCHANGED <<conn, pinned, used, idled, call, dials, dropped>>

(* The drain registers for the end of the last call, then counts the calls. *)
RegisterDrain(c) ==
    /\ watcher[c] = "draining"
    /\ watcher' = [watcher EXCEPT ![c] = "armed"]
    /\ idled' = idled \ {c}
    /\ UNCHANGED <<conn, added, pinned, used, call, dials, dropped>>
CountDrain(c) ==
    /\ watcher[c] = "armed"
    /\ IF On(c) = {}
       THEN /\ conn' = [conn EXCEPT ![c] = IF @ = "open" THEN "retired" ELSE @]
            /\ watcher' = [watcher EXCEPT ![c] = "done"]
       ELSE watcher' = [watcher EXCEPT ![c] = "waiting"] /\ UNCHANGED conn
    /\ UNCHANGED <<added, pinned, used, idled, call, dials, dropped>>
WakeDrain(c) ==
    /\ watcher[c] = "waiting" /\ c \in idled
    /\ watcher' = [watcher EXCEPT ![c] = "draining"]
    /\ UNCHANGED <<conn, added, pinned, used, idled, call, dials, dropped>>

-----------------------------------------------------------------------------
(* The network and the channel that owns the pool. *)

(* A connection, the generation's own or an added one, is lost. *)
LoseConn(c) ==
    /\ conn[c] = "open"
    /\ conn' = [conn EXCEPT ![c] = "lost"]
    /\ UNCHANGED <<added, pinned, used, watcher, idled, call, dials, dropped>>

(* QuicPool::close: every connection the pool holds, at once. *)
ClosePool ==
    /\ conn[Primary] = "open" /\ ~dropped
    /\ conn' = [c \in Ids |-> IF c \in Connections /\ conn[c] = "open" THEN "lost" ELSE conn[c]]
    /\ UNCHANGED <<added, pinned, used, watcher, idled, call, dials, dropped>>

(* The last handle goes: none is held by a pick, a unary call, the dialer or a watcher. *)
Drop ==
    /\ ~dropped
    /\ \A k \in Calls : \/ call[k].phase \in {"new", "done"}
                        \/ call[k].phase = "flying" /\ call[k].streaming
    /\ dialer \notin {"cleared", "cleared failed"} /\ notifying = 0
    /\ \A c \in Ids : watcher[c] # "retiring"
    /\ dropped' = TRUE
    /\ UNCHANGED <<conns, call, dials>>

ExtraDials == DialSucceeds \/ ExtraDialFails \/ ClearInFlight \/ QuitDialing \/ ClearDialing
            \/ NotifyAdded \/ NotifyFailed \/ Resume
Picks(k) ==
    \/ \E near \in SUBSET Connections : Decline(k, near) \/ Pick(k, near)
    \/ Register(k) \/ LookAgain(k) \/ Wake(k)
Runs(k) == GrowAfterPick(k) \/ End(k)
Watches(c) == WatchClosed(c) \/ Retire(c) \/ StopWatching(c) \/ RegisterDrain(c)
                \/ CountDrain(c) \/ WakeDrain(c)

PoolNext ==
    \/ ExtraDials
    \/ \E k \in Calls :
        \/ Picks(k) \/ Runs(k) \/ Expire(k) \/ Abandon(k)
        \/ \E streaming \in BOOLEAN, load \in 0..(MaxConns - 1) : Start(k, streaming, load)
    \/ \E c \in Ids : Watches(c) \/ IdleTick(c) \/ LoseConn(c)
    \/ ClosePool \/ Drop

(* Tasks are scheduled, a dial is bounded by its timeouts, and a call with a connection ends. *)
Fairness ==
    /\ WF_poolVars(ExtraDials)
    /\ \A k \in Calls : WF_poolVars(Runs(k))
    /\ \A c \in Ids : WF_poolVars(Watches(c))

PoolSpec == PoolInit /\ [][PoolNext]_poolVars
FairSpec == PoolSpec /\ Fairness

-----------------------------------------------------------------------------
(* Properties. *)

(* "An idle connection is never retired under a new call" (try_pick counts the call under *)
(* the lock retire_if_idle takes), nor does a drain close one before its last call ended.  *)
RetiredIsIdle == \A c \in Ids : conn[c] = "retired" => On(c) = {}

(* However stale the view on which calls asked for a dial, the pool never keeps more     *)
(* connections than its limit: Pool::add looks again under the write lock.                *)
PoolBounded ==
    /\ Open <= MaxConns
    /\ Cardinality({c \in Ids \ {Primary} : conn[c] = "open" /\ watcher[c] \in {"watching", "retiring"}}) < MaxConns

(* A call that waits for a dial sleeps only while that dial is in flight or about to notify: *)
(* it registers, looks again, and the dial clears its flag before it notifies (pick, grow).   *)
NoMissedDial ==
    \A k \in Calls : call[k].phase = "waiting" =>
        inFlight \/ notifying > 0 \/ dialer \in {"cleared", "cleared failed"}

(* No connection is in the pool twice, which would give it twice the calls. *)
AddedOnce == \A i, j \in DOMAIN added : added[i] = added[j] => i = j

(* The pool never keeps more connections than its limit, never closes one under a call, and lets   *)
(* no call sleep through the dial it waits for (client/pool.rs, add, retire_if_idle, pick).        *)
PoolKeepsCalls == PoolBounded /\ AddedOnce /\ RetiredIsIdle /\ NoMissedDial

(* Once the generation ended every connection the pool dialed is closed, the ones whose dial *)
(* finished later too (watch_added's drain, add and grow on a pool that is gone).              *)
Drains == \A c \in Ids \ {Primary} : (Over /\ conn[c] = "open") ~> (conn[c] # "open")

=============================================================================
