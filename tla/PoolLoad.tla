------------------------------ MODULE PoolLoad ------------------------------
(***************************************************************************)
(* How fast a pool starts calls and moves bytes (client/pool.rs Load):     *)
(* every call counts itself, and the call that finds the window over turns *)
(* it into rates.  Nothing is locked: calls on different threads interleave *)
(* at each access to an atomic.                                            *)
(***************************************************************************)
EXTENDS Naturals, Sequences, SequencesExt

CONSTANTS Threads,
          RateWindow,         \* RATE_WINDOW
          MaxTime, MaxStarts, MaxBytes   \* bounds

VARIABLES time,          \* the clock
          carried,       \* the bytes the connection has carried (udp_bytes)
          windowStart, windowCalls, rateCalls, rateBytes,   \* Load
          lastBytes,     \* Member::bytes
          thread,        \* where each thread is in record_at, and its locals
          started,       \* ghost: the calls that counted themselves
          windows        \* ghost: the windows that ended, with the calls of each

load == <<windowStart, windowCalls, rateCalls, rateBytes>>
loadVars == <<time, carried, load, lastBytes, thread, started, windows>>

Idle == [at |-> "idle", now |-> 0, start |-> 0, window |-> 0, bytes |-> 0]

(* Load::new, Member::new *)
LoadInit ==
    /\ time = 0 /\ carried = 0 /\ lastBytes = 0
    /\ windowStart = 0 /\ windowCalls = 0 /\ rateCalls = 0 /\ rateBytes = 0
    /\ thread = [t \in Threads |-> Idle] /\ started = 0 /\ windows = <<>>

Elapse ==
    /\ time < MaxTime /\ time' = time + 1
    /\ UNCHANGED <<carried, load, lastBytes, thread, started, windows>>
Carry ==
    /\ carried < MaxBytes /\ carried' = carried + 1
    /\ UNCHANGED <<time, load, lastBytes, thread, started, windows>>

SaturatingSub(a, b) == IF a < b THEN 0 ELSE a - b
Elapsed(t) == SaturatingSub(thread[t].now, thread[t].start)
PerSecond(t, count) == count \div Elapsed(t)
Goes(t, to) == thread' = [thread EXCEPT ![t].at = to]

-----------------------------------------------------------------------------
(* record reads the clock, and record_at counts the call. *)
ReadClock(t) ==
    /\ thread[t].at = "idle" /\ started < MaxStarts
    /\ thread' = [thread EXCEPT ![t] = [Idle EXCEPT !.at = "counting", !.now = time]]
    /\ UNCHANGED <<time, carried, load, lastBytes, started, windows>>
Count(t) ==
    /\ thread[t].at = "counting" /\ Goes(t, "starting")
    /\ windowCalls' = windowCalls + 1 /\ started' = started + 1
    /\ UNCHANGED <<time, carried, windowStart, rateCalls, rateBytes, lastBytes, windows>>
LoadStart(t) ==
    /\ thread[t].at = "starting"
    /\ thread' = [thread EXCEPT ![t].at = "exchanging", ![t].start = windowStart]
    /\ UNCHANGED <<time, carried, load, lastBytes, started, windows>>

(* A window that is ended by whoever finds it over. *)
ExchangeAlways(t) ==
    /\ thread[t].at = "exchanging"
    /\ IF Elapsed(t) >= RateWindow
       THEN /\ windowStart' = thread[t].now /\ Goes(t, "swapping")
            /\ windows' = Append(windows, [from |-> thread[t].start, to |-> thread[t].now, calls |-> 0])
            /\ UNCHANGED <<rateCalls, rateBytes>>
       ELSE Goes(t, "reading") /\ UNCHANGED <<windowStart, rateCalls, rateBytes, windows>>
    /\ UNCHANGED <<time, carried, windowCalls, lastBytes, started>>
(* The compare_exchange: of the calls that find a window over, one ends it. *)
Exchange(t) ==
    /\ thread[t].at = "exchanging"
    /\ IF Elapsed(t) >= RateWindow /\ windowStart = thread[t].start
       THEN /\ windowStart' = thread[t].now /\ Goes(t, "swapping")
            /\ windows' = Append(windows, [from |-> thread[t].start, to |-> thread[t].now, calls |-> 0])
            /\ UNCHANGED <<rateCalls, rateBytes>>
       ELSE Goes(t, "reading") /\ UNCHANGED <<windowStart, rateCalls, rateBytes, windows>>
    /\ UNCHANGED <<time, carried, windowCalls, lastBytes, started>>

Swap(t) ==
    /\ thread[t].at = "swapping"
    /\ thread' = [thread EXCEPT ![t].at = "storing", ![t].window = windowCalls]
    /\ windowCalls' = 0
    /\ windows' = [i \in DOMAIN windows |->
                       IF windows[i].to = thread[t].now /\ windows[i].from = thread[t].start
                       THEN [windows[i] EXCEPT !.calls = windowCalls] ELSE windows[i]]
    /\ UNCHANGED <<time, carried, windowStart, rateCalls, rateBytes, lastBytes, started>>
StoreCalls(t) ==
    /\ thread[t].at = "storing" /\ Goes(t, "measuring")
    /\ rateCalls' = PerSecond(t, thread[t].window)
    /\ UNCHANGED <<time, carried, windowStart, windowCalls, rateBytes, lastBytes, started, windows>>

(* Pool::moved and Member::moved: the bytes are read, then exchanged for those read before. *)
ReadBytes(t) ==
    /\ thread[t].at = "measuring"
    /\ thread' = [thread EXCEPT ![t].at = "moving", ![t].bytes = carried]
    /\ UNCHANGED <<time, carried, load, lastBytes, started, windows>>
Moved(t) ==
    /\ thread[t].at = "moving" /\ lastBytes' = thread[t].bytes
    /\ thread' = [thread EXCEPT ![t].at = "storingBytes",
                                ![t].bytes = SaturatingSub(thread[t].bytes, lastBytes)]
    /\ UNCHANGED <<time, carried, load, started, windows>>
StoreBytes(t) ==
    /\ thread[t].at = "storingBytes" /\ Goes(t, "reading")
    /\ rateBytes' = PerSecond(t, thread[t].bytes)
    /\ UNCHANGED <<time, carried, windowStart, windowCalls, rateCalls, lastBytes, started, windows>>

(* The call returns with the rates of the last window. *)
ReadRates(t) ==
    /\ thread[t].at = "reading" /\ thread' = [thread EXCEPT ![t] = Idle]
    /\ UNCHANGED <<time, carried, load, lastBytes, started, windows>>

LoadNext ==
    \/ Elapse \/ Carry
    \/ \E t \in Threads :
           \/ ReadClock(t) \/ Count(t) \/ LoadStart(t) \/ Exchange(t) \/ Swap(t) \/ StoreCalls(t)
           \/ ReadBytes(t) \/ Moved(t) \/ StoreBytes(t) \/ ReadRates(t)

-----------------------------------------------------------------------------
(* Windows follow one another, none shorter than RATE_WINDOW, and every call is counted in one of  *)
(* them, or still waits to be: a burst is neither lost nor counted twice however the threads that  *)
(* find a window over interleave, and the rate the pool grows by is that of a whole window, however *)
(* late it is stored (record_at).                                                                  *)
CountedOnce ==
    /\ FoldLeft(LAMBDA sum, window : sum + window.calls, windowCalls, windows) = started
    /\ \A i \in DOMAIN windows :
           /\ windows[i].to - windows[i].from >= RateWindow
           /\ i > 1 => windows[i].from = windows[i - 1].to
    /\ windows # <<>> => windowStart = windows[Len(windows)].to
    /\ rateCalls # 0 => \E i \in DOMAIN windows :
                           rateCalls = windows[i].calls \div (windows[i].to - windows[i].from)

=============================================================================
