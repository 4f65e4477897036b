---------------------------- MODULE StreamLimits ----------------------------
(***************************************************************************)
(* The limits of one direction of a streaming call in the server:          *)
(* LimitedStream gives a handler the request's messages, and               *)
(* ServerResponseStream turns the handler's into frames.  Both poll an     *)
(* inner stream through a StreamTimer and count what it yields.  The pump  *)
(* has charged a request's messages to its RequestBudget before, with the  *)
(* frames it skipped.                                                      *)
(*                                                                         *)
(* An item is the length of a message or how the inner stream ended.  A    *)
(* poll is one step, and may come at any time: the task polls other things *)
(* too, and the timers wake it.  The clock is relative.                    *)
(***************************************************************************)
EXTENDS Integers, SequencesExt

CONSTANTS Lengths,      \* the lengths of messages and of skipped frames
          MaxMessages,  \* max_stream_messages
          MaxBody,      \* max_stream_body_size
          IdleTimeout,  \* stream_idle_timeout, in ticks, more than 0
          Deadlines,    \* the deadlines a call may have, in ticks
          MaxItems      \* bound: messages that arrive

NoTimer == 99

VARIABLES way,       \* [direction, headers]: "request" or "response", and whether headers wait
          deadline,  \* ticks left until the deadline, NoTimer without one
          idle,      \* the idle timer: ticks left, NoTimer before the first is made
          waiting,   \* StreamTimer::waiting
          quiet,     \* ticks since the last item, up to IdleTimeout
          arrived,   \* the lengths of the messages that reached this side
          skipped,   \* bytes of skipped request frames
          budget,    \* RequestBudget
          inner,     \* what the inner stream has ready
          counts,    \* messages and body_size
          yielded,   \* the messages yielded
          outcome,   \* "open", or how the stream ended
          cancelled  \* the call was cancelled for its deadline

slVars == <<way, deadline, idle, waiting, quiet, arrived, skipped, budget, inner, counts, yielded,
            outcome, cancelled>>

Total(s) == FoldSeq(+, 0, s)
Zero == [messages |-> 0, body |-> 0]
Item(len) == [what |-> "message", len |-> len]
Ending(how) == [what |-> how, len |-> 0]

(* limit_stream, server_response_stream: empty headers are never sent. *)
Start(ways, deadlines) ==
    /\ way \in ways /\ deadline \in deadlines
    /\ idle = NoTimer /\ waiting = FALSE /\ quiet = 0
    /\ arrived = <<>> /\ skipped = 0 /\ budget = Zero /\ inner = <<>>
    /\ counts = Zero /\ yielded = <<>> /\ outcome = "open" /\ cancelled = FALSE

Ways == [direction : {"request"}, headers : {FALSE}] \cup [direction : {"response"}, headers : BOOLEAN]
Init == Start(Ways, Deadlines \cup {NoTimer})
Fresh == Start({[direction |-> "request", headers |-> FALSE]}, {NoTimer})

-----------------------------------------------------------------------------
(* A byte limit that its own value exceeds. *)
OverBodyAt(c) == c.body >= MaxBody

(* check_stream_body_limit, after the bytes were added. *)
OverBody(c) == c.body > MaxBody

(* check_stream_message_body_limits: a message over the count is not added to it. *)
OverCount(c) == c.messages >= MaxMessages
Charge(c, len) ==
    IF OverCount(c) THEN c ELSE [messages |-> c.messages + 1, body |-> c.body + len]
Exceeds(c, len) == OverCount(c) \/ OverBody(Charge(c, len))

Running == outcome = "open"
InnerOpen == inner # <<>> => Last(inner).what = "message"

(* charge_message: a request message over the budget becomes its failure. *)
Arrive(len) ==
    /\ Running /\ InnerOpen /\ Len(arrived) < MaxItems
    /\ arrived' = Append(arrived, len)
    /\ IF way.direction = "request"
       THEN /\ budget' = Charge(budget, len)
            /\ inner' = Append(inner, IF Exceeds(budget, len) THEN Ending("refused") ELSE Item(len))
       ELSE inner' = Append(inner, Item(len)) /\ UNCHANGED budget
    /\ UNCHANGED <<way, deadline, idle, waiting, quiet, skipped, counts, yielded, outcome, cancelled>>

(* charge_skipped: a frame of unknown type counts toward the bytes. *)
Skip(len) ==
    /\ Running /\ InnerOpen /\ way.direction = "request" /\ skipped = 0
    /\ skipped' = skipped + len
    /\ budget' = [budget EXCEPT !.body = @ + len]
    /\ inner' = IF OverBody(budget') THEN Append(inner, Ending("refused")) ELSE inner
    /\ UNCHANGED <<way, deadline, idle, waiting, quiet, arrived, counts, yielded, outcome, cancelled>>

(* The inner stream ends or fails by itself. *)
InnerEnds ==
    /\ Running /\ InnerOpen
    /\ \E end \in {"end", "failed"} : inner' = Append(inner, Ending(end))
    /\ UNCHANGED <<way, deadline, idle, waiting, quiet, arrived, skipped, budget, counts, yielded,
                   outcome, cancelled>>

Down(timer) == IF timer \in {0, NoTimer} THEN timer ELSE timer - 1

Tick ==
    /\ Running
    /\ deadline' = Down(deadline) /\ idle' = Down(idle)
    /\ quiet' = IF quiet < IdleTimeout THEN quiet + 1 ELSE quiet
    /\ UNCHANGED <<way, waiting, arrived, skipped, budget, inner, counts, yielded, outcome, cancelled>>

-----------------------------------------------------------------------------
(* ServerResponseStream::poll_next, first of all: the headers. *)
PollHeaders ==
    /\ Running /\ way.headers
    /\ way' = [way EXCEPT !.headers = FALSE]
    /\ UNCHANGED <<deadline, idle, waiting, quiet, arrived, skipped, budget, inner, counts, yielded,
                   outcome, cancelled>>

Polls == Running /\ ~way.headers

(* The deadline is looked at before the items, and cancels the call. *)
PollDeadline ==
    /\ Polls /\ deadline = 0
    /\ outcome' = "deadline" /\ cancelled' = TRUE
    /\ UNCHANGED <<way, deadline, idle, waiting, quiet, arrived, skipped, budget, inner, counts,
                   yielded>>

Check(len) ==
    /\ counts' = Charge(counts, len)
    /\ IF Exceeds(counts, len)
       THEN outcome' = "exhausted" /\ UNCHANGED yielded
       ELSE yielded' = Append(yielded, len) /\ UNCHANGED outcome

(* An item that is ready ends the wait, whenever it arrived. *)
PollItem ==
    /\ Polls /\ deadline # 0 /\ inner # <<>>
    /\ inner' = Tail(inner) /\ quiet' = 0 /\ waiting' = FALSE
    /\ IF Head(inner).what = "message"
       THEN Check(Head(inner).len)
       ELSE outcome' = Head(inner).what /\ UNCHANGED <<counts, yielded>>
    /\ UNCHANGED <<way, deadline, idle, arrived, skipped, budget, cancelled>>

(* Every poll resets the timer. *)
ArmAgain == IdleTimeout

(* The first poll that waits resets the timer, and the later ones only look at it. *)
Arm == IF waiting THEN idle ELSE IdleTimeout

PollPending ==
    /\ Polls /\ deadline # 0 /\ inner = <<>>
    /\ waiting' = TRUE /\ idle' = Arm
    /\ outcome' = IF idle' = 0 THEN "idle" ELSE "open"
    /\ UNCHANGED <<way, deadline, quiet, arrived, skipped, budget, inner, counts, yielded, cancelled>>

Poll == PollHeaders \/ PollDeadline \/ PollItem \/ PollPending

Next ==
    \/ \E len \in Lengths : Arrive(len) \/ Skip(len)
    \/ InnerEnds \/ Tick
    \/ PollHeaders \/ PollDeadline \/ PollItem \/ PollPending

-----------------------------------------------------------------------------
(* What check_stream_message_body_limits lets through keeps the limits and the order, and they are *)
(* exact: a stream they end was sent more than they allow, skipped frames included.  The pump's    *)
(* budget refuses first: LimitedStream's own limits never end a request.                           *)
LimitsAreExact ==
    /\ Len(yielded) =< MaxMessages /\ Total(yielded) =< MaxBody /\ IsPrefix(yielded, arrived)
    /\ outcome \in {"exhausted", "refused"} =>
           Len(arrived) > MaxMessages \/ Total(arrived) + skipped > MaxBody
    /\ way.direction = "request" => outcome # "exhausted"

(* StreamTimer ends a stream as idle only when it was quiet for all of the timeout, however polls, *)
(* items and the clock interleave: a timer left from an earlier wait never counts.  Only a passed  *)
(* deadline cancels the call.                                                                      *)
IdleMeansQuiet ==
    /\ outcome = "idle" => inner = <<>> /\ quiet = IdleTimeout
    /\ cancelled <=> outcome = "deadline"

(* A stream with nothing to yield ends, although every poll touches its idle timer. *)
QuietEnds == []<>(inner # <<>> \/ outcome # "open")

=============================================================================
