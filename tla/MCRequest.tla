----------------------------- MODULE MCRequest ------------------------------
(***************************************************************************)
(* The server's side of a request for TLC: the pump of a call, the limits  *)
(* on its streams, and the frames below them, each on its own.             *)
(***************************************************************************)
EXTENDS RequestPump, FiniteSets

CONSTANTS Lengths, LimitMessages, MaxBody, IdleTimeout, Deadlines, MaxItems,
          First, CoalesceMax, BufferedMax, DiscardChunk, Batch, MaxFrameSize

VARIABLES focus, way, deadline, idle, waiting, quiet, arrived, skippedBytes, budget, inner, counts,
          yielded, outcome, cancelled,
          role, frames, written, wire, fin, pos, pending, stage, buf, want, header, phase, frGot,
          skipped, result

Limits == INSTANCE StreamLimits WITH MaxMessages <- LimitMessages, skipped <- skippedBytes

(* Frames of every type, encodings longer than needed, and payloads on both sides of each bound. *)
Frame(type, len, typeLen, lenLen) == [type |-> type, len |-> len, typeLen |-> typeLen, lenLen |-> lenLen]
Frames == {Frame(0, 0, 1, 1), Frame(0, 3, 1, 1), Frame(0, 1, 2, 2), Frame(1, 1, 1, 2), Frame(2, 1, 1, 1),
           Frame(3, 4, 1, 2), Frame(70, 2, 4, 1), Frame(0, 6, 1, 2)}
Scripts == UNION {[1..n -> Frames] : n \in 0..2}
           \cup {<<Frame(1, 1, 1, 1)>> \o s : s \in [1..2 -> Frames]}

Fr == INSTANCE Framing WITH got <- frGot

limits == <<way, deadline, idle, waiting, quiet, arrived, skippedBytes, budget, inner, counts, yielded,
            outcome, cancelled>>
framing == <<role, frames, written, wire, fin, pos, pending, stage, buf, want, header, phase, frGot,
             skipped, result>>
mcVars == <<focus, vars, limits, framing>>

PumpFresh == Init /\ kind = "streaming"

MCInit ==
    \/ focus = "pump" /\ Init /\ Limits!Fresh /\ Fr!Fresh
    \/ focus = "limits" /\ PumpFresh /\ Limits!Init /\ Fr!Fresh
    \/ focus = "framing" /\ PumpFresh /\ Limits!Fresh /\ Fr!Init

MCNext ==
    \/ focus = "pump" /\ Next /\ UNCHANGED <<focus, limits, framing>>
    \/ focus = "limits" /\ Limits!Next /\ UNCHANGED <<focus, vars, framing>>
    \/ focus = "framing" /\ Fr!Next /\ UNCHANGED <<focus, vars, limits>>

(* The pump is a task, an answered stream is drained or bounded by the peer and the connection, *)
(* and the clock and the inner stream wake whoever polls a limited stream.                      *)
MCFairness ==
    /\ WF_mcVars(focus = "pump" /\ Pumps /\ UNCHANGED <<focus, limits, framing>>)
    /\ WF_mcVars(focus = "pump" /\ DiscardEnds /\ UNCHANGED <<focus, limits, framing>>)
    /\ WF_mcVars(focus = "pump" /\ Settled /\ UNCHANGED <<focus, limits, framing>>)
    /\ WF_mcVars(focus = "limits" /\ Limits!Tick /\ UNCHANGED <<focus, vars, framing>>)
    /\ WF_mcVars(focus = "limits" /\ Limits!Poll /\ UNCHANGED <<focus, vars, framing>>)

MCSpec == MCInit /\ [][MCNext]_mcVars /\ MCFairness

(* Exactly the known frames sent are read, whole and in order, and a cut stream never looks ended *)
(* (framed.rs).                                                                                   *)
FramesSurvive == Fr!FramesSurvive

(* What the limits let through keeps them and the order, and they are exact (server.rs,            *)
(* check_stream_message_body_limits); only a stream that was quiet for all of the timeout is ended *)
(* as idle, and only a passed deadline cancels the call (StreamTimer).                             *)
LimitsHold == Limits!LimitsAreExact /\ Limits!IdleMeansQuiet

(* A call that settles gets its pump back (settle), and a stream that stays quiet is ended by      *)
(* StreamTimer, however often it is polled.                                                        *)
EndsInTime == SettleEnds /\ (focus = "limits" => Limits!QuietEnds)

=============================================================================
