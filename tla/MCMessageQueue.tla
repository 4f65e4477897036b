--------------------------- MODULE MCMessageQueue ---------------------------
(***************************************************************************)
(* The runtime's own synchronisation, for TLC: the message queue, the cell *)
(* of the latest value and the gate before a stream.  They have no state   *)
(* in common, so a behaviour is about one of them, its focus.              *)
(*                                                                         *)
(* Two producers send, or reserve while they are alone.  Sizes 1 and 4     *)
(* against a limit of 3 bytes reach the limit by count alone, by bytes     *)
(* alone, and overshoot it.                                                *)
(***************************************************************************)
EXTENDS MessageQueue, WakeUps

MCSizes == {1, 4}

VARIABLES focus

mcVars == <<focus, vars, latestVars, gateVars>>

MCInit == Init /\ LatestInit /\ GateInit /\ focus \in {"queue", "latest", "gate"}
MCNext ==
    /\ UNCHANGED focus
    /\ \/ focus = "queue" /\ Next /\ UNCHANGED <<latestVars, gateVars>>
       \/ focus = "latest" /\ LatestNext /\ UNCHANGED <<vars, gateVars>>
       \/ focus = "gate" /\ GateNext /\ UNCHANGED <<vars, latestVars>>

(* The fairness of MessageQueue. *)
InQueue(action) == focus = "queue" /\ action /\ UNCHANGED <<focus, latestVars, gateVars>>
MCSpec ==
    /\ MCInit /\ [][MCNext]_mcVars
    /\ \A p \in Producers : WF_mcVars(InQueue(p \in woken /\ (PollSend(p) \/ PollReserve(p))))
    /\ SF_mcVars(InQueue(Receiver \in woken /\ PollRecv))
    /\ WF_mcVars(InQueue(StartRecv))
    /\ \A t \in Tasks : WF_mcVars(InQueue(Wake(t)))

=============================================================================
