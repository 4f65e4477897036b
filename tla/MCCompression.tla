--------------------------- MODULE MCCompression ---------------------------
(* Stream compression for TLC: its negotiation, optimism and replay over whole calls               *)
(* (StreamCompression), or the contexts of one direction message by message (StreamContexts); a    *)
(* behaviour is about one of them, its focus.                                                      *)
EXTENDS StreamCompression, StreamContexts

VARIABLE focus

mcVars == <<focus, vars, contextVars>>

MCInit ==
    /\ Init
    /\ \/ focus = "calls" /\ StartContexts({NewInflater({})})
       \/ focus = "contexts" /\ ContextsInit
OfCalls(action) == focus = "calls" /\ action /\ UNCHANGED <<focus, contextVars>>
MCNext ==
    \/ OfCalls(Next)
    \/ focus = "contexts" /\ ContextsNext /\ UNCHANGED <<focus, vars>>
MCFairness ==
    \A c \in Calls : /\ WF_mcVars(OfCalls(Uploads(c))) /\ WF_mcVars(OfCalls(Serves(c)))
                     /\ WF_mcVars(OfCalls(Receive(c))) /\ WF_mcVars(OfCalls(Reads(c)))
MCSpec == MCInit /\ [][MCNext]_mcVars /\ MCFairness

(* A replayed call delivers every request once and in order, unless either side ends it early      *)
(* (client/replay.rs).                                                                             *)
ReplayDelivers == focus = "calls" => AllReceived

=============================================================================
