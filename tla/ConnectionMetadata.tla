------------------------- MODULE ConnectionMetadata -------------------------
(***************************************************************************)
(* Connection metadata (connection_metadata.rs): a channel replaces its    *)
(* set now and then; a call offers the current set to its connection, or   *)
(* refers to it by ID once an ANSWER on that connection confirmed it; the  *)
(* server keeps the sets each connection was offered.  Calls are streams,  *)
(* so requests arrive and answers return in any order.  A set is its ID,   *)
(* as no two sets of a channel share one.                                  *)
(***************************************************************************)
EXTENDS Naturals, Sequences, FiniteSets, Functions

CONSTANTS Calls, Connections,
          Keeping,    \* the connections with a store: not the ordinary HTTP mapping's
          MaxSets,    \* MAX_SETS
          Versions    \* bound: sets the channel is given

VARIABLES current,     \* the source's current set; 0 for none
          ids,         \* ConnectionMetadataSource::ids
          setting,     \* the sets that have their ID and are not yet current
          confirmed,   \* ClientConnectionMetadata::confirmed, of each connection
          call,        \* where each call is
          request,     \* its RpcRequest::connection_metadata, and its connection
          reply,       \* the set its ANSWER confirms, and then the one learn found to be current
          sets,        \* ConnectionMetadataStore::sets, of each connection
          stored,      \* every store so far, in order
          merged       \* the set that was merged into each call's metadata

clientVars == <<current, ids, setting, confirmed>>
serverVars == <<sets, stored, merged>>
cmVars == <<clientVars, call, request, reply, serverVars>>

Fresh ==
    /\ current = 0 /\ ids = 0 /\ setting = {}
    /\ confirmed = [n \in Connections |-> 0]
    /\ call = [c \in Calls |-> "new"]
    /\ reply = [c \in Calls |-> 0] /\ merged = [c \in Calls |-> 0]
    /\ sets = [n \in Connections |-> <<>>] /\ stored = [n \in Connections |-> <<>>]

SetsInit ==
    /\ Fresh
    /\ request \in [Calls -> {[on |-> n, id |-> 0, offered |-> FALSE] : n \in Connections}]

(* ConnectionMetadataSource::set takes an ID, then writes the set, so that two at once may be      *)
(* written in either order; empty metadata needs no ID.                                            *)
Set ==
    /\ ids < Versions
    /\ ids' = ids + 1 /\ setting' = setting \cup {ids'}
    /\ UNCHANGED <<current, confirmed, call, request, reply, serverVars>>
WriteSet ==
    /\ \/ \E id \in setting : current' = id /\ setting' = setting \ {id}
       \/ current # 0 /\ current' = 0 /\ UNCHANGED setting
    /\ UNCHANGED <<ids, confirmed, call, request, reply, serverVars>>

(* ClientConnectionMetadata::prepare *)
PrepareSet(c) ==
    /\ call[c] = "new"
    /\ request' = [request EXCEPT ![c].id = current,
                                  ![c].offered = confirmed[request[c].on] # current]
    /\ call' = [call EXCEPT ![c] = "sent"]
    /\ UNCHANGED <<clientVars, reply, serverVars>>

(* ConnectionMetadataStore::store: the last MaxSets sets that were offered, each once. *)
Others(held, id) ==
    LET at == CHOOSE i \in DOMAIN held : held[i] = id
    IN  IF id \notin Range(held) THEN held
        ELSE [i \in 1..(Len(held) - 1) |-> IF i < at THEN held[i] ELSE held[i + 1]]
Stored(held, id) ==
    LET others == Others(held, id)
    IN  Append(IF Len(others) = MaxSets THEN Tail(others) ELSE others, id)

(* A lookup that falls back on the set stored last. *)
LookupNewest(held, id) == IF held = <<>> THEN {} ELSE {held[Len(held)]}

(* ConnectionMetadataStore::lookup *)
LookupSet(held, id) == Range(held) \cap {id}

(* resolve: an offer is merged, and stored where there is a store; a reference is looked up. *)
Resolve(c) ==
    LET r == request[c]
        known == IF r.on \in Keeping THEN LookupSet(sets[r.on], r.id) ELSE {}
        Serve(set) == call' = [call EXCEPT ![c] = "served"] /\ merged' = [merged EXCEPT ![c] = set]
    IN
    /\ call[c] = "sent"
    /\ \/ r.id = 0 /\ Serve(0) /\ UNCHANGED <<reply, sets, stored>>
       \/ /\ r.id # 0 /\ r.offered
          /\ Serve(r.id)
          /\ IF r.on \in Keeping
             THEN /\ sets' = [sets EXCEPT ![r.on] = Stored(@, r.id)]
                  /\ stored' = [stored EXCEPT ![r.on] = Append(@, r.id)]
                  /\ reply' = [reply EXCEPT ![c] = r.id]
             ELSE UNCHANGED <<reply, sets, stored>>
       \/ /\ r.id # 0 /\ ~r.offered /\ known # {}
          /\ \E set \in known : Serve(set)
          /\ UNCHANGED <<reply, sets, stored>>
       \/ /\ r.id # 0 /\ ~r.offered /\ known = {}
          /\ call' = [call EXCEPT ![c] = "failed"]
          /\ UNCHANGED <<reply, serverVars>>
    /\ UNCHANGED <<clientVars, request>>

(* OfferedSet::learn reads the current set, then stores the confirmation. *)
LearnSet(c) ==
    /\ call[c] = "served" /\ request[c].offered
    /\ reply' = [reply EXCEPT ![c] = IF @ = current THEN @ ELSE 0]
    /\ call' = [call EXCEPT ![c] = "answered"]
    /\ UNCHANGED <<clientVars, request, serverVars>>
Confirm(c) ==
    /\ call[c] = "answered"
    /\ confirmed' = IF reply[c] = 0 THEN confirmed
                    ELSE [confirmed EXCEPT ![request[c].on] = reply[c]]
    /\ call' = [call EXCEPT ![c] = "done"]
    /\ UNCHANGED <<current, ids, setting, request, reply, serverVars>>

SetsNext ==
    \/ Set \/ WriteSet
    \/ \E c \in Calls : PrepareSet(c) \/ Resolve(c) \/ LearnSet(c) \/ Confirm(c)

SetsSpec == SetsInit /\ [][SetsNext]_cmVars

-----------------------------------------------------------------------------
(* Correctness. *)

(* The server runs a call with the connection metadata that was current when the client prepared  *)
(* it, or fails it: never with an older or a newer set, however calls and answers are reordered.  *)
SeesItsSet ==
    \A c \in Calls : call[c] \in {"served", "answered", "done"} => merged[c] = request[c].id

(* A set that was stored, and since then as many others as a store keeps. *)
Evicted(s, id) ==
    LET Since == {s[j] : j \in {k \in 1..Len(s) : \A l \in 1..Len(s) : s[l] = id => l < k}}
    IN  id \in Range(s) /\ Cardinality(Since) >= MaxSets

(* A call fails only if the server of its connection has stored its set and since then as many     *)
(* others as it keeps (store, line 155): a reference only follows a confirmation on the same       *)
(* connection, and no call of a connection without a store ever fails.                             *)
FailsOnlyEvicted ==
    \A c \in Calls : (call[c] = "sent" /\ call'[c] = "failed") =>
        Evicted(stored[request[c].on], request[c].id)

(* Both, of every step; no call was sent before. *)
CallSeesItsSet == [][SeesItsSet' /\ FailsOnlyEvicted]_cmVars

=============================================================================
