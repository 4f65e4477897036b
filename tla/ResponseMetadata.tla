-------------------------- MODULE ResponseMetadata --------------------------
(* The headers and trailing metadata a handler sets through its request context, whose clones share *)
(* them, and the server that takes each once: the headers when the handler returns, the trailing    *)
(* metadata when the response ends with OK (response.rs; server.rs handle_request,                  *)
(* handle_streaming_request and ServerResponseStream).                                              *)
EXTENDS Naturals, Sequences, Functions

CONSTANTS Keys,        \* as written
          Values,      \* sizes of values
          MaxTotal,    \* MAX_METADATA_TOTAL_SIZE
          MaxSets      \* bound: values set

VARIABLES state,       \* ResponseMetadataState
          call,        \* "handler", "returned", "streaming", "ok" or "failed"
          streams,     \* the method streams responses
          sentHeaders, sentTrailers,   \* what reached the client
          setLog       \* ghost: each set, with how it went

metadataVars == <<state, call, streams, sentHeaders, sentTrailers, setLog>>

Kinds == {"headers", "metadata"}
None == [k \in {} |-> 0]
NewMetadata(shapes) ==
    /\ state = [headers |-> None, metadata |-> None, headers_sent |-> FALSE, metadata_sent |-> FALSE]
    /\ call = "handler" /\ streams \in shapes /\ sentHeaders = None /\ sentTrailers = None /\ setLog = <<>>
MetadataInit == NewMetadata(BOOLEAN)

NormalizeMetadataKey(key) == IF key = "K" THEN "k" ELSE key

(* validate_metadata *)
ValidateMetadata(metadata) ==
    /\ "trevrpc-x" \notin DOMAIN metadata
    /\ FoldFunction(+, 0, metadata) <= MaxTotal

Insert(target, key, value) ==
    [k \in DOMAIN target \cup {key} |-> IF k = key THEN value ELSE target[k]]

Sent(kind) == IF kind = "headers" THEN state.headers_sent ELSE state.metadata_sent

(* A set that is taken back by removing the key. *)
Removed(target, key) == [k \in DOMAIN target \ {key} |-> target[k]]
(* An insert that is not valid is taken back: the previous value returns. *)
TakenBack(target, key) == target

(* set_header and set_metadata, by any holder of a clone and at any time. *)
SetValue(kind, key, value) ==
    LET normalized == NormalizeMetadataKey(key)
        target == state[kind]
        inserted == Insert(target, normalized, value)
        ok == ~Sent(kind) /\ ValidateMetadata(inserted)
    IN  /\ Len(setLog) < MaxSets
        /\ state' = IF Sent(kind) THEN state
                    ELSE [state EXCEPT ![kind] = IF ok THEN inserted ELSE TakenBack(target, normalized)]
        /\ setLog' = Append(setLog, [kind |-> kind, key |-> normalized, value |-> value, ok |-> ok])
        /\ UNCHANGED <<call, streams, sentHeaders, sentTrailers>>

(* take_headers, when the handler returned a response. *)
TakeHeaders ==
    /\ call = "handler" /\ call' = "returned"
    /\ sentHeaders' = state.headers
    /\ state' = [state EXCEPT !.headers_sent = TRUE, !.headers = None]
    /\ UNCHANGED <<streams, sentTrailers, setLog>>
(* take_metadata: right after for a unary call, and at the end of a response stream. *)
TakeMetadata ==
    /\ call = "returned" /\ call' = "ok"
    /\ sentTrailers' = state.metadata
    /\ state' = [state EXCEPT !.headers_sent = TRUE, !.metadata_sent = TRUE, !.metadata = None]
    /\ UNCHANGED <<streams, sentHeaders, setLog>>

(* The handler, or its stream, fails: nothing it set is sent with the status. *)
FailCall ==
    /\ call = "handler" \/ (call = "returned" /\ streams)
    /\ call' = "failed"
    /\ UNCHANGED <<state, streams, sentHeaders, sentTrailers, setLog>>

MetadataNext ==
    \/ \E kind \in Kinds, key \in Keys, value \in Values : SetValue(kind, key, value)
    \/ TakeHeaders \/ TakeMetadata \/ FailCall

MetadataSpec == MetadataInit /\ [][MetadataNext]_metadataVars

(* What the sets of a kind that succeeded make: the last value of each key. *)
LatestOf(metadata, sets, kind) ==
    LET accepted == {i \in DOMAIN sets : sets[i].kind = kind /\ sets[i].ok}
    IN  /\ DOMAIN metadata = {sets[i].key : i \in accepted}
        /\ \A k \in DOMAIN metadata : \E i \in accepted :
               /\ sets[i].key = k /\ metadata[k] = sets[i].value
               /\ \A j \in accepted : sets[j].key = k => j <= i

(* A value whose set succeeded is sent, unless a later one replaced it or the call failed first;    *)
(* and one whose set failed, because it came too late or was not valid, neither is sent nor takes   *)
(* the place of one that is.                                                                        *)
SetIsSent ==
    /\ call \in {"returned", "ok"} => LatestOf(sentHeaders, setLog, "headers")
    /\ call = "ok" => LatestOf(sentTrailers, setLog, "metadata")

=============================================================================
