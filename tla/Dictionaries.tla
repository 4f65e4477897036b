---------------------------- MODULE Dictionaries ----------------------------
(***************************************************************************)
(* Compressed messages (compression.rs): which dictionary each direction   *)
(* of the calls of one connection compresses with.  A client queries with  *)
(* its first calls, the server answers with what both hold, and until an   *)
(* answer arrives requests travel uncompressed.  A dictionary is its ID    *)
(* and fingerprint; two peers may hold different ones under one ID.        *)
(* Compression without a dictionary is the dictionary Plain, which all     *)
(* hold.  Options are sets of at most one element.                         *)
(***************************************************************************)
EXTENDS Naturals, FiniteSets

CONSTANTS DictionaryCalls, \* calls of one connection
          Ids,             \* the IDs of dictionaries
          Fingerprints,
          MaxDictionaries  \* bound: dictionaries a peer is configured with

(* dictionary_id *)
ASSUME DictionaryIds == Ids \subseteq Nat \ {0}

(* Every call's requests and responses are of one message type, in the schema both peers have. *)
Plain == [id |-> 0, fingerprint |-> "none"]

VARIABLES clientConfig, serverConfig,  \* CompressionConfig
          plain,       \* the calls whose method allows compression without a dictionary
          known,       \* ClientCompression::shared is set
          shared,      \*   and to what
          step,        \* where each call is
          query,       \* RpcRequest::dictionary_query
          accept,      \* ClientCall::accept, whose ID is RpcRequest::accept_dictionaries
          requests,    \* ClientCall::requests
          pending,     \*   and whether it is CallDict::Pending
          answer,      \* ServerCall::answer, if the request queried
          responses,   \* ServerCall::responses
          rejected     \* a receiver rejected a compressed message

configs == <<clientConfig, serverConfig, plain>>
clientCall == <<query, accept, requests, pending>>
serverCall == <<answer, responses>>
dictVars == <<configs, known, shared, step, clientCall, serverCall, rejected>>

(* Dict::new *)
Dicts == [id : Ids, fingerprint : Fingerprints]

(* CompressionConfig::new: no two dictionaries of one ID, no type in two.  One without messages is *)
(* offered and never used to compress.                                                             *)
Configs ==
    LET Held == {ds \in SUBSET Dicts : /\ Cardinality(ds) <= MaxDictionaries
                                       /\ \A d, e \in ds : d.id = e.id => d = e}
    IN  UNION {{[holds |-> ds \cup {Plain}, forType |-> t] :
                   t \in {{}} \cup {{d} : d \in ds}} : ds \in Held}

Unlearned ==
    /\ known = FALSE /\ shared = {}
    /\ step = [c \in DictionaryCalls |-> "new"]
    /\ query = [c \in DictionaryCalls |-> {}] /\ accept = [c \in DictionaryCalls |-> {}]
    /\ requests = [c \in DictionaryCalls |-> {}] /\ pending = [c \in DictionaryCalls |-> FALSE]
    /\ answer = [c \in DictionaryCalls |-> {}] /\ responses = [c \in DictionaryCalls |-> {}]
    /\ rejected = FALSE

DictInit ==
    /\ clientConfig \in Configs /\ serverConfig \in Configs /\ plain \in SUBSET DictionaryCalls
    /\ Unlearned

-----------------------------------------------------------------------------
(* Choosing a dictionary. *)

(* CompressionConfig::dict_for: the type's dictionary, or else, where it is allowed, none. *)
DictFor(config, allowed, usable) ==
    LET own == config.forType \cap usable
    IN  IF own # {} THEN own ELSE {d \in {Plain} : allowed} \cap usable

(* A comparison of IDs alone. *)
MatchesId(config, infos) == {info \in infos : \E d \in config.holds : d.id = info.id}

(* CompressionConfig::matches, of each of infos: ID and fingerprint. *)
Matches(config, infos) == infos \cap config.holds

-----------------------------------------------------------------------------
(* Negotiation. *)

(* ClientCompression::prepare: until the answer arrives, whatever is held may be asked about. *)
Prepare(c) ==
    LET usable == IF known THEN shared ELSE clientConfig.holds
        dict == DictFor(clientConfig, c \in plain, usable)
    IN  /\ step[c] = "new"
        /\ query' = [query EXCEPT ![c] = IF known THEN {} ELSE clientConfig.holds]
        /\ accept' = [accept EXCEPT ![c] = dict]
        /\ requests' = [requests EXCEPT ![c] = dict]
        /\ pending' = [pending EXCEPT ![c] = ~known]
        /\ step' = [step EXCEPT ![c] = "sent"]
        /\ UNCHANGED <<configs, known, shared, serverCall, rejected>>

(* negotiate: the answer to a query confirms what it names; without one the IDs that are accepted *)
(* are taken to be confirmed.                                                                     *)
Negotiate(c) ==
    LET confirmed == Matches(serverConfig, query[c])
        usable == {d \in serverConfig.holds :
                      /\ \E a \in accept[c] : a.id = d.id
                      /\ query[c] # {} => d \in confirmed}
    IN  /\ step[c] = "sent"
        /\ answer' = [answer EXCEPT ![c] = confirmed]
        /\ responses' = [responses EXCEPT ![c] = DictFor(serverConfig, c \in plain, usable)]
        /\ step' = [step EXCEPT ![c] = "served"]
        /\ UNCHANGED <<configs, known, shared, clientCall, rejected>>

(* ClientCompression::learn, from the ANSWER, which comes before the responses: the first wins. *)
Learn(c) ==
    /\ step[c] = "served"
    /\ IF query[c] # {} /\ ~known
       THEN known' = TRUE /\ shared' = Matches(clientConfig, answer[c])
       ELSE UNCHANGED <<known, shared>>
    /\ step' = [step EXCEPT ![c] = "answered"]
    /\ UNCHANGED <<configs, clientCall, serverCall, rejected>>

-----------------------------------------------------------------------------
(* Messages. *)

(* CallDict::get *)
RequestDict(c) ==
    IF pending[c] THEN {d \in requests[c] : known /\ d \in shared} ELSE requests[c]

(* Accept::lookup, by the ID in a frame. *)
Lookup(held, id) == {d \in held : d.id = id}

(* inflate: a frame of another dictionary of the ID it found is corrupt to Dict::decompress. *)
Rejects(dict, held) == Lookup(held, dict.id) # {dict}

(* Dict::compress, or not: a message that does not shrink, or is short and without a dictionary,  *)
(* travels uncompressed and cannot be rejected.                                                   *)
SendRequest(c) ==
    /\ step[c] # "new"
    /\ \E dict \in RequestDict(c) : rejected' = (rejected \/ Rejects(dict, serverConfig.holds))
    /\ UNCHANGED <<configs, known, shared, step, clientCall, serverCall>>
SendResponse(c) ==
    /\ step[c] = "answered"
    /\ \E dict \in responses[c] : rejected' = (rejected \/ Rejects(dict, accept[c]))
    /\ UNCHANGED <<configs, known, shared, step, clientCall, serverCall>>

DictNext ==
    \E c \in DictionaryCalls :
        Prepare(c) \/ Negotiate(c) \/ Learn(c) \/ SendRequest(c) \/ SendResponse(c)

DictSpec == DictInit /\ [][DictNext]_dictVars

-----------------------------------------------------------------------------
(* Correctness. *)

(* No compressed message is rejected, in either direction, whatever the two peers hold, although   *)
(* a call without a query names its dictionary by ID alone, and calls in flight when the answer    *)
(* arrives begin to compress in the middle (CallDict::Pending).                                    *)
NothingRejected == ~rejected

(* Once the connection has its answer, the requests of every call, those already under way         *)
(* included, use the dictionary of their type if both peers hold the same; and a call prepared     *)
(* from then on without a shared one compresses without a dictionary where its method allows it.   *)
SharedIsUsed ==
    \A c \in DictionaryCalls : (known /\ step[c] # "new") =>
        LET both == clientConfig.forType \cap serverConfig.holds
        IN  /\ both # {} => RequestDict(c) = both
            /\ (both = {} /\ ~pending[c]) => RequestDict(c) = {d \in {Plain} : c \in plain}

(* No compressed message is rejected, whatever dictionaries the two peers hold, and with the       *)
(* answer known, requests use the dictionary both peers hold (compression.rs, negotiate, inflate   *)
(* and prepare).                                                                                   *)
DictionariesAgree == NothingRejected /\ SharedIsUsed

=============================================================================
