---------------------------- MODULE ServerConfig ----------------------------
(***************************************************************************)
(* A Server is a handle to state its clones share, and the routes in it    *)
(* are shared once more: the setters copy what another handle still uses.  *)
(* Every connection and stream holds a clone, and a call reads the routes, *)
(* the authorizer, the dictionaries and the memory of its clone at several *)
(* awaits while the application configures its own handle.                 *)
(*                                                                         *)
(* The setters of one handle are what an application calls before it       *)
(* serves, or between two calls of serve.  `own` is what each handle would *)
(* hold if nothing were shared.                                            *)
(***************************************************************************)
EXTENDS Naturals, Sequences, FiniteSets

CONSTANTS ServerHandles,     \* handles to servers
          Paths,       \* well-formed method paths
          Routes,      \* the routes that are registered
          Options,     \* the options that are set
          Authorizers, \* what set_authorizer is given
          Requests,    \* the requests of calls
          MaxChanges   \* bound: calls of setters, beside one call

(* Memory is finite, and RpcKind has four values. *)
ASSUME HandlesAssumption == IsFiniteSet(ServerHandles)
ASSUME RequestKinds == \A request \in Requests : request.kind \in {"unary", "client", "server", "bidi"}

Dirs == {"requests", "responses"}
NoRoute == [kind |-> "none"]
Nobody == 0

(* A pointer is a number, and 0 is none.  At most one state per handle is live. *)
Pointers == 1..(Cardinality(ServerHandles) + 1)

VARIABLES handles,  \* the state each handle points to, 0 for none
          states,   \* the ServerState at each pointer
          maps,     \* the route map at each pointer
          own,      \* what each handle was configured with
          changes,
          rpc       \* one call, with the handle it holds

cfgVars == <<handles, states, maps, own, changes, rpc>>

-----------------------------------------------------------------------------
(* RpcKind *)
StreamsRequests(kind) == kind \in {"client", "bidi"}
StreamsResponses(kind) == kind \in {"server", "bidi"}
Streams(kind) == {d \in Dirs : IF d = "requests" THEN StreamsRequests(kind) ELSE StreamsResponses(kind)}

(* Unreliable::effective and union, CompressStream::effective and without_unreliable *)
Union(marked, more) == marked \cup more
Effective(marked, kind) == marked \cap Streams(kind)
StreamEffective(allowed, kind) == allowed \cap Streams(kind)
WithoutUnreliable(allowed, unreliable) == allowed \ unreliable

(* RouteOptions: directions marked twice stay marked, the other settings are replaced. *)
RouteOptions(marked, more, stream, compress, types) ==
    [unreliable |-> Union(marked, more), stream |-> stream, compress |-> compress, types |-> types]

(* route, route_with_options and route_streaming_with_options. *)
UnaryRoute(options) == [kind |-> "unary", options |-> options]
StreamingRoute(kind, options) == [kind |-> kind, options |-> options]

(* MetadataValueAuthorizer::new lowercases the key; AuthorizerChain::with appends. *)
Lower(key) == IF key = "KEY" THEN "key" ELSE key
MetadataValue(key, value) == [key |-> Lower(key), value |-> value]
ConstantTimeEq(left, right) == left = right
AuthorizesOne(authorizer, request) ==
    /\ authorizer.key \in DOMAIN request.metadata
    /\ ConstantTimeEq(request.metadata[authorizer.key], authorizer.value)
AuthorizesAll(chain, request) == \A i \in 1..Len(chain) : AuthorizesOne(chain[i], request)

-----------------------------------------------------------------------------
(* CompressionConfig::new and StreamBudget::new: what is derived from the options. *)
Digest(options) ==
    IF options.dictionaries = "invalid" THEN "invalid" ELSE options.dictionaries
NewBudget(memory) == IF memory = 0 THEN "none" ELSE "budget"

DefaultOptions == [dictionaries |-> "none", memory |-> 1]
NewConfig ==
    [options |-> DefaultOptions, authorizer |-> <<>>, interceptors |-> <<>>, metrics |-> "noop",
     compression |-> "unset", budget |-> "budget"]

(* The with_ methods of ServerOptions replace one field each. *)
With(options, field, value) == [options EXCEPT ![field] = value]

NoRoutes == [p \in Paths |-> NoRoute]
NoCall == [stage |-> "none"]
Gone == [stage |-> "gone"]
InCall == rpc.stage \notin {"none", "gone"}

Live(id) == \E h \in ServerHandles : handles[h] = id
Refs(id) == Cardinality({h \in ServerHandles : handles[h] = id})
LiveMap(m) == \E id \in Pointers : Live(id) /\ states[id].routes = m
MapRefs(m) == Cardinality({id \in Pointers : Live(id) /\ states[id].routes = m})
FreeState == CHOOSE id \in Pointers : ~Live(id)
FreeMap == CHOOSE m \in Pointers : ~LiveMap(m)

Unused == [config |-> NewConfig, routes |-> NoRoutes]

(* One handle, whose application has registered these routes and this authorizer. *)
Start(routes, chain) ==
    LET first == CHOOSE h \in ServerHandles : TRUE
        config == [NewConfig EXCEPT !.authorizer = chain]
    IN  /\ handles = [h \in ServerHandles |-> IF h = first THEN 1 ELSE Nobody]
        /\ states = [id \in Pointers |->
                        [config |-> IF id = 1 THEN config ELSE NewConfig, routes |-> 1]]
        /\ maps = [m \in Pointers |-> IF m = 1 THEN routes ELSE NoRoutes]
        /\ own = [h \in ServerHandles |->
                     IF h = first THEN [config |-> config, routes |-> routes] ELSE Unused]
        /\ changes = 0 /\ rpc = NoCall

ConfigInit == \E routes \in [Paths -> Routes \cup {NoRoute}], chain \in Authorizers \cup {<<>>} :
            Start(routes, chain)

Config(h) == states[handles[h]].config
RoutesOf(h) == maps[states[handles[h]].routes]

-----------------------------------------------------------------------------

(* state_mut: Arc::make_mut copies the state, and with it only the pointer to the routes. *)
StateMut(h, config) ==
    LET id == IF Refs(handles[h]) = 1 THEN handles[h] ELSE FreeState
    IN  /\ handles' = [handles EXCEPT ![h] = id]
        /\ states' = [states EXCEPT ![id] = [states[handles[h]] EXCEPT !.config = config]]

Changes(h) ==
    /\ handles[h] # Nobody /\ changes < MaxChanges
    /\ InCall => h # rpc.server
    /\ changes' = changes + 1
    /\ UNCHANGED rpc

Set(h, config) ==
    /\ StateMut(h, config)
    /\ own' = [own EXCEPT ![h].config = config]
    /\ UNCHANGED maps

(* Options that leave the memory of the options before them. *)
WithOptionsOnly(config, options) ==
    [config EXCEPT !.options = options, !.compression = Digest(options)]

(* What set_options leaves: both caches are made again. *)
WithOptions(config, options) ==
    [config EXCEPT !.options = options, !.compression = Digest(options),
                   !.budget = NewBudget(options.memory)]

SetOptions(h, options) == Changes(h) /\ Set(h, WithOptions(Config(h), options))
SetAuthorizer(h, chain) == Changes(h) /\ Set(h, [Config(h) EXCEPT !.authorizer = chain])
ClearAuthorizer(h) == Changes(h) /\ Set(h, [Config(h) EXCEPT !.authorizer = <<>>])
AddInterceptor(h) ==
    Changes(h) /\ Set(h, [Config(h) EXCEPT !.interceptors = Append(@, "interceptor")])
ClearInterceptors(h) == Changes(h) /\ Set(h, [Config(h) EXCEPT !.interceptors = <<>>])
SetMetrics(h) == Changes(h) /\ Set(h, [Config(h) EXCEPT !.metrics = "metrics"])

(* insert_route: the routes are copied too, when another state still points to them. *)
InsertRoute(h, path, route) ==
    LET id == IF Refs(handles[h]) = 1 THEN handles[h] ELSE FreeState
        shared == id # handles[h] \/ MapRefs(states[handles[h]].routes) > 1
        m == IF shared THEN FreeMap ELSE states[handles[h]].routes
    IN  /\ Changes(h)
        /\ handles' = [handles EXCEPT ![h] = id]
        /\ maps' = [maps EXCEPT ![m] = [RoutesOf(h) EXCEPT ![path] = route]]
        /\ states' = [states EXCEPT ![id] = [config |-> Config(h), routes |-> m]]
        /\ own' = [own EXCEPT ![h].routes = [@ EXCEPT ![path] = route]]

(* Handles are interchangeable: a clone gets a free one. *)
FreeHandle == CHOOSE g \in ServerHandles : handles[g] = Nobody
Copy(h) ==
    /\ handles[h] # Nobody /\ \E g \in ServerHandles : handles[g] = Nobody
    /\ handles' = [handles EXCEPT ![FreeHandle] = handles[h]]
    /\ own' = [own EXCEPT ![FreeHandle] = own[h]]

Clone(h) == Copy(h) /\ UNCHANGED <<states, maps, changes, rpc>>

(* The last handle frees the state, and the last state its routes. *)
DropHandle(h) ==
    LET id == handles[h]
        last == Refs(id) = 1
        m == states[id].routes
    IN  /\ handles' = [handles EXCEPT ![h] = Nobody]
        /\ own' = [own EXCEPT ![h] = Unused]
        /\ states' = IF last THEN [states EXCEPT ![id] = [config |-> NewConfig, routes |-> 1]]
                     ELSE states
        /\ maps' = IF last /\ MapRefs(m) = 1 THEN [maps EXCEPT ![m] = NoRoutes] ELSE maps

Drop(h) ==
    /\ handles[h] # Nobody /\ Cardinality({g \in ServerHandles : handles[g] # Nobody}) > 1
    /\ InCall => h # rpc.server
    /\ DropHandle(h)
    /\ UNCHANGED <<changes, rpc>>

-----------------------------------------------------------------------------
(* A call's requests: the fields of the REQUEST frame that decide what becomes of it.  An unknown *)
(* kind reads as unary (rpc_kind), an unknown offer as none.                                      *)
Kind(request) == IF request.fault = "kind" THEN "unary" ELSE request.kind
Offer(request) == IF request.fault = "offer" THEN "none" ELSE request.offer

ValidKey(key) == key = Lower(key)
ValidMetadata(request) == \A key \in DOMAIN request.metadata : ValidKey(key)
ValidPath(request) == request.path \in Paths
ValidProtocol(request) == ValidPath(request) /\ request.fault \notin {"kind", "offer"}
ValidDeadline(request) == request.fault # "timeout"

(* admit *)
AdmitRequest(config, request) ==
    IF ~ValidMetadata(request) \/ ~ValidProtocol(request) \/ ~ValidDeadline(request) THEN "invalid"
    ELSE IF AuthorizesAll(config.authorizer, request) THEN "admitted" ELSE "unauthenticated"

RouteOf(routes, path) == IF path \in Paths THEN routes[path] ELSE NoRoute
IsStreaming(route) == route.kind \notin {"none", "unary"}

RouteUnreliable(route) ==
    IF IsStreaming(route) THEN Effective(route.options.unreliable, route.kind) ELSE {}
RouteCompressStream(route) ==
    IF IsStreaming(route)
    THEN WithoutUnreliable(StreamEffective(route.options.stream, route.kind), route.options.unreliable)
    ELSE {}
RouteCompress(route) == IF route = NoRoute THEN {} ELSE route.options.compress
RouteMessageTypes(route) == route # NoRoute /\ route.options.types
AnswersAtDispatch(route) == "requests" \in RouteCompressStream(route)
RefusesOptimistic(route, request, decodes) ==
    /\ Offer(request) = "optimistic" /\ ~decodes
    /\ IsStreaming(route) /\ route.kind = Kind(request)

(* read_request_and_message: a stream's task reads the request, and what compresses its responses *)
(* is settled from the route.                                                                     *)
AcceptRequest(h, request) ==
    /\ rpc = NoCall /\ Copy(h)
    /\ LET route == RouteOf(RoutesOf(h), request.path)
       IN  rpc' = [stage |-> "read", server |-> FreeHandle, request |-> request, asked |-> FALSE,
                    compress |-> RouteCompress(route), types |-> RouteMessageTypes(route),
                    decodes |-> FALSE, stream |-> {}, answered |-> FALSE, unreliable |-> {},
                    outcome |-> "none"]
    /\ UNCHANGED <<states, maps, changes>>

Step(update) ==
    /\ rpc' = update
    /\ UNCHANGED <<handles, states, maps, own, changes>>
CallRoute == RouteOf(RoutesOf(rpc.server), rpc.request.path)
AtStage(stage) == rpc.stage = stage
Ended(outcome) == [rpc EXCEPT !.stage = "done", !.outcome = outcome]

(* handle_stream admits a streaming call first of all; the authorizer is awaited. *)
AdmitStreaming ==
    /\ AtStage("read") /\ Kind(rpc.request) # "unary"
    /\ LET result == AdmitRequest(Config(rpc.server), rpc.request)
       IN  Step(IF result = "admitted"
                THEN [rpc EXCEPT !.stage = "admitted", !.asked = TRUE]
                ELSE Ended(result))

(* negotiate_stream and refuses_optimistic: the decoder may find no memory left. *)
NegotiateWith(room) ==
    LET usable == Offer(rpc.request) # "none" /\ Config(rpc.server).budget # "none"
        stream == IF usable THEN RouteCompressStream(CallRoute) ELSE {}
        decodes == "requests" \in stream /\ room
    IN  Step(IF RefusesOptimistic(CallRoute, rpc.request, decodes)
             THEN Ended("refused")
             ELSE [rpc EXCEPT !.stage = "negotiated", !.decodes = decodes,
                               !.stream = stream \ (IF decodes THEN {} ELSE {"requests"})])
Negotiate ==
    /\ AtStage("admitted") \/ (AtStage("read") /\ Kind(rpc.request) = "unary")
    /\ \E room \in BOOLEAN : NegotiateWith(room)

(* handle_streaming_rpc: the answer is written, which is awaited. *)
AnswerDispatch ==
    /\ AtStage("negotiated") /\ rpc.asked
    /\ Step([rpc EXCEPT !.stage = "answered", !.answered = AnswersAtDispatch(CallRoute),
                         !.unreliable = RouteUnreliable(CallRoute)])

(* handle_streaming_request: the call is not admitted again. *)
DispatchStreaming ==
    /\ AtStage("answered")
    /\ Step(Ended(IF ~IsStreaming(CallRoute) THEN "unimplemented"
                  ELSE IF CallRoute.kind # Kind(rpc.request) THEN "mismatch" ELSE "handled"))

(* handle_request admits a unary call. *)
DispatchUnary ==
    /\ AtStage("negotiated") /\ ~rpc.asked
    /\ LET result == AdmitRequest(Config(rpc.server), rpc.request)
       IN  Step(Ended(IF result # "admitted" THEN result
                      ELSE IF CallRoute.kind # "unary" THEN "unimplemented" ELSE "handled"))

EndRpc ==
    /\ AtStage("done")
    /\ DropHandle(rpc.server)
    /\ rpc' = Gone
    /\ UNCHANGED changes

ConfigNext ==
    \/ \E h \in ServerHandles :
           \/ \E options \in Options : SetOptions(h, options)
           \/ \E chain \in Authorizers : SetAuthorizer(h, chain)
           \/ ClearAuthorizer(h) \/ AddInterceptor(h) \/ ClearInterceptors(h) \/ SetMetrics(h)
           \/ \E path \in Paths, route \in Routes : InsertRoute(h, path, route)
           \/ Clone(h) \/ Drop(h)
           \/ \E request \in Requests : AcceptRequest(h, request)
    \/ AdmitStreaming \/ Negotiate \/ AnswerDispatch \/ DispatchStreaming \/ DispatchUnary \/ EndRpc

ConfigSpec == ConfigInit /\ [][ConfigNext]_cfgVars

-----------------------------------------------------------------------------
(* Handles are as if nothing were shared: however clones, drops and setters interleave, each reads *)
(* what was set through it or through the handle it was cloned from, up to the clone.  What        *)
(* set_options derives from the options is that of the options in place.                           *)
ClonesIsolated ==
    \A h \in ServerHandles : handles[h] # Nobody =>
        /\ Config(h) = own[h].config /\ RoutesOf(h) = own[h].routes
        /\ Config(h).compression # "unset" =>
               /\ Config(h).compression = Digest(Config(h).options)
               /\ Config(h).budget = NewBudget(Config(h).options.memory)

(* What becomes of a call is decided by one configuration, that of its clone, although it is read  *)
(* at several awaits, and in one order: nothing that depends on a route is told to a caller the    *)
(* authorizer has not admitted; a call is refused for its stream compression only where it would   *)
(* have been handled; and a direction that may use datagrams never has a stream context.           *)
DispatchIsConsistent ==
    InCall =>
        LET config == own[rpc.server].config
            route == RouteOf(own[rpc.server].routes, rpc.request.path)
            admitted == AdmitRequest(config, rpc.request) = "admitted"
            matches == route.kind = Kind(rpc.request)
        IN  /\ rpc.outcome \in {"refused", "mismatch", "unimplemented", "handled"} => admitted
            /\ rpc.answered => admitted
            /\ rpc.outcome = "handled" => matches
            /\ rpc.outcome = "refused" => matches /\ Offer(rpc.request) = "optimistic"
            /\ rpc.outcome = "unimplemented" => ~matches
            /\ rpc.outcome = "mismatch" => ~matches /\ IsStreaming(route)
            /\ rpc.outcome = "handled" /\ Offer(rpc.request) = "optimistic"
                   /\ StreamsRequests(Kind(rpc.request)) => rpc.decodes
            /\ rpc.stream \cap rpc.unreliable = {}
            /\ rpc.decodes /\ rpc.stage \in {"answered", "done"} /\ matches => rpc.answered

(* Every clone of a Server keeps the options and routes it was given, whatever is done to the      *)
(* others (state_mut copies what they share), and a call is dispatched under one consistent view   *)
(* of its route's options.                                                                         *)
ServersAreConsistent == ClonesIsolated /\ DispatchIsConsistent

=============================================================================
