------------------------------ MODULE MCServer ------------------------------
(* A server's calls, its configuration, its HTTP requests and the metadata of its responses, for  *)
(* TLC.  They have no state in common, so a behaviour is about one of them, its focus.            *)
EXTENDS ServerCall, ServerConfig, HttpServing, ResponseMetadata

VARIABLES focus

NoMetadata == [k \in {} |-> "v"]
CallRequest(kind, offer, metadata, fault) ==
    [path |-> "/s/m", kind |-> kind, offer |-> offer, metadata |-> metadata, fault |-> fault]
CallRequests ==
    {CallRequest("bidi", "optimistic", NoMetadata, "none"),
     CallRequest("bidi", "enabled", NoMetadata, "none"),
     CallRequest("client", "optimistic", [k \in {"key"} |-> "v"], "none"),
     CallRequest("unary", "optimistic", NoMetadata, "none"),
     CallRequest("bidi", "optimistic", NoMetadata, "kind"),
     CallRequest("unary", "none", [k \in {"KEY"} |-> "v"], "none")}

CallRoutes ==
    {UnaryRoute(RouteOptions({}, {}, {}, {"responses"}, TRUE)),
     StreamingRoute("bidi", RouteOptions({"responses"}, {}, Dirs, {}, FALSE))}
CallOptions ==
    {With(With(DefaultOptions, "memory", 0), "dictionaries", "valid"),
     With(DefaultOptions, "dictionaries", "invalid")}
CallAuthorizers == {<<MetadataValue("KEY", "v")>>}

HttpOption(http, webtransport, fallback, advertise, httpAdmission, admission, authorities, origins) ==
    [http |-> http, webtransport |-> webtransport, fallback |-> fallback, advertise |-> advertise,
     httpAdmission |-> httpAdmission, admission |-> admission, authorities |-> authorities,
     origins |-> origins]
MCOptionSets ==
    {HttpOption(h, w, f, TRUE, "none", "none", FALSE, FALSE) : h, w, f \in BOOLEAN}
    \cup {HttpOption(TRUE, TRUE, TRUE, FALSE, "denies", "denies", FALSE, FALSE)}
    \cup {HttpOption(TRUE, TRUE, FALSE, TRUE, "none", admission, authorities, origins) :
             admission \in {"none", "same_origin"}, authorities, origins \in BOOLEAN}

At(scheme, host, port) == [scheme |-> scheme, host |-> host, port |-> port]
Authority(host, port) == [host |-> host, port |-> port]
Plain == [version : {"http3", "http2", "http1"}, path : {"rpc", "other"}, method : {"POST", "GET"},
          contentType : {"trevrpc", "other"}, upgrade : {FALSE}, offer : {"none"}, key : {FALSE},
          version13 : {FALSE}, secure : {TRUE}, authority : {Authority("app", 0)},
          hasOrigin : {"none"}, origin : {At("", "", 0)}]
Browser(version, method, offers, keys, secure) ==
    [version : {version}, path : {"rpc"}, method : {method}, contentType : {"other"},
     upgrade : {version = "http1"}, offer : offers, key : keys, version13 : keys, secure : secure,
     authority : {Authority("app", 0), Authority("APP", 443), Authority("app", 80), Authority("", 0)},
     hasOrigin : {"some"},
     origin : {At("https", "app", 0), At("HTTPS", "APP", 443), At("http", "app", 80),
               At("https", "other", 0), At("https", "other", 8443), At("", "", 0)}]
    \cup [version : {version}, path : {"rpc", "other"}, method : {method}, contentType : {"other"},
     upgrade : {version = "http1"}, offer : offers, key : {TRUE}, version13 : {TRUE}, secure : secure,
     authority : {Authority("app", 443)}, hasOrigin : {"none", "empty"}, origin : {At("", "", 0)}]
MCHttpRequests ==
    Plain \cup Browser("http3", "CONNECT", {"none", "trevrpc", "other"}, {TRUE}, BOOLEAN)
          \cup Browser("http1", "GET", {"trevrpc", "other"}, BOOLEAN, {TRUE})

MCAllowedOrigins == {At("HTTPS", "other", 443)}
MCAllowedAuthorities == {Authority("app", 0)}

NoHttp == Received({CHOOSE o \in MCOptionSets : ~o.fallback}, {CHOOSE r \in Plain : r.version = "http1"})
NoConfig == Start(NoRoutes, <<>>)
NoResponse == NewMetadata({FALSE})

MCInit ==
    \/ focus = "calls" /\ Init /\ NoConfig /\ NoHttp /\ NoResponse
    \/ focus = "config" /\ ConfigInit /\ Init /\ NoHttp /\ NoResponse
    \/ focus = "http" /\ HttpInit /\ Init /\ NoConfig /\ NoResponse
    \/ focus = "response" /\ MetadataInit /\ Init /\ NoConfig /\ NoHttp
MCNext ==
    /\ UNCHANGED focus
    /\ \/ focus = "calls" /\ Next /\ UNCHANGED <<cfgVars, httpVars, metadataVars>>
       \/ focus = "config" /\ ConfigNext /\ UNCHANGED <<vars, httpVars, metadataVars>>
       \/ focus = "http" /\ HttpNext /\ UNCHANGED <<vars, cfgVars, metadataVars>>
       \/ focus = "response" /\ MetadataNext /\ UNCHANGED <<vars, cfgVars, httpVars>>
MCSpec == MCInit /\ [][MCNext]_<<focus, vars, cfgVars, httpVars, metadataVars>>

=============================================================================
