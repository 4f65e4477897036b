----------------------------- MODULE HttpServing -----------------------------
(***************************************************************************)
(* One HTTP request to a server, over HTTP/3, HTTP/2 or HTTP/1.1: who      *)
(* serves it (an RPC, a browser session, or the HTTP fallback), with which *)
(* status it is rejected otherwise, and how the fallback's response is     *)
(* written.  handle_http_request, http2 and http1 handle_request, the      *)
(* admission of WebTransport and WebSocket sessions, and write_body.       *)
(*                                                                         *)
(* An origin has its scheme, host and port as written: a port of 0 is      *)
(* none, and one without a scheme is malformed.                            *)
(***************************************************************************)
EXTENDS Naturals, Sequences

CONSTANTS OptionSets,  \* the options of the server
          HttpRequests, \* the requests, each of one HTTP version
          Frames,      \* bound: data frames of a body
          AllowedOrigins, AllowedAuthorities   \* of options whose lists are not empty

VARIABLES options, request,
          stage,    \* "received", "service", "writing" or "done"
          answer,   \* what serves the request, or the status that rejects it
          permit,   \* the stream slot, if one is free
          body,     \* what is left of the request's body
          got,      \* what the service has read of it
          data_done,
          made,     \* what the service's response yields, with how it ends
          altSvc,   \* who set Alt-Svc on the response
          wrote,    \* the response frames that reached the peer
          peer,     \* "reading", or "gone": it stopped reading, or the connection is lost
          end       \* how the response ended for the peer

httpVars == <<options, request, stage, answer, permit, body, got, data_done, made, altSvc, wrote,
              peer, end>>
respVars == <<options, request, permit, body, got, data_done, altSvc>>

Bodies == UNION {[1..n -> {"data"}] : n \in 0..Frames}
BodyEnds == {<<>>, <<"trailers">>, <<"error">>}
WithEnds == {b \o e : b \in Bodies, e \in BodyEnds}

Received(sets, requests) ==
    /\ options \in sets /\ request \in requests
    /\ body \in (IF options.fallback THEN WithEnds ELSE {<<>>})
    /\ stage = "received" /\ answer = "none"
    /\ permit \in (IF request.version = "http1" \/ request.method = "CONNECT" THEN {FALSE} ELSE BOOLEAN)
    /\ got = <<>> /\ data_done = FALSE /\ made = <<>> /\ altSvc = "none"
    /\ wrote = <<>> /\ peer = "reading" /\ end = "open"
HttpInit == Received(OptionSets, HttpRequests)

-----------------------------------------------------------------------------
(* ServerOptions *)
ClaimsPath == (options.http \/ options.webtransport) /\ request.path = "rpc"
FallbackServes == options.fallback /\ ~ClaimsPath

(* validate_http_request: the first check that fails names the status. *)
ValidateHttpRequest ==
    IF ~options.http \/ request.path # "rpc" THEN "404"
    ELSE IF request.method # "POST" THEN "405"
    ELSE IF request.contentType # "trevrpc" THEN "415"
    ELSE IF options.httpAdmission = "denies" THEN "403"
    ELSE "rpc"

(* normalize_origin: case is folded, and a default port is dropped. *)
DefaultPort(scheme) ==
    CASE scheme \in {"https", "wss"} -> 443 [] scheme \in {"http", "ws"} -> 80 [] OTHER -> 0
FoldCase(name) == CASE name = "APP" -> "app" [] name = "HTTPS" -> "https" [] OTHER -> name
Malformed == [scheme |-> "", host |-> "", port |-> 0]
NormalizeOrigin(scheme, host, port) ==
    IF scheme = "" \/ host = "" THEN Malformed
    ELSE [scheme |-> FoldCase(scheme), host |-> FoldCase(host),
          port |-> IF port = DefaultPort(FoldCase(scheme)) THEN 0 ELSE port]
ParseOrigin(o) == NormalizeOrigin(o.scheme, o.host, o.port)

(* same_origin: the page's origin is the server's own, or one that is allowed. *)
SameOrigin(secure) ==
    \/ request.hasOrigin \in {"none", "empty"}
    \/ LET origin == ParseOrigin(request.origin)
           own == NormalizeOrigin(IF secure THEN "https" ELSE "http", request.authority.host,
                                  request.authority.port)
       IN  origin # Malformed /\ (own = origin \/ origin \in {ParseOrigin(o) : o \in AllowedOrigins})

(* authority_host *)
AuthorityAllowed ==
    \/ request.authority \in AllowedAuthorities
    \/ [host |-> request.authority.host, port |-> 0] \in AllowedAuthorities

OriginAllowed ==
    /\ options.origins
    /\ ParseOrigin(request.origin) # Malformed
    /\ \E o \in AllowedOrigins : ParseOrigin(o) = ParseOrigin(request.origin)

(* validate_webtransport_admission, of WebTransport and WebSocket sessions alike: a callback stands *)
(* in for the lists.                                                                               *)
ValidateWebtransportAdmission(secure) ==
    IF ~options.webtransport \/ request.path # "rpc" THEN "404"
    ELSE IF options.admission = "denies" THEN "403"
    ELSE IF options.admission = "same_origin" THEN (IF SameOrigin(secure) THEN "session" ELSE "403")
    ELSE IF options.authorities /\ ~AuthorityAllowed THEN "403"
    ELSE IF request.hasOrigin # "none" /\ ~OriginAllowed THEN "403"
    ELSE "session"

(* validate_webtransport_request and select_webtransport_protocol: a list without trevrpc-1 is a bad *)
(* request; no list, an empty or a malformed one offers nothing.                                     *)
ValidateWebtransportRequest ==
    LET admission == ValidateWebtransportAdmission(request.secure)
    IN  IF admission = "session" /\ request.offer = "other" THEN "400" ELSE admission

(* websocket::admit and upgrade_response. *)
UpgradeResponse ==
    LET admission == ValidateWebtransportAdmission(TRUE)
    IN  IF request.offer # "trevrpc" THEN "400"
        ELSE IF admission # "session" THEN admission
        ELSE IF ~request.key THEN "400"
        ELSE IF ~request.version13 THEN "426"
        ELSE "session"

-----------------------------------------------------------------------------
Decide(what) ==
    /\ answer' = what
    /\ stage' = IF what = "fallback" THEN "service" ELSE "done"
    /\ permit' = (permit /\ what \in {"fallback", "rpc"})
    /\ UNCHANGED <<options, request, body, got, data_done, made, altSvc, wrote, peer, end>>

(* http3::handle_connection and handle_http_request *)
Http3 ==
    /\ stage = "received" /\ request.version = "http3"
    /\ Decide(IF request.method = "CONNECT" THEN ValidateWebtransportRequest
              ELSE IF ~permit THEN "503"
              ELSE IF FallbackServes THEN "fallback"
              ELSE ValidateHttpRequest)

(* http2::handle_request *)
Http2 ==
    /\ stage = "received" /\ request.version = "http2"
    /\ Decide(IF ~permit THEN "503"
              ELSE IF FallbackServes THEN "fallback"
              ELSE ValidateHttpRequest)

(* http1::handle_request: one request at a time needs no slot, and RPCs need HTTP/2 or HTTP/3. *)
Http1 ==
    /\ stage = "received" /\ request.version = "http1"
    /\ Decide(IF ~ClaimsPath THEN (IF options.fallback THEN "fallback" ELSE "404")
              ELSE IF options.webtransport /\ request.upgrade THEN UpgradeResponse
              ELSE "505")

(* FallbackBody::poll_frame: data until there is no more, then the trailers, and then nothing. *)
PollFrame ==
    /\ stage = "service" /\ (body = <<>> => ~data_done) /\ request.version # "http1"
    /\ IF body = <<>> THEN data_done' = TRUE /\ UNCHANGED <<body, got>>
       ELSE /\ data_done' = (data_done \/ Head(body) = "trailers")
            /\ got' = Append(got, Head(body)) /\ body' = Tail(body)
    /\ UNCHANGED <<options, request, stage, answer, permit, made, altSvc, wrote, peer, end>>

(* HttpFallback::call: a service that fails is answered with 500, and HTTP/3 is advertised beside  *)
(* it unless the service did so itself.  hyper writes an HTTP/1.1 response; multiplexed_head and   *)
(* write_body write the others.                                                                    *)
Respond ==
    /\ stage = "service"
    /\ \E set \in BOOLEAN :
          /\ \/ made' \in WithEnds /\ answer' = "fallback"
             \/ made' = <<>> /\ answer' = "500" /\ ~set
          /\ altSvc' = (IF set THEN "service"
                        ELSE IF request.version # "http3" /\ options.advertise THEN "server"
                        ELSE "none")
    /\ stage' = "writing"
    /\ UNCHANGED <<options, request, permit, body, got, data_done, wrote, peer, end>>

Finish(how) ==
    /\ end' = how /\ stage' = "done"
    /\ permit' = FALSE
    /\ UNCHANGED <<options, request, answer, body, got, data_done, altSvc, peer>>

(* A body that failed is finished like any other. *)
WriteFrameAnyway ==
    /\ stage = "writing"
    /\ IF made = <<>> \/ Head(made) = "error"
       THEN Finish("finished") /\ UNCHANGED <<made, wrote>>
       ELSE IF Head(made) = "trailers"
       THEN Finish("finished") /\ made' = <<>> /\ wrote' = Append(wrote, Head(made))
       ELSE /\ made' = Tail(made) /\ wrote' = Append(wrote, Head(made))
            /\ UNCHANGED <<respVars, stage, answer, peer, end>>

(* write_frames, write_body: the frame is ready.  A body that failed resets the stream, and a write *)
(* to a peer that is gone fails.                                                                   *)
WriteFrame ==
    /\ stage = "writing"
    /\ IF made = <<>> /\ peer = "reading" THEN Finish("finished") /\ UNCHANGED <<made, wrote>>
       ELSE IF peer # "reading" \/ Head(made) = "error"
       THEN Finish("reset") /\ UNCHANGED <<made, wrote>>
       ELSE IF Head(made) = "trailers"
       THEN Finish("finished") /\ made' = <<>> /\ wrote' = Append(wrote, Head(made))
       ELSE /\ made' = Tail(made) /\ wrote' = Append(wrote, Head(made))
            /\ UNCHANGED <<respVars, stage, answer, peer, end>>

(* sink.stopped, beside the frames. *)
Stopped ==
    /\ stage = "writing" /\ peer # "reading"
    /\ Finish("reset") /\ UNCHANGED <<made, wrote>>

PeerLeaves ==
    /\ peer = "reading" /\ stage \in {"service", "writing"}
    /\ peer' = "gone"
    /\ UNCHANGED <<respVars, stage, answer, made, wrote, end>>

HttpNext ==
    \/ Http3 \/ Http2 \/ Http1
    \/ PollFrame \/ Respond \/ WriteFrame \/ Stopped \/ PeerLeaves

HttpSpec == HttpInit /\ [][HttpNext]_httpVars

-----------------------------------------------------------------------------
(* An origin as browsers serialize it, and the server's own: a WebSocket is always secure. *)
Serialized(o) == <<FoldCase(o.scheme), FoldCase(o.host),
                   IF o.port = 0 THEN DefaultPort(FoldCase(o.scheme)) ELSE o.port>>
Own == [scheme |-> IF request.secure \/ request.version = "http1" THEN "https" ELSE "http",
        host |-> request.authority.host, port |-> request.authority.port]

(* Who serves a request is one decision over every HTTP version: the fallback gets exactly the     *)
(* paths TrevRPC does not claim (a WebTransport CONNECT and a full server aside), an RPC needs all *)
(* that validate_http_request asks for, and a session over either protocol passes the same         *)
(* admission.  Under same_origin, a page is admitted exactly when its origin, as browsers write    *)
(* it, is the server's own or an allowed one.                                                      *)
Agreed(what) ==
    /\ request.method # "CONNECT" /\ what # "503" =>
           ((what \in {"fallback", "500"}) <=> FallbackServes)
    /\ what = "rpc" =>
           /\ options.http /\ request.path = "rpc" /\ request.version # "http1"
           /\ request.method = "POST" /\ request.contentType = "trevrpc"
           /\ options.httpAdmission # "denies"
    /\ what = "session" => request.offer # "other" /\ options.webtransport
    /\ options.admission = "same_origin" /\ request.hasOrigin = "some"
           /\ request.origin.scheme # "" /\ request.origin.host # ""
           /\ what \in {"session", "403"} /\ request.method # "POST" =>
           (what = "session"
              <=> Serialized(request.origin) \in
                      {Serialized(o) : o \in AllowedOrigins \cup {Own}})
    /\ what = "session" /\ options.admission = "none" =>
           /\ request.hasOrigin # "none" => options.origins
           /\ options.authorities => \E a \in AllowedAuthorities : a.host = request.authority.host
VersionsAgree == stage # "received" => Agreed(answer)

(* The fallback's response ends well only when all of its body was written, with its trailers      *)
(* last; a body that fails, a peer that stops and a lost connection reset it.  It holds its stream *)
(* slot until then, and the service reads the request's frames in their order.                     *)
ResponseIsWhole ==
    /\ end = "finished" => made = <<>>
    /\ \A i \in 1..Len(wrote) : wrote[i] = "trailers" => i = Len(wrote) /\ end = "finished"
    /\ stage \in {"service", "writing"} /\ request.version # "http1" => permit
    /\ stage = "done" /\ permit => answer = "rpc"
    /\ altSvc = "server" => request.version # "http3"
    /\ \A i \in 1..Len(got) : got[i] = "trailers" => i = Len(got) /\ data_done

(* A request is served alike over every HTTP version, and answered whole. *)
HttpAgrees == VersionsAgree /\ ResponseIsWhole

=============================================================================
