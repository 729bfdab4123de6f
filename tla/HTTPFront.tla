------------------------------ MODULE HTTPFront ------------------------------
(***************************************************************************)
(* The HTTP front door (httpbinding/httpbinding.go, what it reads of       *)
(* wire/metadata.go, and cors/cors.go): which route a request takes, what  *)
(* of it is dispatched, what the specification and envelope endpoints let  *)
(* through, and what a browser of another origin may do.                   *)
(*                                                                         *)
(* A path is a sequence of segments, a segment and a pattern sequences of  *)
(* words, the braces of a placeholder words of their own.  Headers are a   *)
(* function from names to the sequence of their values.                    *)
(***************************************************************************)
EXTENDS Naturals, Sequences, SequencesExt, FiniteSets, Functions

SpecTopic == "benzene:spec"
VersionKey == "benzene-version"

\* strings.ToUpper of a method and strings.ToLower of a name, for the spellings in use.
Upper(method) == IF method = "get" THEN "GET" ELSE IF method = "post" THEN "POST" ELSE method
Lower(name) == IF name = "ID" THEN "id" ELSE IF name = "Benzene-Version" THEN VersionKey
               ELSE IF name = "Route-id" THEN "route-id" ELSE name

-----------------------------------------------------------------------------
(* Routes *)

First(pattern, word) == SelectInSeq(pattern, LAMBDA w : w = word)

\* parseSegmentPlaceholder: one placeholder with a name, between literals.
Placeholder(pattern) ==
  LET open == First(pattern, "{")
      rest == SubSeq(pattern, open + 1, Len(pattern))
      close == First(rest, "}")
      suffix == SubSeq(rest, close + 1, Len(rest))
  IN IF open = 0 \/ close <= 1 \/ Range(suffix) \intersect {"{", "}"} # {} THEN [isParam |-> FALSE]
     ELSE [isParam |-> TRUE, name |-> Lower(rest[1]), prefix |-> SubSeq(pattern, 1, open - 1), suffix |-> suffix]

\* Wrong variant: what lies between prefix and suffix may be nothing.
CaptureEmpty(pattern, segment) ==
  LET p == Placeholder(pattern)
      value == SubSeq(segment, Len(p.prefix) + 1, Len(segment) - Len(p.suffix))
  IN IF ~p.isParam THEN [matches |-> segment = pattern, params |-> <<>>]
     ELSE [matches |-> Len(segment) >= Len(p.prefix) + Len(p.suffix)
                       /\ IsPrefix(p.prefix, segment) /\ IsSuffix(p.suffix, segment),
           params |-> <<[name |-> p.name, value |-> value]>>]

\* What a segment gives for its pattern.
Capture(pattern, segment) ==
  LET p == Placeholder(pattern)
      value == SubSeq(segment, Len(p.prefix) + 1, Len(segment) - Len(p.suffix))
  IN IF ~p.isParam THEN [matches |-> segment = pattern, params |-> <<>>]
     ELSE [matches |-> Len(segment) > Len(p.prefix) + Len(p.suffix)
                       /\ IsPrefix(p.prefix, segment) /\ IsSuffix(p.suffix, segment),
           params |-> <<[name |-> p.name, value |-> value]>>]

\* matchTemplate
TemplateMatches(route, method, path) ==
  /\ Upper(route.method) = Upper(method) /\ Len(path) = Len(route.path)
  /\ \A i \in DOMAIN path : Capture(route.path[i], path[i]).matches

\* What a path gives for the placeholders of a route, of two with a name the later.
Params(route, path) ==
  LET all == FlattenSeq([i \in DOMAIN path |-> Capture(route.path[i], path[i]).params])
  IN [n \in {p.name : p \in Range(all)} |-> all[SelectLastInSeq(all, LAMBDA p : p.name = n)].value]

\* The route of Match: of exact ones for a path the last registered, before templated ones,
\* of which the first.
IsTemplated(route) == \E i \in DOMAIN route.path : "{" \in Range(route.path[i])
Exact(routes, method, path) ==
  SelectLastInSeq(routes, LAMBDA r : ~IsTemplated(r) /\ Upper(r.method) = Upper(method) /\ r.path = path)
Templated(routes, method, path) ==
  SelectInSeq(routes, LAMBDA r : IsTemplated(r) /\ TemplateMatches(r, method, path))

\* Wrong variant: the routes in their order, exact and templated alike.
MatchInOrder(routes, method, path) ==
  SelectInSeq(routes, LAMBDA r : TemplateMatches(r, method, path))

Match(routes, method, path) ==
  IF Exact(routes, method, path) # 0 THEN Exact(routes, method, path) ELSE Templated(routes, method, path)

ParamsOf(routes, method, path) ==
  LET i == Match(routes, method, path)
  IN IF i = 0 \/ ~IsTemplated(routes[i]) THEN <<>> ELSE Params(routes[i], path)

-----------------------------------------------------------------------------
(* What is dispatched *)

\* headersFrom: names in lower case, the last value of each. net/http has made one name of
\* the spellings of it.
HeadersFrom(headers) ==
  [n \in {Lower(m) : m \in {k \in DOMAIN headers : headers[k] # <<>>}} |->
     Last(headers[CHOOSE m \in DOMAIN headers : Lower(m) = n])]

RouteHeader(name) == IF name = "id" THEN "route-id" ELSE IF name = "version" THEN "route-version" ELSE "route-other"
Routed(params) ==
  [h \in {RouteHeader(p) : p \in DOMAIN params} |-> params[CHOOSE p \in DOMAIN params : RouteHeader(p) = h]]

\* Wrong variant: the request's own headers are written last.
WithParamsUnder(headers, params) == headers @@ Routed(params)

\* The captured parameters over the headers.
WithParams(headers, params) == Routed(params) @@ headers

\* SpecRequestBody
SpecRequestBody(query) == [spec |-> Restrict(query, DOMAIN query \intersect {"type", "format"})]
IsBlank(body) == body \in {"", "blank"}

\* Wrong variant: whatever the request says.
RouteBodyAsSent(topic, body, query) == [sent |-> body]

\* RouteBody
RouteBody(topic, body, query) ==
  IF topic = SpecTopic /\ IsBlank(body) THEN SpecRequestBody(query) ELSE [sent |-> body]

\* ResolveVersion, for a topic that names none; what it names otherwise.
ResolveVersion(version, headers) ==
  IF version # <<>> THEN version ELSE IF VersionKey \in DOMAIN headers THEN headers[VersionKey] ELSE <<>>

\* Wrong variant: the header is asked before the path.
VersionFromHeader(version, params, headers) ==
  IF VersionKey \in DOMAIN headers THEN headers[VersionKey]
  ELSE IF "version" \in DOMAIN params THEN params["version"] ELSE version

Version(version, params, headers) ==
  ResolveVersion(IF "version" \in DOMAIN params THEN params["version"] ELSE version, headers)

Refused(code) == [kind |-> "refused", code |-> code]

\* Handler, for the route taken.
Dispatched(route, request, params, headers) ==
  [kind |-> "dispatched", topic |-> route.topic, headers |-> headers,
   version |-> Version(route.version, params, headers), body |-> RouteBody(route.topic, request.body, request.query)]
DispatchTo(route, request, params) ==
  Dispatched(route, request, params, WithParams(HeadersFrom(request.headers), params))

\* Handler
Handle(routes, request) ==
  LET i == Match(routes, request.method, request.path)
  IN IF i = 0 THEN Refused(404)
     ELSE IF request.body = "unreadable" THEN Refused(400)
     ELSE DispatchTo(routes[i], request, ParamsOf(routes, request.method, request.path))

\* SpecHandler
HandleSpec(request) ==
  IF request.method \notin {"GET", "HEAD"} THEN Refused(405)
  ELSE [kind |-> "dispatched", topic |-> SpecTopic, headers |-> HeadersFrom(request.headers),
        version |-> Version(<<>>, <<>>, HeadersFrom(request.headers)), body |-> SpecRequestBody(request.query)]

\* EnvelopeHandler, of a body that is unreadable, no envelope, or one for a topic. A topic
\* that is filtered out finds no handler, which is an answer like any.
HandleEnvelope(allowed, body) ==
  IF body.kind # "envelope" THEN Refused(400)
  ELSE [kind |-> IF body.topic \in allowed THEN "dispatched" ELSE "not found", code |-> 200, topic |-> body.topic]

-----------------------------------------------------------------------------
\* A path that a template gives for parameters without a separator in them is the path
\* that yields them back.
Filled(pattern, params) ==
  LET p == Placeholder(pattern) IN IF p.isParam THEN p.prefix \o params[p.name] \o p.suffix ELSE pattern
NamesOf(route) == [i \in DOMAIN route.path |->
                     IF Placeholder(route.path[i]).isParam THEN {Placeholder(route.path[i]).name} ELSE {}]
NamesDiffer(route) == \A i, j \in DOMAIN route.path : i # j => NamesOf(route)[i] \intersect NamesOf(route)[j] = {}

Fits(route, request) ==
  /\ Upper(route.method) = Upper(request.method)
  /\ IF IsTemplated(route) THEN TemplateMatches(route, request.method, request.path) ELSE route.path = request.path

\* A request goes to a route whose path filled with what was captured is its path, and no
\* capture is empty; an exact route is not shadowed by a template, nor a template by a
\* later one (httpbinding.go:77-230). Here i is the route taken and params what it captured.
RouteTakenIsExact(routes, request, i, params) ==
  /\ i = 0 <=> ~\E r \in Range(routes) : Fits(r, request)
  /\ i # 0 =>
       /\ Fits(routes[i], request)
       /\ NamesDiffer(routes[i]) => request.path = [k \in DOMAIN request.path |-> Filled(routes[i].path[k], params)]
       /\ \A n \in DOMAIN params : params[n] # <<>>
       /\ (\E r \in Range(routes) : ~IsTemplated(r) /\ Fits(r, request)) => ~IsTemplated(routes[i])
       /\ IsTemplated(routes[i]) => ~\E j \in 1..i - 1 : Fits(routes[j], request)

\* A client's own route- header never passes for a parameter; the path's version is before
\* the header's; only a specification request without a body has its query for one; and
\* no request at all is dispatched for a path no route has (httpbinding.go:268-283,
\* metadata.go:89-100). Here got is what the request came to.
DispatchIsExact(routes, request, i, params, got) ==
  /\ got.kind = "dispatched" =>
       /\ \A n \in DOMAIN params : got.headers[RouteHeader(n)] = params[n]
       /\ "version" \in DOMAIN params => got.version = params["version"]
       /\ got.version # <<>> /\ "version" \notin DOMAIN params =>
            got.version \in {routes[i].version} \union {Last(v) : v \in Range(request.headers) \ {<<>>}}
       /\ got.body # [sent |-> request.body] <=> got.topic = SpecTopic /\ IsBlank(request.body)
  /\ got.kind = "refused" /\ got.code = 404 <=> i = 0

\* The route and the dispatch of a request, as the two above say.
RouteIsExact(routes, request) ==
  \E i \in {Match(routes, request.method, request.path)},
     params \in {ParamsOf(routes, request.method, request.path)}, got \in {Handle(routes, request)} :
    RouteTakenIsExact(routes, request, i, params) /\ DispatchIsExact(routes, request, i, params, got)

\* A restricted topic answers as one without a handler does, and nothing is dispatched that
\* is not let through (httpbinding.go:295-360).
EnvelopeIsExact(allowed, body) ==
  LET got == HandleEnvelope(allowed, body)
  IN /\ got.kind = "dispatched" => body.topic \in allowed
     /\ got.code = 200 <=> body.kind = "envelope"

-----------------------------------------------------------------------------
(* Cross-origin requests: which of them the CORS middleware answers itself, and what it lets
   a browser of another origin do.  An origin is a full one, with scheme, host and port, or
   a bare name; the case of its letters is of no account. *)

Full(scheme, host, port) == [full |-> TRUE, scheme |-> scheme, host |-> host, port |-> port]
Bare(name) == [full |-> FALSE, name |-> name]
Anywhere == Bare("*")
NoOrigin == Bare("")

\* hostOf
HostOf(origin) == IF origin.full THEN origin.host ELSE origin.name

\* Wrong variant: the host alone counts.
OriginMatchesByHost(allowed, origin) == allowed = Anywhere \/ HostOf(allowed) = HostOf(origin)

\* originMatches: two full ones in scheme, host and port, any other two in their hosts.
OriginMatches(allowed, origin) ==
  \/ allowed = Anywhere
  \/ allowed.full /\ origin.full /\ allowed = origin
  \/ ~(allowed.full /\ origin.full) /\ HostOf(allowed) = HostOf(origin)

MatchOrigin(settings, origin) == \E allowed \in settings.origins : OriginMatches(allowed, origin)

\* requestedHeadersAllowed
HeadersAllowed(settings, request) == "*" \in settings.headers \/ request.asked \subseteq settings.headers

\* resolveAllowedHeaders
AllowedHeaders(settings, request) ==
  IF "*" \notin settings.headers THEN settings.headers
  ELSE IF request.asked # {} THEN request.asked ELSE {"*"}

\* Wrong variant: the methods of every route.
MethodsForAnyPath(routes, path) == {r.method : r \in routes}

\* methodsForPath: of the routes whose path is this one as it is written.
MethodsForPath(routes, path) == {r.method : r \in {q \in routes : q.path = path}}

Untouched == [next |-> TRUE, vary |-> FALSE, origin |-> NoOrigin, headers |-> {}, methods |-> {},
              credentials |-> FALSE, maxAge |-> FALSE, exposed |-> {}]

\* Wrong variant: what a stranger may see is for its browser to decide.
GrantToAll(settings, routes, request) ==
  [next |-> request.method # "OPTIONS", vary |-> TRUE, origin |-> request.origin,
   headers |-> AllowedHeaders(settings, request), methods |-> {"OPTIONS"} \union MethodsForPath(routes, request.path),
   credentials |-> settings.credentials, maxAge |-> request.method = "OPTIONS" /\ settings.maxAge > 0,
   exposed |-> IF request.method # "OPTIONS" THEN settings.exposed ELSE {}]

\* What a request from an allowed origin is granted, and any other only that it varies.
Grant(settings, routes, request) ==
  IF ~MatchOrigin(settings, request.origin) \/ ~HeadersAllowed(settings, request)
  THEN [Untouched EXCEPT !.next = request.method # "OPTIONS", !.vary = TRUE]
  ELSE [next |-> request.method # "OPTIONS", vary |-> TRUE, origin |-> request.origin,
        headers |-> AllowedHeaders(settings, request), methods |-> {"OPTIONS"} \union MethodsForPath(routes, request.path),
        credentials |-> settings.credentials, maxAge |-> request.method = "OPTIONS" /\ settings.maxAge > 0,
        exposed |-> IF request.method # "OPTIONS" THEN settings.exposed ELSE {}]

\* Middleware
Middleware(settings, routes, request) ==
  IF request.origin = NoOrigin \/ MethodsForPath(routes, request.path) = {} THEN Untouched
  ELSE Grant(settings, routes, request)

-----------------------------------------------------------------------------
\* Only an allowed origin is named, as it is and never as a wildcard, credentials with it
\* or not at all; a request asking for a header it may not send is granted nothing; a
\* preflight of a routed path ends here and nothing else does; whatever depends on the
\* origin varies with it; and the methods are those of the path (cors.go:52-119).
CrossOriginIsExact(settings, routes, request) ==
  LET got == Middleware(settings, routes, request)
      served == request.origin # NoOrigin /\ \E r \in routes : r.path = request.path
      welcome(origin) ==
        \E a \in settings.origins :
          a = Anywhere \/ a = origin \/ (a.full # origin.full /\ HostOf(a) = HostOf(origin))
  IN /\ got.origin # NoOrigin =>
          /\ got.origin = request.origin /\ welcome(request.origin)
          /\ request.asked \subseteq got.headers /\ got.vary
          /\ \A m \in got.methods : m = "OPTIONS" \/ \E r \in routes : r.path = request.path /\ r.method = m
     /\ served /\ welcome(request.origin) /\ HeadersAllowed(settings, request) => got.origin = request.origin
     /\ got.credentials => got.origin # NoOrigin /\ settings.credentials
     /\ got.exposed # {} => got.origin # NoOrigin /\ request.method # "OPTIONS"
     /\ ~got.next <=> served /\ request.method = "OPTIONS"
     /\ got.vary <=> served
=============================================================================
