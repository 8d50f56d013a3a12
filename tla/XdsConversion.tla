---------------------------- MODULE XdsConversion ----------------------------
(***************************************************************************)
(* The conversion layer of agentgateway (src/types/agent_xds.rs): the      *)
(* TryFrom builders that turn control-plane (xDS) wire messages into the   *)
(* runtime Bind, Listener and Route, the last with its RouteMatches,       *)
(* RouteFilters, RouteBackendReferences and TrafficPolicy. The control     *)
(* plane pushes entities one at a time under a small set of keys; a push   *)
(* that converts replaces the stored entity, one that fails leaves the     *)
(* previous one in place (spec 7: the old configuration stays active), and *)
(* a panic inside a conversion stops the process. Backends and policies    *)
(* are in XdsBackends.                                                     *)
(*                                                                         *)
(* Wire numbers are u32 (proto3 uint32) and are converted with Rust's `as  *)
(* u16`, i.e. modulo 2^16. Strings are sequences over a small alphabet     *)
(* where their structure matters (the "namespace/hostname" key) and model  *)
(* values where it does not. What the external parsers (regex::Regex::new, *)
(* HeaderName/HeaderValue::from_bytes, uri::Scheme::try_from, Cors) make   *)
(* of a string is part of the wire input: whether it parses.               *)
(***************************************************************************)
EXTENDS XdsCommon

CONSTANTS
    Keys,          \* entity keys the control plane uses
    WireStatuses,  \* u32 values pushed in RequestRedirect/DirectResponse.status
    Hosts,         \* RequestRedirect.host values; EmptyStr is the default
    Schemes,       \* RequestRedirect.scheme: EmptyStr, "valid" or "invalid"
    RefPorts,      \* u32 ports of Service references (backends, mirrors)
    WireMatches,   \* wire RouteMatch messages the control plane may send
    FilterKinds,   \* the RouteFilter kinds it sends
    WireTimeouts,  \* wire Durations (timeouts, CORS max_age): seconds or Absent
    MaxMatches,    \* bound on the matches of one pushed Route
    MaxFilters,    \* bound on its filters
    MaxBackends    \* bound on its backends

Protocols == {"Unknown", "Http", "Https", "Tls", "Tcp", "Hbone"}

ASSUME /\ EmptyStr \in Hosts /\ Schemes \subseteq {EmptyStr, "valid", "invalid"}
       /\ RefPorts \subseteq Nat

VARIABLES
    bind,      \* bind[k]: the converted Bind's [wire, port], or Absent
    listener,  \* listener[k]: [tls, material, protocol] of the converted Listener
    route,     \* route[k]: the converted Route with its wire lists, or Absent
    panicked,  \* a conversion panicked (unwrap on None)
    routeErr   \* what failed the last Route conversion (history)

vars == <<bind, listener, route, panicked, routeErr>>

-----------------------------------------------------------------------------
(* Conversions                                                             *)

\* TryFrom<&TlsConfig> for TLSConfig: parse_cert, parse_key and
\* with_single_cert each fail with `?`; the material is "valid" when all
\* three succeed (the protocol-version expect cannot fail) and the ALPN is
\* then fixed to http/1.1.
TlsMaterials == {"valid", "invalid"}
TlsConfigFrom(m) ==
    IF m = "valid" THEN [ok |-> TRUE, alpn |-> <<"http/1.1">>] ELSE [ok |-> FALSE]

\* Mutant of ListenerProtocol: the Http arm takes any TLS config.
ListenerProtocolHttpAnyTls(p, tls, m) ==
    CASE p = "Http" -> "HTTP"
      [] p = "Https" /\ tls -> IF TlsConfigFrom(m).ok THEN "HTTPS" ELSE "Err"
      [] p = "Tls" /\ tls -> IF TlsConfigFrom(m).ok THEN "TLS" ELSE "Err"
      [] p = "Tcp" /\ ~tls -> "TCP"
      [] p = "Hbone" /\ ~tls -> "HBONE"
      [] OTHER -> "Err"

\* TryFrom<(Protocol, Option<&TlsConfig>)> for ListenerProtocol: the
\* protocol is checked together with the presence of a TLS config;
\* "Err" for unknown protocols and for every other combination. The HTTPS
\* and TLS arms convert the TLS config with `?`, so bad material is "Err".
ListenerProtocol(p, tls, m) ==
    CASE p = "Http" /\ ~tls -> "HTTP"
      [] p = "Https" /\ tls -> IF TlsConfigFrom(m).ok THEN "HTTPS" ELSE "Err"
      [] p = "Tls" /\ tls -> IF TlsConfigFrom(m).ok THEN "TLS" ELSE "Err"
      [] p = "Tcp" /\ ~tls -> "TCP"
      [] p = "Hbone" /\ ~tls -> "HBONE"
      [] OTHER -> "Err"

\* TryFrom<&Bind>: address 0.0.0.0 and the wire port cast to u16.
BindFrom(port) == [wire |-> port, port |-> U16(port)]

\* The redirect status: default_as_none, then StatusCode::from_u16 of the
\* u16 cast, which accepts 100..999 and is an error (not ok) otherwise.
RedirectStatus(st) ==
    LET s == default_as_none(st, 0) IN
    IF s = Absent THEN [ok |-> TRUE, code |-> Absent]
    ELSE [ok |-> U16(s) \in 100..999, code |-> U16(s)]

Panic == [kind |-> "panic", host |-> Absent, port |-> Absent]

\* Mutant of RedirectAuthority: the port-only arm tried before the
\* host-and-port arm.
AuthorityPortFirst(h, p) ==
    LET hh == default_as_none(h, EmptyStr)
        pp == default_as_none(p, 0) IN
    CASE pp # Absent -> IF U16(pp) = 0 THEN Panic
                        ELSE [kind |-> "Port", host |-> Absent, port |-> U16(pp)]
      [] hh # Absent -> [kind |-> "Host", host |-> hh, port |-> Absent]
      [] OTHER -> [kind |-> "None", host |-> Absent, port |-> Absent]

\* The RequestRedirect authority from (default_as_none(host),
\* default_as_none(port)), arms in source order; the Full form formats the
\* u32 port into "h:p", the Port form casts it to u16 and unwraps a
\* NonZeroU16, which panics when the cast yields 0.
RedirectAuthority(h, p) ==
    LET hh == default_as_none(h, EmptyStr)
        pp == default_as_none(p, 0) IN
    CASE hh # Absent /\ pp # Absent -> [kind |-> "Full", host |-> hh, port |-> pp]
      [] pp # Absent -> IF U16(pp) = 0 THEN Panic
                        ELSE [kind |-> "Port", host |-> Absent, port |-> U16(pp)]
      [] hh # Absent -> [kind |-> "Host", host |-> hh, port |-> Absent]
      [] OTHER -> [kind |-> "None", host |-> Absent, port |-> Absent]

\* The outcome of converting one element: ok with a value, an error
\* naming what failed, or a panic.
Ok(v) == [res |-> "ok", why |-> "none", val |-> v]
Err(why) == [res |-> "err", why |-> why, val |-> Absent]
Panicked == [res |-> "panic", why |-> "none", val |-> Absent]

\* The CORS max_age: Duration::from_secs(d.seconds as u64). A negative i64
\* wraps to d + 2^64 seconds, beyond TLC's integers, so it is kept as the
\* record [wrapped |-> d] standing for that number.
CorsMaxAge(d) ==
    CASE d = Absent -> Absent
      [] d >= 0 -> d
      [] OTHER -> [wrapped |-> d]

\* TryFrom<&RouteFilter>, arm by arm. No kind is an error. A
\* RequestRedirect builds its fields in order: the scheme (an invalid one
\* is an error), the authority (which may panic), then the status. A
\* RequestMirror converts its backend like a route backend (no kind is
\* Invalid, a Service key without '/' an error) and casts its port. A
\* DirectResponse needs StatusCode::from_u16 of the cast status. Header
\* modifiers and rewrites copy strings; CORS converts its max_age and fails
\* when Cors::try_from does.
RouteFilterFrom(f) ==
    CASE f.kind = "none" -> Err("filter")
      [] f.kind = "redirect" ->
           LET a == RedirectAuthority(f.host, f.port)
               st == RedirectStatus(f.status) IN
           CASE f.scheme = "invalid" -> Err("filter")
             [] a = Panic -> Panicked
             [] ~st.ok -> Err("filter")
             [] OTHER -> Ok([scheme |-> default_as_none(f.scheme, EmptyStr),
                             authority |-> a, status |-> st.code])
      [] f.kind = "mirror" ->
           LET b == BackendReference(f.ref) IN
           IF RefFails(b) THEN Err("filter_ref") ELSE Ok(b)
      [] f.kind = "direct" ->
           IF U16(f.status) \in 100..999 THEN Ok([status |-> U16(f.status)])
           ELSE Err("filter")
      [] f.kind = "cors" ->
           IF f.ok THEN Ok([max_age |-> CorsMaxAge(f.max_age)]) ELSE Err("filter")
      [] OTHER -> Ok(f.kind)

\* Mutant of PathMatchFrom: a RouteMatch without a path matches exactly
\* "/" instead of every path under it.
PathMatchFromExactRoot(p) ==
    CASE p = Absent -> [ok |-> TRUE, kind |-> "Exact", value |-> "/", len |-> 0]
      [] p.kind = "none" -> [ok |-> FALSE, kind |-> Absent, value |-> Absent, len |-> 0]
      [] p.kind = "regex" ->
           [ok |-> p.compiles, kind |-> "Regex", value |-> p.value, len |-> p.len]
      [] OTHER -> [ok |-> TRUE, kind |-> IF p.kind = "prefix" THEN "PathPrefix"
                                      ELSE "Exact",
                   value |-> p.value, len |-> 0]

\* The path of RouteMatch::try_from: none is PathPrefix("/"), a PathMatch
\* without a kind is "invalid path match", a regex is compiled (an error
\* if it does not) and kept with its pattern's length r.len().
PathMatchFrom(p) ==
    CASE p = Absent -> [ok |-> TRUE, kind |-> "PathPrefix", value |-> "/", len |-> 0]
      [] p.kind = "none" -> [ok |-> FALSE, kind |-> Absent, value |-> Absent, len |-> 0]
      [] p.kind = "regex" ->
           [ok |-> p.compiles, kind |-> "Regex", value |-> p.value, len |-> p.len]
      [] OTHER -> [ok |-> TRUE, kind |-> IF p.kind = "prefix" THEN "PathPrefix"
                                      ELSE "Exact",
                   value |-> p.value, len |-> 0]

\* A header or query match converts when it has a value and, for an exact
\* header value, its name and value bytes are valid (from_bytes), for a
\* regex value, the regex compiles; `ok` of the wire value says which.
ValueMatchOk(v) == v # Absent /\ v.ok

\* TryFrom<&RouteMatch> for RouteMatch: the path, the method copied, and
\* the header and query lists collected all-or-nothing.
RouteMatchFrom(m) ==
    LET p == PathMatchFrom(m.path) IN
    [ok |-> /\ p.ok
            /\ \A i \in DOMAIN m.headers : ValueMatchOk(m.headers[i])
            /\ \A i \in DOMAIN m.query : ValueMatchOk(m.query[i]),
     path |-> p, headers |-> Len(m.headers), query |-> Len(m.query)]

\* TryFrom<TrafficPolicy>: each timeout that is set goes through
\* Duration::try_from, which fails on a negative duration; retry is None.
TrafficPolicyFrom(tp) ==
    IF tp = Absent THEN [ok |-> TRUE, val |-> Absent]
    ELSE [ok |-> \A t \in {tp.req, tp.backend} \ {Absent} : t >= 0,
          val |-> [request_timeout |-> tp.req,
                   backend_request_timeout |-> tp.backend, retry |-> Absent]]

-----------------------------------------------------------------------------
(* Control-plane pushes                                                    *)

Init ==
    /\ bind = [k \in Keys |-> Absent]
    /\ listener = [k \in Keys |-> Absent]
    /\ route = [k \in Keys |-> Absent]
    /\ panicked = FALSE
    /\ routeErr = "none"

\* TryFrom<&Bind> for Bind.
PushBind(k, port) ==
    /\ ~panicked
    /\ Apply(bind, k, BindFrom(port), FALSE)
    /\ UNCHANGED <<listener, route, panicked, routeErr>>

\* Mutant of PushListener: the conversion error ignored and the listener
\* stored with whatever protocol came out.
PushListenerIgnoreErr(k, p, tls, m) ==
    /\ ~panicked
    /\ Apply(listener, k, [tls |-> tls, material |-> m,
                            protocol |-> ListenerProtocol(p, tls, m)], FALSE)
    /\ UNCHANGED <<bind, route, panicked, routeErr>>

\* TryFrom<&Listener> for (Listener, BindName): Protocol::try_from of the
\* wire enum, then ListenerProtocol::try_from with the TLS config.
PushListener(k, p, tls, m) ==
    LET proto == ListenerProtocol(p, tls, m) IN
    /\ ~panicked
    /\ Apply(listener, k, [tls |-> tls, material |-> m, protocol |-> proto],
             proto = "Err")
    /\ UNCHANGED <<bind, route, panicked, routeErr>>

NotOk(r) == r.res # "ok"

\* TryFrom<&Route>: the matches, then the filters, then the backends, then
\* the TrafficPolicy are converted, each list with
\* collect::<Result<Vec<_>, _>>(), which stops at the first failing
\* element: the first failure fails the whole Route, and a filter after a
\* failing one is never converted (so cannot panic).
PushRoute(k, matches, filters, refs, tp) ==
    LET ms == [i \in DOMAIN matches |-> RouteMatchFrom(matches[i])]
        fs == [i \in DOMAIN filters |-> RouteFilterFrom(filters[i])]
        bad == SelectInSeq(fs, NotOk)
        conv == [i \in DOMAIN refs |-> BackendReference(refs[i])]
        pol == TrafficPolicyFrom(tp)
        err == CASE \E i \in DOMAIN ms : ~ms[i].ok -> "match"
                 [] bad # 0 /\ fs[bad].res = "panic" -> "panic"
                 [] bad # 0 -> fs[bad].why
                 [] \E i \in DOMAIN conv : RefFails(conv[i]) -> "backend_ref"
                 [] ~pol.ok -> "policy"
                 [] OTHER -> "none"
    IN
    /\ ~panicked
    /\ IF err = "panic"
       THEN /\ panicked' = TRUE
            /\ UNCHANGED <<bind, listener, route, routeErr>>
       ELSE /\ Apply(route, k,
                     [wire_matches |-> matches, matches |-> ms,
                      wire_filters |-> filters, filters |-> fs,
                      wire_refs |-> refs, backends |-> conv,
                      policies |-> pol.val],
                     err # "none")
            /\ routeErr' = err
            /\ UNCHANGED <<bind, listener, panicked>>

\* Wire RouteFilters, backend lists and traffic policies the control plane
\* may send.
ServiceRefs == {[kind |-> "none"]}
                   \cup [kind: {"service"}, key: SvcKeys, port: RefPorts]
WireFilters ==
    {f \in {[kind |-> "none"]}
           \cup [kind: {"redirect"}, scheme: Schemes, host: Hosts,
                 port: WirePorts, status: WireStatuses]
           \cup [kind: {"mirror"}, ref: ServiceRefs]
           \cup [kind: {"direct"}, status: WireStatuses]
           \cup [kind: {"cors"}, ok: BOOLEAN, max_age: {Absent} \cup WireTimeouts]
           \cup [kind: {"request_header", "response_header", "rewrite"}]
        : f.kind \in FilterKinds}
RouteRefs == {[kind |-> "backend"]} \cup ServiceRefs
SeqsUpTo(S, n) == UNION {[1..i -> S] : i \in 0..n}
WirePolicies == {Absent} \cup [req: WireTimeouts, backend: WireTimeouts]
MatchLists == SeqsUpTo(WireMatches, MaxMatches)
FilterLists == SeqsUpTo(WireFilters, MaxFilters)
RefLists == SeqsUpTo(RouteRefs, MaxBackends)

Next ==
    \/ \E k \in Keys, p \in WirePorts : PushBind(k, p)
    \/ \E k \in Keys, p \in Protocols, tls \in BOOLEAN :
           \E m \in IF tls THEN TlsMaterials ELSE {"valid"} : PushListener(k, p, tls, m)
    \/ \E k \in Keys, ms \in MatchLists, fs \in FilterLists, refs \in RefLists,
          tp \in WirePolicies :
         PushRoute(k, ms, fs, refs, tp)

Spec == Init /\ [][Next]_vars

-----------------------------------------------------------------------------
(* Properties                                                              *)

TypeOK ==
    /\ bind \in [Keys -> [wire: WirePorts, port: 0..65535] \cup {Absent}]
    /\ listener \in [Keys -> [tls: BOOLEAN, material: TlsMaterials,
                              protocol: {"HTTP", "HTTPS", "TLS", "TCP", "HBONE"}]
                             \cup {Absent}]
    /\ \A k \in Keys : route[k] # Absent =>
         \A i \in DOMAIN route[k].filters : route[k].filters[i].res = "ok"
    /\ panicked \in BOOLEAN
    /\ routeErr \in {"none", "match", "filter", "filter_ref", "backend_ref",
                     "policy"}

\* Spec 8, TLS invariant: a stored Listener is HTTPS or TLS exactly when
\* its wire message carried a TLS config (ListenerProtocol::try_from's
\* combination check), and then only with material that parsed into a
\* server config (TLSConfig::try_from's `?` on cert, key and pairing).
ListenerTlsInvariant ==
    \A k \in Keys :
        listener[k] # Absent =>
            /\ listener[k].protocol \in {"HTTPS", "TLS"} <=> listener[k].tls
            /\ listener[k].tls => listener[k].material = "valid"

\* The Service references a stored Route holds: its backends' and its
\* mirrors'.
ServiceRefsOf(r) ==
    {r.backends[i] : i \in DOMAIN r.backends}
        \cup {r.filters[i].val : i \in {j \in DOMAIN r.filters :
                                          r.wire_filters[j].kind = "mirror"}}

\* Spec 4.1, reference parsing: a stored Service reference, of a backend
\* or of a mirror, names the namespace before the first '/' of its key and
\* the hostname after it: the two rejoin to the key and the namespace
\* holds no '/'.
ServiceRefFaithful ==
    \A k \in Keys :
        route[k] # Absent =>
            \A b \in ServiceRefsOf(route[k]) :
                b.kind = "Service" =>
                    /\ b.name.namespace \o <<"/">> \o b.name.hostname = b.key
                    /\ ~Contains(b.name.namespace, "/")

\* A stored RequestRedirect overrides the scheme exactly when the wire
\* scheme is non-empty, the host exactly when the wire host is, the port
\* exactly when the wire port is non-zero, with that host and that port
\* number, and sets the status exactly when the wire status is non-zero.
RedirectFaithful ==
    \A k \in Keys :
        route[k] # Absent =>
            \A i \in DOMAIN route[k].filters :
                LET w == route[k].wire_filters[i]
                    r == route[k].filters[i].val IN
                w.kind = "redirect" =>
                    /\ r.scheme = IF w.scheme = EmptyStr THEN Absent ELSE w.scheme
                    /\ r.authority.host = IF w.host = EmptyStr THEN Absent
                                          ELSE w.host
                    /\ r.authority.port = IF w.port = 0 THEN Absent ELSE w.port
                    /\ r.status = IF w.status = 0 THEN Absent ELSE w.status

\* Spec 2 and 4.3: a stored Route keeps one RouteMatch per wire match, in
\* order; a match without a path matches every path (PathPrefix "/"), one
\* with a path keeps its kind and value, and a Regex keeps its pattern's
\* length as the specificity weight.
MatchesFaithful ==
    \A k \in Keys :
        route[k] # Absent =>
            LET r == route[k] IN
            /\ DOMAIN r.matches = DOMAIN r.wire_matches
            /\ \A i \in DOMAIN r.matches :
                 LET w == r.wire_matches[i].path
                     p == r.matches[i].path IN
                 IF w = Absent THEN p.kind = "PathPrefix" /\ p.value = "/"
                 ELSE /\ p.value = w.value
                      /\ p.kind = "Regex" <=> w.kind = "regex"
                      /\ p.kind = "Exact" <=> w.kind = "exact"
                      /\ p.kind = "Regex" => p.len = w.len

\* Spec 4.1 ("never silently drop required information") and 7 (an
\* invalid numeric range is a ConversionError): every stored port and
\* status is the number the control plane sent.
WireNumbersFaithful ==
    /\ \A k \in Keys : bind[k] # Absent => bind[k].port = bind[k].wire
    /\ \A k \in Keys : route[k] # Absent =>
         LET r == route[k] IN
         /\ \A i \in DOMAIN r.backends :
              r.backends[i].kind = "Service" =>
                  r.backends[i].port = r.wire_refs[i].port
         /\ \A i \in DOMAIN r.filters :
              LET w == r.wire_filters[i]
                  v == r.filters[i].val IN
              /\ w.kind = "redirect" /\ w.status # 0 => v.status = w.status
              /\ w.kind = "direct" => v.status = w.status
              /\ w.kind = "mirror" /\ v.kind = "Service" => v.port = w.ref.port
              /\ w.kind = "cors" => v.max_age = w.max_age

\* Spec 4.1 (partial tolerance): a malformed reference, of a backend or of
\* a mirror, is kept as an Invalid reference; it does not make the control
\* plane's Route fail.
MalformedRefTolerated == routeErr \notin {"backend_ref", "filter_ref"}

=============================================================================
