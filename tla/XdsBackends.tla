----------------------------- MODULE XdsBackends -----------------------------
(***************************************************************************)
(* The Backend and TargetedPolicy conversions of src/types/agent_xds.rs:   *)
(* an Opaque backend's static Target, an AI backend's host override and    *)
(* provider (with its required fields), an MCP backend's list of           *)
(* McpTargets (protocol and backend reference), and a TargetedPolicy's     *)
(* target and local rate limit. As in XdsConversion the control plane      *)
(* pushes entities one at a time; a failed conversion keeps the old one.   *)
(*                                                                         *)
(* Target::try_from and RateLimitSerde::try_into live outside this         *)
(* repository: the first may fail on any host (an input of the step), the  *)
(* second is taken from spec 7 (a zero or negative fill interval is        *)
(* invalid).                                                               *)
(***************************************************************************)
EXTENDS XdsCommon, Integers

CONSTANTS
    Keys,          \* entity keys the control plane uses
    Hosts,         \* Static and override hosts (model values)
    Models,        \* model names an AI provider may carry
    Regions,       \* provider regions; EmptyStr is the proto3 default
    FillIntervals, \* seconds of a pushed fill_interval Duration
    MaxTargets     \* bound on the McpTargets of one pushed MCP backend

ASSUME EmptyStr \in Regions /\ FillIntervals \subseteq Int

VARIABLES
    backend,   \* backend[k]: the converted Backend, or Absent
    policy,    \* policy[k]: the converted TargetedPolicy, or Absent
    lastErr    \* the error of the last Backend conversion (history)

vars == <<backend, policy, lastErr>>

McpProtocols == {"Undefined", "Sse", "StreamableHttp", "Unknown"}
ProviderNames == {"openai", "gemini", "vertex", "anthropic", "bedrock"}
TargetKinds == {"Gateway", "Listener", "Route", "RouteRule", "Backend"}

-----------------------------------------------------------------------------
(* Conversions                                                             *)

\* Target::try_from((host, port as u16)); ok is whether the external
\* conversion accepted the host.
TargetFrom(w, ok) ==
    [ok |-> ok, host |-> w.host, port |-> U16(w.port), wire |-> w.port]

\* Mutant of McpTargetSpec: an unset protocol taken as Sse, the first
\* variant, instead of streamable HTTP.
McpTargetSpecSseDefault(p) ==
    IF p \in {"Undefined", "Sse"} THEN "Sse" ELSE "Mcp"

\* McpTargetSpec from the wire protocol: Sse is Sse with path /sse;
\* Undefined and StreamableHttp are streamable HTTP with path /mcp.
McpTargetSpec(p) == IF p = "Sse" THEN "Sse" ELSE "Mcp"

\* McpTarget::try_from: Protocol::try_from fails on a number that is no
\* variant, the backend reference may fail to parse.
McpTargetFrom(t) ==
    LET ref == BackendReference(t.ref) IN
    [ok |-> t.protocol # "Unknown" /\ ~RefFails(ref),
     spec |-> McpTargetSpec(t.protocol), backend |-> ref]

\* The AI provider: each variant copies its optional model; Vertex keeps
\* Some(region) whatever it is; Bedrock fails without a model ("bedrock
\* requires a model") and copies the region; no provider is an error.
AIProviderFrom(p) ==
    CASE p = Absent -> [ok |-> FALSE]
      [] p.name = "bedrock" ->
           [ok |-> p.model # Absent, name |-> p.name, model |-> p.model,
            region |-> p.region]
      [] p.name = "vertex" ->
           [ok |-> TRUE, name |-> p.name, model |-> p.model,
            region |-> p.region]
      [] OTHER ->
           [ok |-> TRUE, name |-> p.name, model |-> p.model, region |-> Absent]

\* TryFrom<&Backend> for Backend, arm by arm: Static, Ai, Mcp (targets
\* collected all-or-nothing), anything else "unknown backend". The result's
\* err says what failed.
BackendFrom(w, targetOk) ==
    CASE w.kind = "static" ->
           LET t == TargetFrom(w, targetOk) IN
           [err |-> IF t.ok THEN "none" ELSE "target",
            val |-> [kind |-> "Opaque", target |-> t]]
      [] w.kind = "ai" ->
           LET o == IF w.override = Absent THEN Absent
                    ELSE TargetFrom(w.override, targetOk)
               p == AIProviderFrom(w.provider) IN
           [err |-> CASE o # Absent /\ ~o.ok -> "target"
                      [] ~p.ok -> "provider"
                      [] OTHER -> "none",
            val |-> [kind |-> "AI", override |-> o, provider |-> p]]
      [] w.kind = "mcp" ->
           LET ts == [i \in DOMAIN w.targets |-> McpTargetFrom(w.targets[i])]
           IN
           [err |-> IF \E i \in DOMAIN ts : ~ts[i].ok THEN "mcp_target"
                    ELSE "none",
            val |-> [kind |-> "MCP", wire |-> w.targets, targets |-> ts]]
      [] OTHER -> [err |-> "unknown", val |-> Absent]

\* Mutant of PolicyFrom: the limit stored without RateLimitSerde's check of
\* the fill interval.
PolicyFromNoRateCheck(w) ==
    LET lrl == w.spec IN
    [ok |-> /\ w.target # Absent /\ w.spec # Absent
            /\ w.target \in TargetKinds
            /\ lrl.kind = "lrl"
            /\ lrl.type \in {"Request", "Token"}
            /\ lrl.fill # Absent
            /\ lrl.fill >= 0,
     target |-> w.target,
     limit_type |-> IF lrl # Absent /\ lrl.kind = "lrl" /\ lrl.type = "Token"
                    THEN "Tokens" ELSE "Requests",
     fill |-> IF lrl # Absent /\ lrl.kind = "lrl" THEN lrl.fill ELSE Absent]

\* TryFrom<&Policy> for TargetedPolicy: target and spec are required, the
\* target kind must be one of the five, the spec must be a LocalRateLimit
\* whose type is a known variant and whose fill_interval is present, a
\* non-negative Duration, and (RateLimitSerde::try_into) positive.
PolicyFrom(w) ==
    LET lrl == w.spec IN
    [ok |-> /\ w.target # Absent /\ w.spec # Absent
            /\ w.target \in TargetKinds
            /\ lrl.kind = "lrl"
            /\ lrl.type \in {"Request", "Token"}
            /\ lrl.fill # Absent
            /\ lrl.fill >= 0
            /\ lrl.fill > 0,
     target |-> w.target,
     limit_type |-> IF lrl # Absent /\ lrl.kind = "lrl" /\ lrl.type = "Token"
                    THEN "Tokens" ELSE "Requests",
     fill |-> IF lrl # Absent /\ lrl.kind = "lrl" THEN lrl.fill ELSE Absent]

-----------------------------------------------------------------------------
(* Control-plane pushes                                                    *)

\* Wire messages the control plane may send.
WireTargets == [host: Hosts, port: WirePorts]
WireProviders ==
    {Absent}
      \cup [name: ProviderNames \ {"vertex", "bedrock"},
            model: Models \cup {Absent}, region: {EmptyStr}]
      \cup [name: {"vertex", "bedrock"}, model: Models \cup {Absent},
            region: Regions]
WireMcpTargets == [protocol: McpProtocols, ref: WireRefs]
WireBackends ==
    [kind: {"static"}, host: Hosts, port: WirePorts]
      \cup [kind: {"ai"}, override: WireTargets \cup {Absent},
            provider: WireProviders]
      \cup [kind: {"mcp"},
            targets: UNION {[1..n -> WireMcpTargets] : n \in 0..MaxTargets}]
      \cup {[kind |-> "none"]}
WirePolicies ==
    [target: TargetKinds \cup {Absent, "none"},
     spec: {Absent, [kind |-> "other"]}
             \cup [kind: {"lrl"}, type: {"Request", "Token", "Unknown"},
                   fill: FillIntervals \cup {Absent}]]

Init ==
    /\ backend = [k \in Keys |-> Absent]
    /\ policy = [k \in Keys |-> Absent]
    /\ lastErr = "none"

\* A Backend pushed under key k.
PushBackend(k, w, targetOk) ==
    LET b == BackendFrom(w, targetOk) IN
    /\ Apply(backend, k, b.val, b.err # "none")
    /\ lastErr' = b.err
    /\ UNCHANGED policy

\* A Policy pushed under key k.
PushPolicy(k, w) ==
    LET p == PolicyFrom(w) IN
    /\ Apply(policy, k, [target |-> p.target, limit_type |-> p.limit_type,
                         fill |-> p.fill], ~p.ok)
    /\ UNCHANGED <<backend, lastErr>>

Next ==
    \/ \E k \in Keys, w \in WireBackends, ok \in BOOLEAN : PushBackend(k, w, ok)
    \/ \E k \in Keys, w \in WirePolicies : PushPolicy(k, w)

Spec == Init /\ [][Next]_vars

-----------------------------------------------------------------------------
(* Properties                                                              *)

TypeOK ==
    /\ \A k \in Keys :
         backend[k] # Absent => backend[k].kind \in {"Opaque", "AI", "MCP"}
    /\ policy \in [Keys -> [target: TargetKinds,
                            limit_type: {"Requests", "Tokens"},
                            fill: {f \in FillIntervals : f > 0}]
                           \cup {Absent}]
    /\ lastErr \in {"none", "target", "provider", "mcp_target", "unknown"}

\* Spec 3: an MCP backend keeps one target per wire McpTarget, in order; a
\* target speaks Sse exactly when its wire protocol is Sse (an unset
\* protocol defaults to streamable HTTP), and its backend is Invalid
\* exactly when the wire target named none.
McpTargetsFaithful ==
    \A k \in Keys :
        (backend[k] # Absent /\ backend[k].kind = "MCP") =>
            LET b == backend[k] IN
            /\ DOMAIN b.targets = DOMAIN b.wire
            /\ \A i \in DOMAIN b.wire :
                 /\ b.targets[i].spec = "Sse" <=> b.wire[i].protocol = "Sse"
                 /\ b.targets[i].backend.kind = "Invalid"
                      <=> b.wire[i].ref.kind = "none"

\* Spec 3 and 8: a Bedrock AI backend requires a model and a region; one
\* without either is a conversion error, never stored with a default.
BedrockHasModelAndRegion ==
    \A k \in Keys :
        (backend[k] # Absent /\ backend[k].kind = "AI"
         /\ backend[k].provider.name = "bedrock") =>
            /\ backend[k].provider.model # Absent
            /\ backend[k].provider.region # EmptyStr

=============================================================================
