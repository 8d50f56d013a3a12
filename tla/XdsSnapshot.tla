----------------------------- MODULE XdsSnapshot -----------------------------
(***************************************************************************)
(* The xDS conversions of src/types/agent_xds.rs together: the Bind,       *)
(* Listener and Route stores of XdsConversion and the Backend and Policy   *)
(* stores of XdsBackends, fed by one control plane that pushes one entity  *)
(* at a time. Each component is an INSTANCE over this module's variables;  *)
(* a step of one leaves the other's stores alone. The host sets of the two *)
(* are kept apart: redirect hosts and backend target hosts.                *)
(***************************************************************************)
EXTENDS Naturals

CONSTANTS
    Keys, WirePorts, EmptyStr, SvcKeys, Absent,   \* shared (XdsCommon)
    WireStatuses, RedirectHosts, MaxBackends,      \* XdsConversion
    Schemes, RefPorts, WireMatches, FilterKinds,
    WireTimeouts, MaxMatches, MaxFilters,
    TargetHosts, Models, Regions, FillIntervals,   \* XdsBackends
    MaxTargets

VARIABLES
    bind, listener, route, panicked, routeErr,     \* XdsConversion
    backend, policy, lastErr                       \* XdsBackends

convVars == <<bind, listener, route, panicked, routeErr>>
backVars == <<backend, policy, lastErr>>
vars == <<convVars, backVars>>

Conv == INSTANCE XdsConversion WITH Hosts <- RedirectHosts
Back == INSTANCE XdsBackends WITH Hosts <- TargetHosts

Init == Conv!Init /\ Back!Init

\* A push of a Bind, Listener or Route.
ConvStep == Conv!Next /\ UNCHANGED backVars

\* A push of a Backend or a Policy.
BackStep == Back!Next /\ UNCHANGED convVars

Next == ConvStep \/ BackStep

Spec == Init /\ [][Next]_vars

-----------------------------------------------------------------------------
(* Properties                                                              *)

TypeOK == Conv!TypeOK /\ Back!TypeOK

\* Spec 4.1 and 7 over the whole snapshot: every port, status and duration
\* the gateway stores, whichever entity carries it (a Bind, a Route's
\* redirect, mirror, direct response, CORS filter or Service backend, a
\* static Backend's target, an AI backend's host override, an MCP target's
\* Service reference), is the number the control plane sent; `as u16` on a
\* u32 port or `as u64` on a negative i64 would store another one.
WireNumbersFaithful ==
    /\ Conv!WireNumbersFaithful
    /\ \A k \in Keys : backend[k] # Absent =>
         LET b == backend[k] IN
         /\ b.kind = "Opaque" => b.target.port = b.target.wire
         /\ b.kind = "AI" /\ b.override # Absent =>
              b.override.port = b.override.wire
         /\ b.kind = "MCP" =>
              \A i \in DOMAIN b.targets :
                  b.targets[i].backend.kind = "Service" =>
                      b.targets[i].backend.port = b.wire[i].ref.port

\* Spec 4.1 and 7: a number the control plane sends outside the range of
\* the runtime type (u16 for ports and statuses, u64 seconds for the CORS
\* max_age) is a ConversionError of the one entity that carries it: it is never
\* stored as another number, and never takes the conversion down with a
\* panic (the redirect port that `as u16` truncates to 0 reaches
\* NonZeroU16::new(..).unwrap()).
NumericRangeRejected == WireNumbersFaithful /\ ~panicked

=============================================================================
