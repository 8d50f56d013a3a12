--------------------------- MODULE MCXdsConversion ---------------------------
(* Model-checking instance of XdsConversion: one entity key, a host, and   *)
(* service keys over {"a", "/"} of length up to three.                     *)
EXTENDS XdsConversion

CONSTANTS k1, h1

\* Service keys: no separator, one, and a separator at both ends.
MCSvcKeys == {<<"a">>, <<"a", "/", "a">>, <<"/", "a", "/">>, <<"a", "/">>}

\* Wire RouteMatches: no path, an exact and a regex path (the regex with a
\* pattern of length 2).
NoPath == [path |-> Absent, headers |-> <<>>, query |-> <<>>]
PathOf(kind) == [kind |-> kind, value |-> "v", compiles |-> TRUE, len |-> 2]
MCWireMatches ==
    {NoPath}
      \cup {[NoPath EXCEPT !.path = PathOf(kd)] : kd \in {"exact", "regex"}}

\* TrafficPolicy timeouts: unset, zero, and a negative Duration.
MCWireTimeouts == {Absent, 0, -1}
=============================================================================
