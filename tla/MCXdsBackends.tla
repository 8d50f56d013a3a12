---------------------------- MODULE MCXdsBackends ----------------------------
(* Model-checking instance of XdsBackends: one entity key, one host, one   *)
(* model name, and service keys over {"a", "/"} of length up to three.     *)
EXTENDS XdsBackends

CONSTANTS k1, h1, m1, r1

\* Service keys: no separator, one, and a separator at both ends.
MCSvcKeys == {<<"a">>, <<"a", "/", "a">>, <<"/", "a", "/">>}

\* A negative Duration, a zero one and a valid one.
MCFillIntervals == {-1, 0, 1}
=============================================================================
