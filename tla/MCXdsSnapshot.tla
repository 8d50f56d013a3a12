--------------------------- MODULE MCXdsSnapshot ---------------------------
(* Model-checking instance of XdsSnapshot: one entity key, one host of     *)
(* each kind, service keys with and without a separator.                   *)
EXTENDS XdsSnapshot, Integers

CONSTANTS k1, h1, t1, m1, r1

MCSvcKeys == {<<"a", "/", "a">>, <<"a">>}
MCFillIntervals == {1}
\* Durations: unset and a negative number of seconds.
MCWireTimeouts == {Absent, -1}
MCWireMatches == {[path |-> Absent, headers |-> <<>>, query |-> <<>>]}
=============================================================================
