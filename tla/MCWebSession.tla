---------------------------- MODULE MCWebSession ----------------------------
(* Model-checking instance of WebSession: one browser owned by alice, the  *)
(* attacker's account mallory, the admin role, two FileUser lists, and a   *)
(* time scale where one tick is a slice of the 8-hour session: max_age 3,  *)
(* refresh threshold 1, leeway 1.                                          *)
EXTENDS WebSession

CONSTANTS alice, mallory, b1, admin

MCClients == {b1}
MCUsers == {alice, mallory}
MCOwner == [c \in MCClients |-> alice]
\* The default FileUser list gives alice the admin role; the edited one
\* disables and demotes her. mallory is an ordinary enabled user.
MCConfigs ==
    {[u \in MCUsers |-> [enabled |-> TRUE,
                         roles |-> IF u = alice THEN {admin} ELSE {}]],
     [u \in MCUsers |-> [enabled |-> u # alice, roles |-> {}]]}
MCInitConfig == CHOOSE cfg \in MCConfigs : cfg[alice].enabled
MCGates == {{}, {admin}}
=============================================================================
