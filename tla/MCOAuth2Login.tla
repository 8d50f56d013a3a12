---------------------------- MODULE MCOAuth2Login ----------------------------
(* Model-checking instance of OAuth2Login: one browser owned by alice, the  *)
(* attacker's account mallory, provider p1 configured and p2 not.           *)
EXTENDS OAuth2Login

CONSTANTS alice, mallory, b1, p1, p2

MCClients == {b1}
MCOwner == [c \in MCClients |-> alice]
=============================================================================
