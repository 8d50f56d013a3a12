----------------------------- MODULE OAuth2Login -----------------------------
(***************************************************************************)
(* The OAuth2 authorization-code login of agentgateway (src/auth/          *)
(* handlers.rs, providers.rs): handle_oauth2_providers lists authorization *)
(* URLs, handle_oauth2_login starts a login and stores its state in the    *)
(* oauth2_state cookie, the identity provider redirects back with a code,  *)
(* and handle_oauth2_callback checks the state, exchanges the code, reads  *)
(* the user info and sets the session cookie.                              *)
(*                                                                         *)
(* The identity provider issues single-use codes bound to the provider and *)
(* the user who authorized. An attacker can authorize at a provider with   *)
(* the attacker's own account and make a victim's browser open the         *)
(* resulting callback URL. Session tokens are abstracted to the user they  *)
(* name (module WebSession models them). Cookie max-age (10 minutes for    *)
(* oauth2_state) is not modelled: every step is taken within it.           *)
(***************************************************************************)
EXTENDS Naturals, FiniteSets, Functions, TLC

CONSTANTS
    Clients,         \* browsers
    Providers,       \* provider names that can appear in a URL path
    Configured,      \* names of config.oauth2.providers (AuthService)
    Owner,           \* [Clients -> Users]: the account the browser's user has
    Attacker,        \* the attacker's own account at every provider
    OAuth2Enabled,   \* config.oauth2.enabled
    Failures,        \* whether token exchange and user info calls may fail
    MaxIds,          \* bound on generated states and codes
    NoUser           \* model value: no session cookie

Users == Range(Owner) \cup {Attacker}

ASSUME /\ Configured \subseteq Providers /\ Attacker \notin Range(Owner)
       /\ OAuth2Enabled \in BOOLEAN /\ Failures \in BOOLEAN /\ MaxIds \in Nat

VARIABLES
    nextId,     \* fresh values for Uuid::new_v4 states and provider codes
    stateCookie,\* stateCookie[c]: value of c's oauth2_state cookie, or 0
    session,    \* session[c]: the user c's session cookie names, or NoUser
    pending,    \* authorization URLs c holds: [prov, state, listed]
    callbacks,  \* callback URLs c may open: [prov, code, state, error]
    visited,    \* the callback URLs c has opened at least once
    codes,      \* the providers' authorization codes: [prov, user, used]
    listedDone, \* a login begun from the providers list reached a session
    last        \* outcome of the last callback (history, for properties)

vars == <<nextId, stateCookie, session, pending, callbacks, visited, codes,
          listedDone, last>>

Ids == 1..MaxIds

Init ==
    /\ nextId = 1
    /\ stateCookie = [c \in Clients |-> 0]
    /\ session = [c \in Clients |-> NoUser]
    /\ pending = [c \in Clients |-> {}]
    /\ callbacks = [c \in Clients |-> {}]
    /\ visited = [c \in Clients |-> {}]
    /\ codes = <<>>
    /\ listedDone = [c \in Clients |-> FALSE]
    /\ last = [client |-> NoUser, outcome |-> "none"]

-----------------------------------------------------------------------------

\* AuthService::get_oauth2_provider
get_oauth2_provider(name) == name \in Configured

\* handle_oauth2_providers: with oauth2 enabled, one authorization URL per
\* configured provider, each with a fresh state that is stored nowhere.
OAuth2Providers(c) ==
    /\ OAuth2Enabled
    /\ nextId + Cardinality(Configured) - 1 <= MaxIds
    /\ LET order == CHOOSE f \in [1..Cardinality(Configured) -> Configured] :
                       Range(f) = Configured
       IN pending' = [pending EXCEPT ![c] = @ \cup
            {[prov |-> order[i], state |-> nextId + i - 1, listed |-> TRUE] :
               i \in DOMAIN order}]
    /\ nextId' = nextId + Cardinality(Configured)
    /\ UNCHANGED <<stateCookie, session, callbacks, visited, codes, listedDone, last>>

\* handle_oauth2_login: 404 for an unknown provider; otherwise a fresh
\* state, stored in the oauth2_state cookie (replacing any earlier one),
\* and a redirect to the provider's authorization URL.
OAuth2Login(c, p) ==
    /\ get_oauth2_provider(p)
    /\ nextId <= MaxIds
    /\ stateCookie' = [stateCookie EXCEPT ![c] = nextId]
    /\ pending' = [pending EXCEPT ![c] = @ \cup
                     {[prov |-> p, state |-> nextId, listed |-> FALSE]}]
    /\ nextId' = nextId + 1
    /\ UNCHANGED <<session, callbacks, visited, codes, listedDone, last>>

\* The browser's user authorizes at the provider, which issues a code for
\* the user and redirects to the callback with the code and the state; or
\* the user denies and the callback carries an error.
Authorize(c) ==
    \E u \in pending[c] :
        \/ /\ nextId <= MaxIds
           /\ codes' = codes @@ (nextId :> [prov |-> u.prov, user |-> Owner[c],
                                             used |-> FALSE])
           /\ callbacks' = [callbacks EXCEPT ![c] = @ \cup
                {[prov |-> u.prov, code |-> nextId, state |-> u.state,
                  error |-> FALSE, listed |-> u.listed]}]
           /\ nextId' = nextId + 1
           /\ pending' = [pending EXCEPT ![c] = @ \ {u}]
           /\ UNCHANGED <<stateCookie, session, visited, listedDone, last>>
        \/ /\ callbacks' = [callbacks EXCEPT ![c] = @ \cup
                {[prov |-> u.prov, code |-> 0, state |-> u.state,
                  error |-> TRUE, listed |-> u.listed]}]
           /\ pending' = [pending EXCEPT ![c] = @ \ {u}]
           /\ UNCHANGED <<nextId, stateCookie, session, visited, codes, listedDone, last>>

\* The attacker runs handle_oauth2_login in the attacker's own browser,
\* authorizes as Attacker and keeps the callback URL instead of opening it
\* (possibly editing the provider name in its path); then makes the
\* victim's browser c open it.
PlantCallback(c) ==
    \E p \in Providers :
        /\ nextId + 1 <= MaxIds
        /\ codes' = codes @@ (nextId :> [prov |-> p, user |-> Attacker,
                                          used |-> FALSE])
        /\ callbacks' = [callbacks EXCEPT ![c] = @ \cup
             {[prov |-> p, code |-> nextId, state |-> nextId + 1,
               error |-> FALSE, listed |-> FALSE]}]
        /\ nextId' = nextId + 2
        /\ UNCHANGED <<stateCookie, session, pending, visited, listedDone, last>>

\* Mutant of CodeRedeemable: exchange_code sends the state where the code
\* belongs (arguments swapped).
CodeRedeemableSwapped(cb) ==
    /\ cb.state \in DOMAIN codes
    /\ codes[cb.state].prov = cb.prov
    /\ ~codes[cb.state].used

\* The provider's token endpoint accepts a code it issued, not yet used.
CodeRedeemable(cb) ==
    /\ cb.code \in DOMAIN codes
    /\ codes[cb.code].prov = cb.prov
    /\ ~codes[cb.code].used

\* Mutant of StateValid: a callback without an oauth2_state cookie is let
\* through instead of redirected with missing_state.
StateValidLenient(c, cb) == stateCookie[c] = 0 \/ stateCookie[c] = cb.state

\* Mutant of StateValid: the oauth2_state cookie compared with the code
\* query parameter instead of the state.
StateValidCode(c, cb) == stateCookie[c] # 0 /\ stateCookie[c] = cb.code

\* The state check of handle_oauth2_callback: the oauth2_state cookie must
\* be present and equal to the state query parameter.
StateValid(c, cb) == stateCookie[c] # 0 /\ stateCookie[c] = cb.state

\* The outcome of the state check and provider lookup of the callback.
CallbackPrecheck(c, cb) ==
    CASE cb.error -> "oauth2_error"
      [] stateCookie[c] = 0 /\ ~StateValid(c, cb) -> "missing_state"
      [] ~StateValid(c, cb) -> "invalid_state"
      [] ~get_oauth2_provider(cb.prov) -> "not_found"
      [] OTHER -> "exchange"

\* get_user_info and map_user_info: the user id is the sub claim of the
\* account that authorized the code.
UserOfCode(cb) == codes[cb.code].user

\* handle_oauth2_callback. exchange_code and get_user_info are HTTP calls
\* to the provider: the exchange can fail before the provider sees the code
\* ("net"), or the code is redeemed and the exchange or the user info call
\* fails afterwards ("after"); a code the provider does not redeem fails the
\* exchange. Every failure is a 500 that leaves the state cookie in place.
\* On success map_user_info's user gets a session cookie and the
\* oauth2_state cookie is removed.
Callback(c, cb) ==
    LET pre == CallbackPrecheck(c, cb)
        done(o) == last' = [client |-> c, outcome |-> o]
    IN
    \/ /\ pre # "exchange"
       /\ done(pre)
       /\ UNCHANGED <<nextId, stateCookie, session, pending, callbacks, codes,
                      listedDone>>
    \/ /\ pre = "exchange"
       /\ ~CodeRedeemable(cb)
       /\ done("exchange_failed")
       /\ UNCHANGED <<nextId, stateCookie, session, pending, callbacks, codes,
                      listedDone>>
    \/ /\ pre = "exchange"
       /\ CodeRedeemable(cb)
       /\ \E r \in IF Failures THEN {"ok", "net", "after"} ELSE {"ok"} :
            /\ codes' = IF r = "net" THEN codes
                        ELSE [codes EXCEPT ![cb.code].used = TRUE]
            /\ IF r = "ok"
               THEN /\ session' = [session EXCEPT ![c] = UserOfCode(cb)]
                    /\ stateCookie' = [stateCookie EXCEPT ![c] = 0]
                    /\ listedDone' = [listedDone EXCEPT ![c] = @ \/ cb.listed]
                    /\ done("ok")
               ELSE /\ done(IF r = "net" THEN "exchange_failed"
                            ELSE "userinfo_failed")
                    /\ UNCHANGED <<stateCookie, session, listedDone>>
       /\ UNCHANGED <<nextId, pending, callbacks>>

\* The browser opens a callback URL for the first time.
OpenCallback(c) ==
    \E cb \in callbacks[c] \ visited[c] :
        /\ Callback(c, cb)
        /\ visited' = [visited EXCEPT ![c] = @ \cup {cb}]

\* The user reloads a callback page, or goes back to it.
ReopenCallback(c) ==
    \E cb \in visited[c] : Callback(c, cb) /\ UNCHANGED visited

\* handle_logout (the session cookie is deleted).
Logout(c) ==
    /\ session[c] # NoUser
    /\ session' = [session EXCEPT ![c] = NoUser]
    /\ UNCHANGED <<nextId, stateCookie, pending, callbacks, visited, codes,
                   listedDone, last>>

Next ==
    \E c \in Clients :
        \/ OAuth2Providers(c)
        \/ \E p \in Providers : OAuth2Login(c, p)
        \/ Authorize(c) \/ PlantCallback(c)
        \/ OpenCallback(c) \/ ReopenCallback(c) \/ Logout(c)

\* The user's own steps are taken eventually once possible: following an
\* authorization URL and opening the callback it leads to.
Fairness ==
    \A c \in Clients : WF_vars(Authorize(c)) /\ WF_vars(OpenCallback(c))

Spec == Init /\ [][Next]_vars /\ Fairness

-----------------------------------------------------------------------------
(* Properties                                                              *)

\* The abstract login of module AbstractLogin: the authorizations of c's
\* owner not yet spent are the owner's codes the provider has not redeemed.
OwnerGrants ==
    [c \in Clients |->
        {i \in DOMAIN codes : codes[i].user = Owner[c] /\ ~codes[i].used}]

Abstract == INSTANCE AbstractLogin WITH Grants <- Ids, grants <- OwnerGrants

\* handle_oauth2_callback implements a delegated login: a browser only
\* ever logs in as its owner, each login redeems one code its owner
\* authorized and no code logs anyone in twice (the oauth2_state check and
\* the provider's single-use codes together).
AbstractLoginSpec == Abstract!Spec

\* A login started with handle_oauth2_login, authorized at a configured
\* provider and still the one the oauth2_state cookie names, ends with the
\* browser logged in as its owner, is superseded by a newer login, or ends
\* in a 500 from a provider call of its callback.
Awaiting(c, st) ==
    /\ stateCookie[c] = st
    /\ \E cb \in callbacks[c] \ visited[c] :
         cb.state = st /\ ~cb.error /\ get_oauth2_provider(cb.prov)

LoginCompletes ==
    \A c \in Clients, st \in Ids :
        Awaiting(c, st) ~>
            \/ session[c] = Owner[c]
            \/ stateCookie[c] # st
            \/ last.client = c
               /\ last.outcome \in {"exchange_failed", "userinfo_failed"}

\* With config.oauth2.enabled false no OAuth2 login creates a session.
DisabledOAuth2Unused ==
    ~OAuth2Enabled => \A c \in Clients : session[c] = NoUser

\* A login begun by following an authorization URL of the providers list
\* (GET /auth/oauth2/providers) eventually logs the browser in once the
\* provider has granted it and the user follows through.
ListedLoginCompletes ==
    \A c \in Clients :
        (\E cb \in callbacks[c] : cb.listed /\ ~cb.error) ~> listedDone[c]

=============================================================================
