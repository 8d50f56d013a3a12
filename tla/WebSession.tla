----------------------------- MODULE WebSession -----------------------------
(***************************************************************************)
(* The web-login session layer of agentgateway (crate agentgateway,        *)
(* src/auth): stateless HS256 session tokens kept in a browser cookie,     *)
(* validated and silently refreshed by auth_middleware, CSRF-checked by    *)
(* csrf_middleware, issued by handle_login_submit and read back by         *)
(* handle_user_info.                                                       *)
(*                                                                         *)
(* Actors: the browsers in Clients, each used by its Owner; a cross-site   *)
(* attacker who can make a victim browser send requests (the browser adds  *)
(* its cookies, the attacker cannot read them or set custom headers); and  *)
(* a token thief who replays session tokens copied from a cookie jar.      *)
(* Time is a discrete clock in whole seconds, as in the JWT claims.        *)
(* The gateway may restart with an edited FileUser list (enabled flags and *)
(* roles); the session secret_key stays, so issued tokens stay valid.      *)
(***************************************************************************)
EXTENDS Naturals, FiniteSets

CONSTANTS
    Clients,          \* browsers
    Users,            \* FileUser usernames of the UserConfig::File list
    Owner,            \* [Clients -> Users]: whose credentials a browser uses
    Attacker,         \* a user whose credentials the attacker knows
    Roles,            \* role names a FileUser may be given
    Configs,          \* FileUser lists the gateway may be started with
    InitConfig,       \* the list it first starts with
    Gates,            \* required_roles of role_required_middleware layers
    MaxAge,           \* SessionConfig.max_age
    RefreshThreshold, \* SessionConfig.refresh_threshold
    Leeway,           \* Validation.leeway set in SessionManager::new
    CsrfCookieAge,    \* max_age of the login-page csrf_token cookie
    CsrfProtection,   \* SecurityConfig.csrf_protection
    MaxTime,          \* bound on the clock
    MaxIds,           \* bound on generated session ids and CSRF tokens
    NoToken,          \* model value: absent token, header or form field
    NoCookie          \* model value: no cookie of that name in the jar

\* UserConfig::File: the FileUser list, keyed by username; a FileUser's
\* password hash and email tell no property apart.
FileUsers == [Users -> [enabled: BOOLEAN, roles: SUBSET Roles]]

ASSUME /\ Owner \in [Clients -> Users] /\ Attacker \in Users
       /\ Configs \subseteq FileUsers
       /\ InitConfig \in Configs /\ Gates \subseteq SUBSET Roles
       /\ {MaxAge, RefreshThreshold, Leeway, CsrfCookieAge, MaxTime, MaxIds}
            \subseteq Nat

VARIABLES
    now,        \* SystemTime::now() in seconds
    nextId,     \* next fresh value for generate_session_id/generate_csrf_token
    jar,        \* jar[c]: the browser's cookies "session" and "csrf"
    pageCsrf,   \* hidden csrf_token field of the last login page c loaded
    knownCsrf,  \* the session CSRF token c's page last received
    stolen,     \* session tokens the thief holds
    users,      \* the FileUser list of the running AuthService
    issued,     \* [user, roles] of every session created at login (history)
    last        \* the last response served (history, for the properties)

vars == <<now, nextId, jar, pageCsrf, knownCsrf, stolen, users, issued, last>>

Methods == {"GET", "POST", "PATCH"}
Ids == 1..MaxIds
\* The claims of a signed session token (SessionClaims); iat, email and
\* metadata are carried unchanged and tell no property apart.
Token == [sid: Ids, user: Users, roles: SUBSET Roles, exp: Nat, csrf: Ids]
SessionCookies == [val: Token, until: Nat]
CsrfCookies == [val: Ids, until: Nat]
Codes == {"None", "OK", "Unauthorized", "Forbidden", "LoginOK", "LoginFail"}
Response == [origin: {"none", "user", "forged", "thief"}, method: Methods,
             code: Codes, presented: Token \cup {NoToken},
             header: Ids \cup {NoToken}, user: Users \cup {NoToken},
             gate: Gates \cup {{}}, at: Nat]

-----------------------------------------------------------------------------
(* SessionManager                                                          *)

\* Mutant of ValidateSession: the explicit expiry check dropped, leaving
\* only the JWT library's check with its leeway.
ValidateSessionNoExpCheck(tok) ==
    IF now > tok.exp + Leeway THEN "JwtError" ELSE "Ok"

\* validate_session: jsonwebtoken's decode rejects a token whose exp is more
\* than Leeway seconds in the past (JwtError); the explicit check then
\* rejects one whose exp has passed (SessionExpired).
ValidateSession(tok) ==
    IF now > tok.exp + Leeway THEN "JwtError"
    ELSE IF now >= tok.exp THEN "SessionExpired"
    ELSE "Ok"

\* refresh_session: only within refresh_threshold of expiry; the new
\* session keeps id, user and roles, gets exp = now + max_age and a new
\* CSRF token.
NeedsRefresh(tok) == tok.exp - now <= RefreshThreshold
RefreshSession(tok) ==
    [sid |-> tok.sid, user |-> tok.user, roles |-> tok.roles,
     exp |-> now + MaxAge, csrf |-> nextId]

\* UserSession::new with the roles authenticate_user returned, followed by
\* create_session: fresh session id and CSRF token, expiry max_age from now.
NewSession(u, roles) ==
    [sid |-> nextId, user |-> u, roles |-> roles, exp |-> now + MaxAge,
     csrf |-> nextId + 1]

\* create_session_cookie: Max-Age is max_age, so the browser drops it then.
SessionCookie(tok) == [val |-> tok, until |-> now + MaxAge]

validate_csrf_token(tok, provided) == tok.csrf = provided

\* A browser sends a cookie until its Max-Age has run out.
Sent(ck) == ck # NoCookie /\ now < ck.until
SentVal(ck) == IF Sent(ck) THEN ck.val ELSE NoToken

-----------------------------------------------------------------------------
(* Middleware                                                              *)

is_state_changing_request(m) == m \in {"POST", "PUT", "DELETE", "PATCH"}

\* auth_middleware for a protected path with auth enabled: the session it
\* puts in the request extensions and what it does to the session cookie.
AuthMiddleware(tok) ==
    IF tok = NoToken
    THEN [session |-> NoToken, cookie |-> "keep"]
    ELSE CASE ValidateSession(tok) = "Ok" /\ NeedsRefresh(tok) ->
                [session |-> RefreshSession(tok), cookie |-> "refresh"]
           [] ValidateSession(tok) = "Ok" ->
                [session |-> tok, cookie |-> "keep"]
           [] ValidateSession(tok) = "SessionExpired" ->
                [session |-> NoToken, cookie |-> "logout"]
           [] OTHER -> [session |-> NoToken, cookie |-> "keep"]

\* csrf_middleware, which runs inside auth_middleware and so sees the
\* session (possibly refreshed) that auth_middleware inserted.
CsrfMiddlewarePasses(session, m, header) ==
    \/ ~is_state_changing_request(m)
    \/ ~CsrfProtection
    \/ header # NoToken /\ validate_csrf_token(session, header)

\* UserSession::has_any_role, through has_role.
has_any_role(session, roles) == \E r \in roles : r \in session.roles

\* Mutant of role_required_middleware: the has_any_role check dropped.
RoleRequiredNoCheck(session, required) == required = {} \/ TRUE

\* role_required_middleware(required_roles) with the session that
\* auth_middleware inserted (without one it answers 401, as auth_middleware
\* already did): an empty list or any one of the roles lets it through.
role_required_middleware(session, required) ==
    required = {} \/ has_any_role(session, required)

\* The status of a protected request behind a role_required_middleware
\* layer for gate ({} for a route without one) and the session cookie
\* afterwards. Both csrf_middleware and the role layer answer 403, so
\* their order tells no outcome apart.
ServeProtected(tok, m, header, ck, gate) ==
    LET a == AuthMiddleware(tok) IN
    [code |-> IF a.session = NoToken THEN "Unauthorized"
              ELSE IF /\ CsrfMiddlewarePasses(a.session, m, header)
                      /\ role_required_middleware(a.session, gate)
                   THEN "OK"
              ELSE "Forbidden",
     session |-> a.session,
     cookie |-> CASE a.cookie = "refresh" -> SessionCookie(a.session)
                  [] a.cookie = "logout" -> NoCookie
                  [] OTHER -> ck]

\* Ids a request step consumes: a refresh draws one CSRF token.
IdsUsed(tok) == IF AuthMiddleware(tok).cookie = "refresh" THEN 1 ELSE 0

Resp(origin, m, code, tok, header, u, gate) ==
    [origin |-> origin, method |-> m, code |-> code, presented |-> tok,
     header |-> header, user |-> u, gate |-> gate, at |-> now]
UserOf(s) == IF s = NoToken THEN NoToken ELSE s.user

-----------------------------------------------------------------------------
(* Handlers and actors                                                     *)

TypeOK ==
    /\ now \in 0..MaxTime
    /\ nextId \in 1..(MaxIds + 1)
    /\ jar \in [Clients -> [session: SessionCookies \cup {NoCookie},
                             csrf: CsrfCookies \cup {NoCookie}]]
    /\ pageCsrf \in [Clients -> Ids \cup {NoToken}]
    /\ knownCsrf \in [Clients -> Ids \cup {NoToken}]
    /\ stolen \subseteq Token
    /\ users \in Configs
    /\ issued \subseteq [user: Users, roles: SUBSET Roles]
    /\ last \in Response

Init ==
    /\ now = 0
    /\ nextId = 1
    /\ jar = [c \in Clients |-> [session |-> NoCookie, csrf |-> NoCookie]]
    /\ pageCsrf = [c \in Clients |-> NoToken]
    /\ knownCsrf = [c \in Clients |-> NoToken]
    /\ stolen = {}
    /\ users = InitConfig
    /\ issued = {}
    /\ last = Resp("none", "GET", "None", NoToken, NoToken, NoToken, {})

\* The clock advances one second.
Tick ==
    /\ now < MaxTime
    /\ now' = now + 1
    /\ UNCHANGED <<nextId, jar, pageCsrf, knownCsrf, stolen, users, issued,
                   last>>

\* The gateway restarts with another FileUser list: AuthService::new builds
\* a new FileUserProvider and a SessionManager with the same secret_key.
\* Nothing else is kept in the server; browsers keep their cookies.
Restart ==
    \E cfg \in Configs \ {users} :
        /\ users' = cfg
        /\ UNCHANGED <<now, nextId, jar, pageCsrf, knownCsrf, stolen, issued,
                       last>>

\* handle_login_page: a browser with a valid session is redirected;
\* otherwise a fresh CSRF token is set as a 10-minute cookie and embedded
\* in the form.
LoginPage(c) ==
    LET tok == SentVal(jar[c].session) IN
    IF tok # NoToken /\ ValidateSession(tok) = "Ok"
    THEN UNCHANGED vars
    ELSE /\ nextId <= MaxIds
         /\ jar' = [jar EXCEPT ![c].csrf = [val |-> nextId,
                                             until |-> now + CsrfCookieAge]]
         /\ pageCsrf' = [pageCsrf EXCEPT ![c] = nextId]
         /\ nextId' = nextId + 1
         /\ UNCHANGED <<now, knownCsrf, stolen, users, issued, last>>

\* FileUserProvider::authenticate_user: the user is found only if enabled,
\* then the password is verified; the User carries the FileUser's roles.
authenticate_user(u, pwOk) == users[u].enabled /\ pwOk

\* handle_login_submit: the CSRF check runs only when the body carries a
\* csrf_token; authentication failure is InvalidCredentials. On success a
\* new session with the user's roles is set as cookie, the csrf_token
\* cookie removed and the session's CSRF token returned to the page that
\* sent the request.
LoginSubmit(c, origin, u, pwOk, field) ==
    LET ck == SentVal(jar[c].csrf)
        csrfOk == field = NoToken \/ (ck # NoToken /\ ck = field)
        tok == NewSession(u, users[u].roles) IN
    IF csrfOk /\ authenticate_user(u, pwOk)
    THEN /\ nextId + 1 <= MaxIds
         /\ jar' = [jar EXCEPT ![c] = [session |-> SessionCookie(tok),
                                        csrf |-> NoCookie]]
         /\ knownCsrf' = IF origin = "user"
                         THEN [knownCsrf EXCEPT ![c] = tok.csrf]
                         ELSE knownCsrf
         /\ nextId' = nextId + 2
         /\ issued' = issued \cup {[user |-> u, roles |-> tok.roles]}
         /\ last' = Resp(origin, "POST", "LoginOK", NoToken, field, u, {})
         /\ UNCHANGED <<now, pageCsrf, stolen, users>>
    ELSE /\ last' = Resp(origin, "POST", "LoginFail", NoToken, field, u, {})
         /\ UNCHANGED <<now, nextId, jar, pageCsrf, knownCsrf, stolen, users,
                        issued>>

\* The owner submits the form of the last login page, right or wrong.
UserLogin(c) ==
    /\ pageCsrf[c] # NoToken
    /\ \E pwOk \in BOOLEAN : LoginSubmit(c, "user", Owner[c], pwOk, pageCsrf[c])

\* A cross-site page posts the attacker's credentials from c; it cannot
\* read c's csrf_token cookie, so the body has no csrf_token.
ForgedLogin(c) == LoginSubmit(c, "forged", Attacker, TRUE, NoToken)

\* Mutant of Logout: the logout cookie built without max_age(0), so the
\* browser keeps an empty session cookie instead of deleting it.
LogoutCookieKept(c) ==
    /\ jar' = [jar EXCEPT ![c].session = [val |-> NoToken,
                                            until |-> now + MaxAge]]
    /\ UNCHANGED <<now, nextId, pageCsrf, knownCsrf, stolen, users, issued,
                   last>>

\* handle_logout: the logout cookie (empty, Max-Age 0) deletes the session
\* cookie; the token itself stays valid.
Logout(c) ==
    /\ jar' = [jar EXCEPT ![c].session = NoCookie]
    /\ UNCHANGED <<now, nextId, pageCsrf, knownCsrf, stolen, users, issued,
                   last>>

\* A request from browser c through auth_middleware, csrf_middleware and
\* a role_required_middleware layer for gate.
Serve(c, origin, m, header, gate) ==
    LET tok == SentVal(jar[c].session)
        s == ServeProtected(tok, m, header, jar[c].session, gate) IN
    /\ nextId + IdsUsed(tok) <= MaxIds + 1
    /\ jar' = [jar EXCEPT ![c].session = s.cookie]
    /\ nextId' = nextId + IdsUsed(tok)
    /\ last' = Resp(origin, m, s.code, tok, header, UserOf(s.session), gate)
    /\ UNCHANGED <<now, pageCsrf, knownCsrf, stolen, users, issued>>

\* The owner's page sends the CSRF token it knows with state-changing calls.
UserRequest(c) ==
    \E m \in Methods, gate \in Gates :
        Serve(c, "user", m,
              IF is_state_changing_request(m) THEN knownCsrf[c] ELSE NoToken,
              gate)

\* A cross-site page makes c send a request: cookies, but no header.
ForgedRequest(c) ==
    \E m \in Methods, gate \in Gates : Serve(c, "forged", m, NoToken, gate)

\* handle_user_info behind auth_middleware: the handler validates the
\* cookie the middleware left (a refreshed one if it refreshed) and returns
\* that session's CSRF token to the page.
UserInfo(c) ==
    LET tok == SentVal(jar[c].session)
        s == ServeProtected(tok, "GET", NoToken, jar[c].session, {}) IN
    /\ nextId + IdsUsed(tok) <= MaxIds + 1
    /\ jar' = [jar EXCEPT ![c].session = s.cookie]
    /\ nextId' = nextId + IdsUsed(tok)
    /\ knownCsrf' = IF s.code = "OK"
                    THEN [knownCsrf EXCEPT ![c] = s.session.csrf]
                    ELSE knownCsrf
    /\ last' = Resp("user", "GET", s.code, tok, NoToken, UserOf(s.session), {})
    /\ UNCHANGED <<now, pageCsrf, stolen, users, issued>>

\* The thief copies the session token out of c's jar.
StealToken(c) ==
    /\ Sent(jar[c].session)
    /\ stolen' = stolen \cup {jar[c].session.val}
    /\ UNCHANGED <<now, nextId, jar, pageCsrf, knownCsrf, users, issued, last>>

\* The thief replays a stolen token; a refreshed token in the response's
\* Set-Cookie is stolen too.
Replay ==
    \E t \in stolen, m \in Methods, gate \in Gates :
        LET s == ServeProtected(t, m, NoToken, NoCookie, gate) IN
        /\ nextId + IdsUsed(t) <= MaxIds + 1
        /\ nextId' = nextId + IdsUsed(t)
        /\ stolen' = IF s.cookie = NoCookie THEN stolen
                     ELSE stolen \cup {s.cookie.val}
        /\ last' = Resp("thief", m, s.code, t, NoToken, UserOf(s.session),
                        gate)
        /\ UNCHANGED <<now, jar, pageCsrf, knownCsrf, users, issued>>

Next ==
    \/ Tick
    \/ Restart
    \/ Replay
    \/ \E c \in Clients :
         \/ LoginPage(c) \/ UserLogin(c) \/ ForgedLogin(c) \/ Logout(c)
         \/ UserRequest(c) \/ ForgedRequest(c) \/ UserInfo(c) \/ StealToken(c)

Spec == Init /\ [][Next]_vars

-----------------------------------------------------------------------------
(* Properties                                                              *)

\* A request is served under a session only if the token it presented had
\* not expired at that moment (validate_session's explicit exp check on top
\* of the 60-second JWT leeway); in particular a token stolen before logout
\* stops working at its own expiry, refreshes aside.
NoExpiredSessionServed ==
    last.code = "OK" => last.at < last.presented.exp

\* The session cookie in a browser belongs to the browser's owner: nobody
\* else can log the browser into another account (login CSRF), which the
\* login page's csrf_token cookie and form field are there to prevent.
SessionBelongsToOwner ==
    \A c \in Clients :
        Sent(jar[c].session) => jar[c].session.val.user = Owner[c]

RoleGateHonoured ==
    (last.code = "OK" /\ last.gate # {}) =>
        \E g \in issued : g.user = last.user /\ g.roles \cap last.gate # {}

\* A request reaches a handler only for a user that the FileUser list the
\* gateway runs with now has enabled, and passes a role layer only with a
\* role that list gives the user now: disabling or demoting a user and
\* restarting takes effect on the sessions already issued, as it does on
\* authenticate_user.
SessionHonoursConfig ==
    last.code = "OK" =>
        /\ users[last.user].enabled
        /\ last.gate = {} \/ users[last.user].roles \cap last.gate # {}

=============================================================================
