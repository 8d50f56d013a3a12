CONSTANTS
    alice = alice
    mallory = mallory
    b1 = b1
    admin = admin
    Clients <- MCClients
    Users <- MCUsers
    Owner <- MCOwner
    Attacker = mallory
    Roles = {admin}
    Configs <- MCConfigs
    InitConfig <- MCInitConfig
    Gates <- MCGates
    MaxAge = 3
    RefreshThreshold = 1
    Leeway = 1
    CsrfCookieAge = 2
    CsrfProtection = TRUE
    MaxTime = 4
    MaxIds = 4
    NoToken = NoToken
    NoCookie = NoCookie
SPECIFICATION Spec
INVARIANT SessionHonoursConfig
