CONSTANTS
    alice = alice
    mallory = mallory
    b1 = b1
    p1 = p1
    p2 = p2
    Clients <- MCClients
    Providers = {p1, p2}
    Configured = {p1}
    Owner <- MCOwner
    Attacker = mallory
    OAuth2Enabled = TRUE
    Failures = FALSE
    MaxIds = 5
    NoUser = NoUser
SPECIFICATION Spec
PROPERTY ListedLoginCompletes
