---------------------------- MODULE AbstractLogin ----------------------------
(***************************************************************************)
(* What a delegated login promises, independent of OAuth2's messages: a    *)
(* browser is logged in only as its owner, and every login spends one      *)
(* authorization the owner gave and that was not spent before. An         *)
(* authorization can also be spent without a login (a failed exchange),    *)
(* and a logged-in browser can log out.                                    *)
(***************************************************************************)
EXTENDS FiniteSets

CONSTANTS
    Clients,   \* browsers
    Owner,     \* [Clients -> users]
    Grants,    \* identities of authorizations
    NoUser     \* no session

VARIABLES
    session,   \* session[c]: the user c is logged in as, or NoUser
    grants     \* grants[c]: the unspent authorizations of c's owner

Init ==
    /\ session = [c \in Clients |-> NoUser]
    /\ grants = [c \in Clients |-> {}]

\* The owner of c authorizes a login.
Authorize(c) ==
    \E g \in Grants \ grants[c] :
        /\ grants' = [grants EXCEPT ![c] = @ \cup {g}]
        /\ UNCHANGED session

\* c is logged in as its owner, spending an authorization.
LogIn(c) ==
    \E g \in grants[c] :
        /\ grants' = [grants EXCEPT ![c] = @ \ {g}]
        /\ session' = [session EXCEPT ![c] = Owner[c]]

\* An authorization is spent without a login.
Spend(c) ==
    \E g \in grants[c] :
        /\ grants' = [grants EXCEPT ![c] = @ \ {g}]
        /\ UNCHANGED session

LogOut(c) ==
    /\ session[c] # NoUser
    /\ session' = [session EXCEPT ![c] = NoUser]
    /\ UNCHANGED grants

Next == \E c \in Clients : Authorize(c) \/ LogIn(c) \/ Spend(c) \/ LogOut(c)

Spec == Init /\ [][Next]_<<session, grants>>

=============================================================================
