------------------------------ MODULE Accounts ------------------------------
(***************************************************************************)
(* Users and tokens: UserManager over the store's users table, JwtManager  *)
(* and AuthMiddleware.                                                     *)
(*                                                                         *)
(* The times in a token are whole seconds, the clock is finer: it counts   *)
(* TicksPerSecond ticks in a second.  The clock may be set back, and the   *)
(* server may restart with another secret while a client keeps its token.  *)
(* hashPassword is taken to tell passwords apart, and a signature to be    *)
(* that of a secret (the libraries' promise).  One client has one token.   *)
(***************************************************************************)
EXTENDS Naturals

CONSTANTS Usernames, Passwords, Secrets,
          Roles,           \* of users, and required by operations
          NoAccount, NoToken,
          TicksPerSecond,
          ExpirySeconds,   \* expiryHours_, in seconds
          MaxClock         \* bound: ticks

ASSUME AccountsAssumption ==
    /\ {TicksPerSecond, ExpirySeconds} \subseteq Nat \ {0}
    /\ MaxClock \in Nat
    /\ Roles \subseteq {"admin", "operator", "viewer"}

VARIABLES users,       \* table users: username -> [password_hash, role]
          registered,  \* history: username -> who was told to have created it
          clock,       \* ticks
          secret_,     \* of the running server
          token,       \* the client's token: its claims, and the secret of its signature
          issued,      \* history: the tick of generateToken
          setBack      \* history: the clock was set back since then

accountsVars == <<users, registered, clock, secret_, token, issued, setBack>>

(* Salted, SHA-256, in hexadecimal.                                         *)
hashPassword(password) == [sha256 |-> password]

User == [password_hash : {hashPassword(p) : p \in Passwords}, role : Roles]

Token == [role : Roles, iat : 0..MaxClock, exp : Nat, secret : Secrets]

ASSUME AbsentAssumption == NoAccount \notin User /\ NoToken \notin Token

AccountsTypeOK ==
    /\ users \in [Usernames -> User \cup {NoAccount}]
    /\ registered \in [Usernames -> SUBSET User]
    /\ clock \in 0..MaxClock
    /\ secret_ \in Secrets
    /\ token \in Token \cup {NoToken}
    /\ issued \in 0..MaxClock
    /\ setBack \in BOOLEAN
    /\ token # NoToken => token.exp - token.iat = ExpirySeconds * TicksPerSecond

AccountsInit ==
    /\ users = [u \in Usernames |-> NoAccount]
    /\ registered = [u \in Usernames |-> {}]
    /\ clock = 0
    /\ secret_ \in Secrets
    /\ token = NoToken
    /\ issued = 0
    /\ setBack = FALSE

-----------------------------------------------------------------------------
(* Users.                                                                  *)

verifyPassword(password, hash) == hashPassword(password) = hash

(* createUser: the INSERT fails when the username is taken (unique).       *)
ReplacesUser(u, password, role) ==                            \* mistaken
    LET user == [password_hash |-> hashPassword(password), role |-> role]
    IN  /\ users' = [users EXCEPT ![u] = user]
        /\ registered' = [registered EXCEPT ![u] = @ \cup {user}]
        /\ UNCHANGED <<clock, secret_, token, issued, setBack>>

createUser(u, password, role) ==
    LET user == [password_hash |-> hashPassword(password), role |-> role]
    IN  /\ users[u] = NoAccount
        /\ users' = [users EXCEPT ![u] = user]
        /\ registered' = [registered EXCEPT ![u] = @ \cup {user}]
        /\ UNCHANGED <<clock, secret_, token, issued, setBack>>

authenticate(u, password) ==
    users[u] # NoAccount /\ verifyPassword(password, users[u].password_hash)

-----------------------------------------------------------------------------
(* Tokens.                                                                 *)

Truncate(t) == t - (t % TicksPerSecond)

ExpiresAt(t) == Truncate(t + ExpirySeconds * TicksPerSecond)

generateToken(role) ==
    /\ token' = [role |-> role, iat |-> Truncate(clock), exp |-> ExpiresAt(clock),
                 secret |-> secret_]
    /\ issued' = clock
    /\ setBack' = FALSE
    /\ UNCHANGED <<users, registered, clock, secret_>>

(* The verifier: signature, and neither issued in the future nor expired.  *)
IgnoresSignature == token # NoToken /\ token.iat <= clock /\ clock <= token.exp  \* mistaken
validateToken ==
    /\ token # NoToken
    /\ token.secret = secret_
    /\ token.iat <= clock
    /\ clock <= token.exp

isExpired == token = NoToken \/ clock > token.exp

(* The header is absent, of another scheme, or "Bearer " and the token.    *)
validateRequest(header) == header = "Bearer" /\ validateToken

hasPermission(role, requiredRole) ==
    \/ role = "admin"
    \/ role = "operator" /\ requiredRole = "viewer"
    \/ role = requiredRole

-----------------------------------------------------------------------------
tickOn ==
    /\ clock < MaxClock
    /\ clock' = clock + 1
    /\ UNCHANGED <<users, registered, secret_, token, issued, setBack>>

setClockBack ==
    /\ clock > 0
    /\ clock' \in 0..clock - 1
    /\ setBack' = TRUE
    /\ UNCHANGED <<users, registered, secret_, token, issued>>

restartServer(secret) ==
    /\ secret_' = secret
    /\ UNCHANGED <<users, registered, clock, token, issued, setBack>>

AccountsNext ==
    \/ \E u \in Usernames, password \in Passwords, role \in Roles : createUser(u, password, role)
    \/ \E role \in Roles : generateToken(role)
    \/ tickOn \/ setClockBack
    \/ \E secret \in Secrets : restartServer(secret)

AccountsSpec == AccountsInit /\ [][AccountsNext]_accountsVars

-----------------------------------------------------------------------------
(* Who was told to have created a user has its account: the password and   *)
(* the role given then are the ones that count from then on, whatever is   *)
(* registered under the same name by others.                               *)
FirstRegistrationStays ==
    \A u \in Usernames : \A user \in registered[u] :
        /\ users[u] = user
        /\ \A password \in Passwords :
              authenticate(u, password) <=> user.password_hash = hashPassword(password)

Level(role) == CASE role = "admin" -> 3 [] role = "operator" -> 2 [] role = "viewer" -> 1

Allowed(requiredRole) == validateRequest("Bearer") /\ hasPermission(token.role, requiredRole)

(* A token serves its client for its role and the lower ones, from the     *)
(* moment it is issued and for the configured time less what truncating    *)
(* its times to seconds takes; never longer, nor on a server with another  *)
(* secret.  Across restarts, and as long as the clock is not set back.     *)
TokenServes ==
    token # NoToken /\ ~setBack =>
        \A required \in Roles :
            LET age == clock - issued
                life == ExpirySeconds * TicksPerSecond
                suffices == Level(token.role) >= Level(required)
            IN  /\ suffices /\ token.secret = secret_ /\ age <= life - TicksPerSecond =>
                      Allowed(required) /\ ~isExpired
                /\ Allowed(required) => suffices /\ token.secret = secret_ /\ age <= life
=============================================================================
