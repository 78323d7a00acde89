------------------------------ MODULE Sessions ------------------------------
(***************************************************************************)
(* The sessions of one account: its refresh tokens                         *)
(* (auth/refresh-token.service.ts), the version that ends its access       *)
(* tokens and the cache of that version (auth/token-version.ts), the       *)
(* requests that log in, refresh and log out (auth/routes.ts), everybody   *)
(* who ends sessions (user/service.ts, auth/service.ts, two-factor, LDAP), *)
(* and the tabs of a browser, which share one refresh cookie               *)
(* (web/src/config/api.ts).                                                *)
(*                                                                         *)
(* Access tokens are the pairs of claims they carry; they are never        *)
(* forgotten, so what holds here holds for every unexpired one.  A day is  *)
(* longer than any request: rows are pruned only while no request holds    *)
(* them.                                                                   *)
(***************************************************************************)
EXTENDS Integers, FiniteSets

CONSTANTS
    Tokens,     \* rows of RefreshToken
    Reqs,       \* requests in flight
    Tabs,       \* tabs of the browser
    Staff,      \* concurrent operations that end sessions
    Checks,     \* concurrent lookups of the version
    MaxVersion, \* bound: the last version
    MaxStarted  \* bound: requests, operations and lookups begun

ASSUME BoundsAssumption == MaxVersion \in Nat /\ MaxStarted \in Nat

None == -1

ASSUME NamesAssumption == None \notin Tokens \cup Tabs

VARIABLES
    account, \* the row of the user: isActive, isAdmin, tokenVersion
    token,   \* the refresh tokens, each with the login it descends from
    jwts,    \* the access tokens signed so far
    cache,   \* TOKEN_VERSION_CACHE
    fill,    \* versions read by lookups that have not stored them yet
    req,     \* the requests
    staff,   \* the operations
    cookie,  \* the refresh cookie
    started  \* requests, operations and lookups begun

vars == <<account, token, jwts, cache, fill, req, staff, cookie, started>>

-----------------------------------------------------------------------------

\* A request: the tab that waits for it, if it is a refresh; the token it presents,
\* the one it creates, and the claims it has read.
Rest == [op |-> "none", pc |-> "idle", tab |-> None, token |-> None, heir |-> None,
         version |-> None, admin |-> FALSE]

NoRow == [status |-> "none", family |-> None]

\* revokedAt is null.
Unrevoked == {"live", "expired"}

\* "rotated" and "revoked" are two ways in which revokedAt was set.
Dead == {"rotated", "revoked"}

Init ==
    /\ account \in [active : {TRUE}, admin : BOOLEAN, version : {0}]
    /\ token = [t \in Tokens |-> NoRow]
    /\ jwts = {}
    /\ cache = None
    /\ fill = [k \in Checks |-> None]
    /\ req = [r \in Reqs |-> Rest]
    /\ staff = [s \in Staff |-> [pc |-> "idle", revokes |-> FALSE]]
    /\ cookie = None
    /\ started = 0

Begins == started < MaxStarted /\ started' = started + 1

Goes(r, pc) == req' = [req EXCEPT ![r].pc = pc]

\* The request is over.  A refusal changes nothing in the browser.
Ends(r) == req' = [req EXCEPT ![r] = Rest]

\* revokeAllUserTokens
RevokeAll ==
    token' = [t \in Tokens |->
                IF token[t].status \in Unrevoked THEN [token[t] EXCEPT !.status = "revoked"]
                ELSE token[t]]

Increment == /\ account.version < MaxVersion
             /\ account' = [account EXCEPT !.version = @ + 1]

-----------------------------------------------------------------------------
(* Requests of the tabs.  A tab has one refresh in flight at a time.       *)

Refreshing(tab) == \E r \in Reqs : req[r].op = "refresh" /\ req[r].tab = tab

StartRefresh(r, tab) ==
    /\ req[r] = Rest
    /\ ~Refreshing(tab)
    /\ cookie # None
    /\ req' = [req EXCEPT ![r] = [Rest EXCEPT !.op = "refresh", !.pc = "read", !.tab = tab,
                                              !.token = cookie]]
    /\ Begins
    /\ UNCHANGED <<account, token, jwts, cache, fill, staff, cookie>>

\* rotateRefreshToken finds a token that is revoked: all tokens go.
Replayed(r) ==
    /\ req[r].pc = "read"
    /\ token[req[r].token].status \in Dead
    /\ Goes(r, "revoke")
    /\ UNCHANGED <<account, token, jwts, cache, fill, staff, cookie, started>>

\* ... or one that is gone or expired, or one of an inactive account.
Rejected(r) ==
    /\ req[r].pc = "read"
    /\ \/ /\ token[req[r].token].status \in {"gone", "expired"}
          /\ Ends(r)
       \/ /\ token[req[r].token].status = "live" /\ ~account.active
          /\ Goes(r, "revoke")
    /\ UNCHANGED <<account, token, jwts, cache, fill, staff, cookie, started>>

\* ... or a good one: the claims are those of the user as read here.
ReadToken(r) ==
    /\ req[r].pc = "read"
    /\ token[req[r].token].status = "live" /\ account.active
    /\ req' = [req EXCEPT ![r].pc = "rotate", ![r].version = account.version,
                          ![r].admin = account.admin]
    /\ UNCHANGED <<account, token, jwts, cache, fill, staff, cookie, started>>

\* Mutant: the update does not look at revokedAt.
RotatableAnyway(t) == token[t].status # "gone"

\* The conditional update.
Rotatable(t) == token[t].status \in Unrevoked

Rotate(r) ==
    /\ req[r].pc = "rotate"
    /\ Rotatable(req[r].token)
    /\ token' = [token EXCEPT ![req[r].token].status = "rotated"]
    /\ Goes(r, "create")
    /\ UNCHANGED <<account, jwts, cache, fill, staff, cookie, started>>

\* It finds nothing: somebody was faster.
LoseRotation(r) ==
    /\ req[r].pc = "rotate"
    /\ ~Rotatable(req[r].token)
    /\ Goes(r, "revoke")
    /\ UNCHANGED <<account, token, jwts, cache, fill, staff, cookie, started>>

\* revokeAllUserTokens of a refresh (and then 401) or of a logout.
RequestRevokes(r) ==
    /\ req[r].pc = "revoke"
    /\ RevokeAll
    /\ IF req[r].op = "logout" THEN Goes(r, "increment") ELSE Ends(r)
    /\ UNCHANGED <<account, jwts, cache, fill, staff, cookie, started>>

\* login and completeTwoFactorLogin read the user once.
StartLogin(r) ==
    /\ req[r] = Rest
    /\ account.active
    /\ req' = [req EXCEPT ![r] = [Rest EXCEPT !.op = "login", !.pc = "create",
                                              !.version = account.version,
                                              !.admin = account.admin]]
    /\ Begins
    /\ UNCHANGED <<account, token, jwts, cache, fill, staff, cookie>>

\* createRefreshToken and jwtSign, of a login or of a refresh.
CreateToken(r, t) ==
    /\ req[r].pc = "create"
    /\ token[t] = NoRow
    /\ token' = [token EXCEPT ![t] =
            [status |-> "live",
             family |-> IF req[r].op = "login" THEN t ELSE token[req[r].token].family]]
    /\ jwts' = jwts \cup {[version |-> req[r].version, admin |-> req[r].admin]}
    /\ req' = [req EXCEPT ![r].pc = "answer", ![r].heir = t]
    /\ UNCHANGED <<account, cache, fill, staff, cookie, started>>

\* validateTokenVersion lets an access token of this version pass.
Accepted(version) == version = (IF cache # None THEN cache ELSE account.version)

\* POST /auth/logout, with an access token that passes ...
StartLogout(r) ==
    /\ req[r] = Rest
    /\ \E j \in jwts : Accepted(j.version)
    /\ req' = [req EXCEPT ![r] = [Rest EXCEPT !.op = "logout", !.pc = "revoke"]]
    /\ Begins
    /\ UNCHANGED <<account, token, jwts, cache, fill, staff, cookie>>

\* ... or without one: it only clears the cookies.
StartAnonymousLogout(r) ==
    /\ req[r] = Rest
    /\ req' = [req EXCEPT ![r] = [Rest EXCEPT !.op = "logout", !.pc = "answer"]]
    /\ Begins
    /\ UNCHANGED <<account, token, jwts, cache, fill, staff, cookie>>

\* incrementTokenVersion: the row, and then the cache.
LogoutIncrements(r) ==
    /\ req[r].pc = "increment"
    /\ Increment
    /\ Goes(r, "invalidate")
    /\ UNCHANGED <<token, jwts, cache, fill, staff, cookie, started>>

LogoutInvalidates(r) ==
    /\ req[r].pc = "invalidate"
    /\ cache' = None
    /\ Goes(r, "answer")
    /\ UNCHANGED <<account, token, jwts, fill, staff, cookie, started>>

\* A query throws.  A logout clears the cookies all the same.
RequestFails(r) ==
    /\ req[r].pc \in {"read", "rotate", "create", "revoke", "increment"}
    /\ IF req[r].op = "logout" THEN Goes(r, "answer") ELSE Ends(r)
    /\ UNCHANGED <<account, token, jwts, cache, fill, staff, cookie, started>>

\* Mutant: the refresh sets only the access cookie.
CookieOfLogin(r) == CASE req[r].op = "login"   -> req[r].heir
                      [] req[r].op = "refresh" -> cookie
                      [] req[r].op = "logout"  -> None

\* setAuthCookies, clearAuthCookies
CookieAfter(r) == CASE req[r].op \in {"login", "refresh"} -> req[r].heir
                    [] req[r].op = "logout"               -> None

\* The answer reaches the browser.
Deliver(r) ==
    /\ req[r].pc = "answer"
    /\ req[r].op = "refresh" => req[r].tab # None
    /\ cookie' = CookieAfter(r)
    /\ Ends(r)
    /\ UNCHANGED <<account, token, jwts, cache, fill, staff, started>>

\* The answer is lost.
Lose(r) ==
    /\ req[r].pc = "answer"
    /\ Ends(r)
    /\ UNCHANGED <<account, token, jwts, cache, fill, staff, cookie, started>>

\* AUTH_REQUEST_TIMEOUT_MS: the tab may refresh again while the server is still
\* at work on the first one.
GiveUp(r) ==
    /\ req[r].tab # None
    /\ req[r].pc # "answer"
    /\ req' = [req EXCEPT ![r].tab = None]
    /\ UNCHANGED <<account, token, jwts, cache, fill, staff, cookie, started>>

-----------------------------------------------------------------------------
(* Who ends sessions.                                                      *)

\* Mutant: a change of role alone is not a security field.
VersionedUnlessRole(field) == field # "admin"

\* securityFieldChanged
Versioned(field) == TRUE

Proceeds(s, pc, revokes) == staff' = [staff EXCEPT ![s] = [pc |-> pc, revokes |-> revokes]]

\* updateUser and deactivateUser write the row; the version follows, and the
\* revocation.
StaffWrite(s, field, value) ==
    /\ staff[s].pc = "idle"
    /\ account' = [account EXCEPT ![field] = value]
    /\ IF Versioned(field) THEN Proceeds(s, "increment", TRUE) ELSE UNCHANGED staff
    /\ Begins
    /\ UNCHANGED <<token, jwts, cache, fill, req, cookie>>

\* resetPassword: the password and the version in one transaction.
ResetPassword(s) ==
    /\ staff[s].pc = "idle"
    /\ Increment
    /\ Proceeds(s, "invalidate", TRUE)
    /\ Begins
    /\ UNCHANGED <<token, jwts, cache, fill, req, cookie>>

\* Two-factor authentication is switched on or off: only the version.
ToggleTwoFactor(s) ==
    /\ staff[s].pc = "idle"
    /\ Proceeds(s, "increment", FALSE)
    /\ Begins
    /\ UNCHANGED <<account, token, jwts, cache, fill, req, cookie>>

StaffIncrements(s) ==
    /\ staff[s].pc = "increment"
    /\ Increment
    /\ Proceeds(s, "invalidate", staff[s].revokes)
    /\ UNCHANGED <<token, jwts, cache, fill, req, cookie, started>>

\* Mutant: resetPassword forgets the cache.
KeepsCache(s) == cache

Invalidated(s) == None

StaffInvalidates(s) ==
    /\ staff[s].pc = "invalidate"
    /\ cache' = Invalidated(s)
    /\ Proceeds(s, IF staff[s].revokes THEN "revoke" ELSE "idle", staff[s].revokes)
    /\ UNCHANGED <<account, token, jwts, fill, req, cookie, started>>

StaffRevokes(s) ==
    /\ staff[s].pc = "revoke"
    /\ RevokeAll
    /\ Proceeds(s, "idle", FALSE)
    /\ UNCHANGED <<account, jwts, cache, fill, req, cookie, started>>

StaffFails(s) ==
    /\ staff[s].pc \in {"increment", "revoke"}
    /\ Proceeds(s, "idle", FALSE)
    /\ UNCHANGED <<account, token, jwts, cache, fill, req, cookie, started>>

\* activateUser, and the synchronisation with LDAP: only the flag.
SetActive(active) ==
    /\ account' = [account EXCEPT !.active = active]
    /\ Begins
    /\ UNCHANGED <<token, jwts, cache, fill, req, staff, cookie>>

-----------------------------------------------------------------------------
(* The cache of the version, time, and restarts.                           *)

\* validateTokenVersion: a miss reads the row ...
LookUp(k) ==
    /\ cache = None
    /\ fill[k] = None
    /\ fill' = [fill EXCEPT ![k] = account.version]
    /\ Begins
    /\ UNCHANGED <<account, token, jwts, cache, req, staff, cookie>>

\* ... and stores what it has read.
Store(k) ==
    /\ fill[k] # None
    /\ cache' = fill[k]
    /\ fill' = [fill EXCEPT ![k] = None]
    /\ UNCHANGED <<account, token, jwts, req, staff, cookie, started>>

\* CACHE_TTL_MS
Lapse ==
    /\ cache # None
    /\ cache' = None
    /\ UNCHANGED <<account, token, jwts, fill, req, staff, cookie, started>>

\* REFRESH_TOKEN_EXPIRY_MS
Expire(t) ==
    /\ token[t].status = "live"
    /\ token' = [token EXCEPT ![t].status = "expired"]
    /\ UNCHANGED <<account, jwts, cache, fill, req, staff, cookie, started>>

\* cleanupExpiredTokens, a day later.
Prune(t) ==
    /\ token[t].status \in Dead \cup {"expired"}
    /\ \A r \in Reqs : t \notin {req[r].token, req[r].heir}
    /\ token' = [token EXCEPT ![t].status = "gone"]
    /\ UNCHANGED <<account, jwts, cache, fill, req, staff, cookie, started>>

\* The server dies: whoever waits for it gets no answer.
Restart ==
    /\ req' = [r \in Reqs |-> Rest]
    /\ staff' = [s \in Staff |-> [pc |-> "idle", revokes |-> FALSE]]
    /\ cache' = None
    /\ fill' = [k \in Checks |-> None]
    /\ UNCHANGED <<account, token, jwts, cookie, started>>

-----------------------------------------------------------------------------

RequestStep(r) ==
    \/ \E tab \in Tabs : StartRefresh(r, tab)
    \/ StartLogin(r) \/ StartLogout(r) \/ StartAnonymousLogout(r)
    \/ Replayed(r) \/ Rejected(r) \/ ReadToken(r) \/ Rotate(r) \/ LoseRotation(r)
    \/ RequestRevokes(r) \/ \E t \in Tokens : CreateToken(r, t)
    \/ LogoutIncrements(r) \/ LogoutInvalidates(r)
    \/ RequestFails(r) \/ Deliver(r) \/ Lose(r) \/ GiveUp(r)

StaffStep(s) ==
    \/ \E field \in {"active", "admin"}, value \in BOOLEAN : StaffWrite(s, field, value)
    \/ ResetPassword(s) \/ ToggleTwoFactor(s)
    \/ StaffIncrements(s) \/ StaffInvalidates(s) \/ StaffRevokes(s) \/ StaffFails(s)

Next ==
    \/ \E r \in Reqs : RequestStep(r)
    \/ \E s \in Staff : StaffStep(s)
    \/ \E active \in BOOLEAN : SetActive(active)
    \/ \E k \in Checks : LookUp(k) \/ Store(k)
    \/ Lapse
    \/ \E t \in Tokens : Expire(t) \/ Prune(t)
    \/ Restart

Spec == Init /\ [][Next]_vars
=============================================================================
