--------------------------- MODULE SessionHistory ---------------------------
(***************************************************************************)
(* Sessions with history variables: what a property has to remember of the *)
(* past.  They follow the steps of Sessions and never restrict them.       *)
(***************************************************************************)
EXTENDS Sessions

VARIABLES
    raced,       \* tokens that were presented twice at the same time
    lost,        \* rotated tokens whose heir never reached the browser
    bygone,      \* requests in flight that began before a revocation
    straggling,  \* those of them that were past their last check
    unversioned, \* no version followed a write that may have taken a right
    late         \* the cache was filled with a version that had been replaced

history == <<raced, lost, bygone, straggling, unversioned, late>>

HistoryInit ==
    /\ raced = {}
    /\ lost = {}
    /\ bygone = {}
    /\ straggling = {}
    /\ unversioned = FALSE
    /\ late = FALSE

-----------------------------------------------------------------------------

InFlight == {r \in Reqs : req[r] # Rest}

Presents(r, t) == req[r].op = "refresh" /\ req[r].token = t

\* It has rotated the token it presents, and the browser does not know yet.
Holding(r) == req[r].op = "refresh" /\ req[r].pc \in {"create", "answer"}

Revokes == \/ \E r \in Reqs : RequestRevokes(r)
           \/ \E s \in Staff : StaffRevokes(s)

\* A new version is on its way.
Pending == \E s \in Staff : staff[s].pc = "increment"

Invalidating == \/ \E s \in Staff : staff[s].pc = "invalidate"
                \/ \E r \in Reqs : req[r].pc = "invalidate"

Record ==
    /\ raced' = raced \cup {t \in Tokens :
            \E q, r \in Reqs : q # r /\ Presents(q, t)' /\ Presents(r, t)'}
    /\ lost' = lost \cup {t \in Tokens :
            \E r \in Reqs : Presents(r, t) /\ Holding(r) /\ ~Holding(r)' /\ ~Deliver(r)}
    /\ bygone' = {r \in IF Revokes THEN InFlight ELSE bygone : req'[r] # Rest}
    /\ straggling' = {r \in IF Revokes THEN straggling \cup {q \in Reqs : req[q].pc = "create"}
                           ELSE straggling : req'[r] # Rest}
    /\ unversioned' = (/\ account'.version = account.version
                       /\ unversioned \/ SetActive(FALSE) \/ (Pending /\ ~Pending'))
    /\ late' = (/\ cache' # None
                /\ IF \E k \in Checks : Store(k) THEN cache' # account.version ELSE late)

HistorySpec == Init /\ HistoryInit /\ [][Next /\ Record]_<<vars, history>>

-----------------------------------------------------------------------------
(* The inductive invariant behind the properties below, in named parts.    *)

Versions == 0 .. MaxVersion

Claims == [version : Versions, admin : BOOLEAN]

Row == [status : {"none", "live", "gone"} \cup Dead \cup Unrevoked, family : Tokens \cup {None}]

Pcs == {"idle", "read", "rotate", "create", "revoke", "increment", "invalidate", "answer"}

Request == [op : {"none", "login", "refresh", "logout"}, pc : Pcs, tab : Tabs \cup {None},
            token : Tokens \cup {None}, heir : Tokens \cup {None},
            version : Versions \cup {None}, admin : BOOLEAN]

TypeOK ==
    /\ account \in [active : BOOLEAN, admin : BOOLEAN, version : Versions]
    /\ token \in [Tokens -> Row]
    /\ jwts \subseteq Claims
    /\ cache \in Versions \cup {None}
    /\ fill \in [Checks -> Versions \cup {None}]
    /\ req \in [Reqs -> Request]
    /\ staff \in [Staff -> [pc : {"idle", "increment", "invalidate", "revoke"},
                            revokes : BOOLEAN]]
    /\ cookie \in Tokens \cup {None}
    /\ started \in 0 .. MaxStarted
    /\ raced \subseteq Tokens /\ lost \subseteq Tokens
    /\ bygone \subseteq Reqs /\ straggling \subseteq Reqs
    /\ unversioned \in BOOLEAN /\ late \in BOOLEAN

\* What a request in flight is about.
RequestInv ==
    \A r \in Reqs :
        /\ req[r].pc = "idle" => req[r] = Rest
        /\ req[r].pc \in {"read", "rotate"} => req[r].op = "refresh"
        /\ req[r].pc = "create" => req[r].op \in {"login", "refresh"}
        /\ req[r].pc \in {"increment", "invalidate"} => req[r].op = "logout"
        /\ IF req[r].op = "refresh" THEN req[r].token \in Tokens ELSE req[r].token = None
        /\ req[r].op = "none" => req[r] = Rest
        /\ req[r].pc \in {"rotate", "create"} => req[r].version \in Versions

\* Tokens that exist, and where a new one is: nobody has seen it before the
\* answer that carries it.
TokenInv ==
    /\ \A t \in Tokens :
        /\ token[t].status = "none" <=> token[t].family = None
        /\ token[t].family # None => token[token[t].family].status # "none"
    /\ cookie # None => token[cookie].status # "none"
    /\ \A r \in Reqs :
        /\ req[r].op = "refresh" => token[req[r].token].status # "none"
        /\ Holding(r) => token[req[r].token].status = "rotated"
        /\ req[r].heir # None =>
                /\ token[req[r].heir].status \notin {"none", "rotated"}
                /\ cookie # req[r].heir
                /\ \A q \in Reqs : req[q].token # req[r].heir
                /\ \A q \in Reqs \ {r} : req[q].heir # req[r].heir
        /\ req[r].heir # None => req[r].pc = "answer"
        /\ req[r].pc = "answer" /\ req[r].op # "logout" => req[r].heir # None

\* "Since refresh tokens are rotated on every use, the chain is implicitly
\* linear": of the tokens that descend from one login at most one is unrevoked,
\* and none is while an heir is about to be created, however refreshes overlap.
LinearChain ==
    /\ \A t, u \in Tokens :
        /\ token[t].status \in Unrevoked /\ token[u].status \in Unrevoked
        /\ token[t].family = token[u].family
        => t = u
    /\ \A q, r \in Reqs :
        /\ req[q].op = "refresh" /\ req[q].pc = "create"
        /\ req[r].op = "refresh" /\ req[r].pc = "create"
        /\ token[req[q].token].family = token[req[r].token].family
        => q = r
    /\ \A r \in Reqs, t \in Tokens :
        /\ req[r].op = "refresh" /\ req[r].pc = "create"
        /\ token[req[r].token].family = token[t].family
        => token[t].status \notin Unrevoked

\* The browser holds a rotated token only while the answer to the rotation is
\* on its way, or because it was lost.
CookieInv ==
    cookie # None /\ token[cookie].status = "rotated" =>
        cookie \in lost \/ \E r \in Reqs : Presents(r, cookie) /\ Holding(r)

\* Two requests with one token make a race of it; who holds a rotated token
\* was overtaken, or given it although its heir was lost.
AlarmInv ==
    /\ \A q, r \in Reqs, t \in Tokens : q # r /\ Presents(q, t) /\ Presents(r, t) => t \in raced
    /\ \A r \in Reqs :
        /\ req[r].pc \in {"read", "rotate"}
        /\ token[req[r].token].status = "rotated"
        => req[r].token \in raced \cup lost

\* A refresh that began before a revocation holds a revoked token.
RevocationInv ==
    \A r \in bygone :
        /\ req[r] # Rest
        /\ req[r].pc \in {"read", "rotate"} => token[req[r].token].status \in Dead \cup {"gone"}
        /\ req[r].pc = "create" => r \in straggling

\* "Every privilege change increments tokenVersion and validateTokenVersion
\* rejects stale tokens": an access token of the current version makes no claim
\* that the row does not grant, unless the version is about to be raised, the
\* raise has failed, or the synchronisation with LDAP took the right.
ClaimsAreTrue ==
    \A j \in jwts :
        j.version = account.version =>
            \/ account.active /\ (j.admin => account.admin)
            \/ unversioned \/ Pending

\* What has been read of the row is no less true.
ReadInv ==
    /\ \A j \in jwts : j.version <= account.version
    /\ \A k \in Checks : fill[k] <= account.version
    /\ cache <= account.version
    /\ \A r \in Reqs :
        /\ req[r].version <= account.version
        /\ req[r].pc \in {"rotate", "create"} /\ req[r].version = account.version =>
            \/ account.active /\ (req[r].admin => account.admin)
            \/ unversioned \/ Pending

\* "So that the next jwtVerify sees the updated value immediately": the cache
\* is behind the row only between a new version and its invalidation, or when
\* a lookup stored what it had read before it.
CacheInv ==
    cache # None /\ cache # account.version => late \/ Invalidating

SessionInv ==
    /\ TypeOK
    /\ RequestInv
    /\ TokenInv
    /\ LinearChain
    /\ CookieInv
    /\ AlarmInv
    /\ RevocationInv
    /\ ReadInv
    /\ ClaimsAreTrue
    /\ CacheInv

-----------------------------------------------------------------------------
(* Properties                                                              *)

\* It is about to create the heir of the token it has rotated.
Creating(r) == req[r].op = "refresh" /\ req[r].pc = "create"

Login == INSTANCE Logins WITH
            login    <- [t \in Tokens |-> token[t].family],
            current  <- {t \in Tokens : token[t].status \in Unrevoked},
            renewing <- {token[req[r].token].family : r \in {q \in Reqs : Creating(q)}}

\* "Every refresh rotates the token": seen from outside, each step of a request,
\* of whoever ends sessions, of time or of a crash opens a login, spends or
\* replaces its one current token, or ends logins, as Logins allows.
SessionsAreLogins == Login!Spec

\* No token that could still be used, and none under way.
Over(l) ==
    /\ \E t \in Tokens : token[t].family = l
    /\ \A t \in Tokens : token[t].family = l => token[t].status \notin Unrevoked
    /\ \A r \in Reqs : Creating(r) => token[req[r].token].family # l

\* A login that is over, by a logout, a revocation, a crash or its expiry, never
\* gets a usable token again, whatever is still in flight.
OverIsForGood ==
    [][\A l \in Tokens : Over(l) => Over(l)']_<<vars, history>>

\* A token that was rotated sounds the alarm, which ends every session, only if
\* it was presented twice at the same time (by two tabs, or again after a
\* timeout) or if the answer with its heir was lost: a tab that gets its answers
\* never does.
NoFalseAlarm ==
    [][\A r \in Reqs :
        /\ Replayed(r) \/ LoseRotation(r)
        /\ token[req[r].token].status = "rotated"
        => req[r].token \in raced \cup lost]_<<vars, history>>

\* A request that began before a revocation of all tokens creates one after it
\* only if it was past its last check: the rotation cannot outlive a logout that
\* came before its update of the old token.
NothingOutlivesRevocation ==
    [][\A r \in bygone, t \in Tokens : CreateToken(r, t) => r \in straggling]_<<vars, history>>

=============================================================================
