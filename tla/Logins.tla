------------------------------- MODULE Logins -------------------------------
(***************************************************************************)
(* What refresh tokens promise, in terms of logins and without requests,   *)
(* tabs, cookies, expiry dates or crashes: a login has one current token   *)
(* at a time; only that token can be spent, once; its heir belongs to the  *)
(* same login; and a login that has neither a current token nor an heir    *)
(* under way is over for good.  Sessions implements it however refreshes,  *)
(* logouts and operations overlap.                                         *)
(***************************************************************************)

CONSTANTS
    Tokens,
    None

VARIABLES
    login,      \* the login each token descends from, named by its first token
    current,    \* the tokens that may still be spent
    renewing    \* logins whose token was spent and whose heir is under way

vars == <<login, current, renewing>>

Init ==
    /\ login = [t \in Tokens |-> None]
    /\ current = {}
    /\ renewing = {}

Open(t) ==
    /\ login[t] = None
    /\ login' = [login EXCEPT ![t] = t]
    /\ current' = current \cup {t}
    /\ UNCHANGED renewing

\* Nobody spends a token of a login that is being renewed.
Spend(t) ==
    /\ t \in current
    /\ login[t] \notin renewing
    /\ current' = current \ {t}
    /\ renewing' = renewing \cup {login[t]}
    /\ UNCHANGED login

\* The heir is the only current token of its login.
Renew(l, t) ==
    /\ l \in renewing
    /\ login[t] = None
    /\ \A u \in current : login[u] # l
    /\ login' = [login EXCEPT ![t] = l]
    /\ current' = current \cup {t}
    /\ renewing' = renewing \ {l}

\* The heirs of some logins never come: a query failed, or the server died.
Abandon(unmet) ==
    /\ renewing' = renewing \ unmet
    /\ UNCHANGED <<login, current>>

\* An expired token is deleted.
Forget(t) ==
    /\ current' = current \ {t}
    /\ UNCHANGED <<login, renewing>>

\* Every current token is revoked; an heir under way is not.
RevokeAll ==
    /\ current' = {}
    /\ UNCHANGED <<login, renewing>>

Next ==
    \/ \E t \in Tokens : Open(t) \/ Spend(t) \/ Forget(t) \/ \E l \in Tokens : Renew(l, t)
    \/ \E unmet \in SUBSET Tokens : Abandon(unmet)
    \/ RevokeAll

Spec == Init /\ [][Next]_vars

=============================================================================
