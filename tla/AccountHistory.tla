--------------------------- MODULE AccountHistory ---------------------------
(***************************************************************************)
(* Accounts with history variables: what a property has to remember of an  *)
(* account's past.  They follow the steps of Accounts and never restrict   *)
(* them.                                                                   *)
(***************************************************************************)
EXTENDS Accounts

VARIABLES
    inactiveSince, \* the day since which the account has been inactive, None if it is not
    stale,         \* its deactivatedAt is a date from before it was last active
    doubtful,      \* listed accounts that were stale, or reactivated since the listing
    overtaken,     \* guarded requests during which another party changed who administers
    byInvite,      \* accounts created with the invite token
    moved,         \* accounts that joined or left the directory since the search
    unlogged,      \* the creation of a log row has failed since the process started
    unclosed       \* a log row was left open by a failure

history == <<inactiveSince, stale, doubtful, overtaken, byInvite, moved, unlogged, unclosed>>

-----------------------------------------------------------------------------

HistoryInit ==
    /\ inactiveSince = [u \in Users |-> user[u].since]
    /\ stale = [u \in Users |-> FALSE]
    /\ doubtful = {}
    /\ overtaken = {}
    /\ byInvite = {}
    /\ moved = {}
    /\ unlogged = FALSE
    /\ unclosed = FALSE

Inactive(row) == row.exists /\ ~row.active

\* The two ways in which an account becomes active and keeps its date: the
\* synchronisation, and an update that had read the account as active.
KeepsDate(u) == \/ SyncMember(u)
                \/ \E c \in Calls : /\ call[c].target = u /\ call[c].op = "enable" /\ call[c].saw
                                   /\ WriteRow(c)

\* The date was there while the account was active, and is still the same.
Stale(u) == /\ user'[u].exists /\ user'[u].since # None
            /\ \/ user'[u].active /\ (stale[u] \/ KeepsDate(u))
               \/ stale[u] /\ user'[u].since = user[u].since

Record ==
    /\ inactiveSince' = [u \in Users |-> IF ~Inactive(user'[u]) THEN None
                                         ELSE IF inactiveSince[u] = None THEN now
                                         ELSE inactiveSince[u]]
    /\ stale' = [u \in Users |-> Stale(u)]
    /\ doubtful' = {u \in listed' : u \in doubtful \/ stale'[u] \/ ~Inactive(user'[u])}
    /\ overtaken' = {c \in Calls : /\ call'[c].op \in {"demote", "disable"} \cup Removals
                                   /\ c \in overtaken \/ (Admins' # Admins /\ call'[c] = call[c])}
    /\ byInvite' = byInvite \cup {u \in Users : /\ ~user[u].exists /\ user'[u].exists
                                                /\ \E c \in Calls : InviteClaim(c)}
    /\ moved' = IF syncPc' \notin {"local", "users"} THEN {}
                ELSE moved \cup {u \in Users : (u \in directory) # (u \in directory')}
    /\ unlogged' = (syncInProgress' /\ (unlogged \/ SyncLogFails))
    /\ unclosed' = (runningLogs' # 0 /\ (unclosed \/ SyncEnd(FALSE) \/ Restart(FALSE)))

HistorySpec == Init /\ HistoryInit /\ [][Next /\ Record]_<<vars, history>>

-----------------------------------------------------------------------------
(* The inductive invariant behind the properties below, in named parts.    *)

Days0 == 0 .. MaxTime

Row == [exists : BOOLEAN, admin : BOOLEAN, active : BOOLEAN, since : Days0 \cup {None},
        ldap : BOOLEAN]

Operations == Updates \cup Removals \cup {"none", "register", "invite"}
CallPcs == {"idle", "guard", "count", "write", "gone", "create", "claim"}

Request == [pc : CallPcs, op : Operations, target : Users \cup {None}, self : BOOLEAN,
            saw : BOOLEAN]

SyncPcs == {"idle", "log", "fetch", "local", "users", "end"}

TypeOK ==
    /\ now \in Days0
    /\ user \in [Users -> Row]
    /\ invite \in {"open", "used"}
    /\ directory \subseteq Users
    /\ call \in [Calls -> Request]
    /\ syncInProgress \in BOOLEAN
    /\ syncPc \in SyncPcs
    /\ seen \subseteq Users
    /\ local \in [Users -> {"none", "active", "inactive", "gone"}]
    /\ left \subseteq Users
    /\ runningLogs \in Nat
    /\ listed \subseteq Users
    /\ started \in 0 .. MaxStarted

HistoryTypeOK ==
    /\ inactiveSince \in [Users -> Days0 \cup {None}]
    /\ stale \in [Users -> BOOLEAN]
    /\ doubtful \subseteq listed
    /\ overtaken \subseteq Calls
    /\ byInvite \subseteq Users
    /\ moved \subseteq Users
    /\ unlogged \in BOOLEAN
    /\ unclosed \in BOOLEAN

\* What a request in flight is about.
CallInv ==
    \A c \in Calls :
        /\ call[c].pc = "idle" => call[c] = Idle
        /\ call[c].pc # "idle" => call[c].target \in Users
        /\ call[c].pc \in {"guard", "count", "write"} => call[c].op \in Updates \cup Removals
        /\ call[c].pc \in {"guard", "count"} => call[c].op \in {"demote", "disable"} \cup Removals
        /\ call[c].pc \in {"guard", "count", "write"} => user[call[c].target].exists

\* A request past its guard leaves an administrator behind, unless somebody
\* else has changed who administers since it began.
GuardInv ==
    \A c \in Calls \ overtaken :
        /\ call[c].pc = "write"
        /\ call[c].op \in {"demote", "disable"} \cup Removals
        /\ call[c].target \in Admins
        => Others(c) # {}

\* The dates say since when an account has been inactive, at the latest.
DateInv ==
    \A u \in Users :
        /\ user[u].since <= now /\ inactiveSince[u] <= now
        /\ inactiveSince[u] # None <=> Inactive(user[u])
        /\ ~user[u].exists => user[u] = Absent
        /\ stale[u] => user[u].exists /\ user[u].since # None
        /\ user[u].active /\ user[u].since # None => stale[u]
        /\ Inactive(user[u]) /\ user[u].since # None /\ ~stale[u] =>
                inactiveSince[u] <= user[u].since

\* The selected accounts are still due.
ListInv ==
    \A u \in listed \ doubtful :
        inactiveSince[u] # None /\ inactiveSince[u] < now - Days

\* The accounts of the table that the run knows of.
SyncInv ==
    /\ \A u \in Users : local[u] \in {"active", "inactive"} => user[u].exists /\ user[u].ldap
    /\ syncPc # "users" =>
            left = {} /\ local = [u \in Users |-> "none"]
    /\ syncPc \in {"local", "users"} =>
            \A u \in Users \ moved : u \in seen <=> u \in directory

\* An invite makes one account, however many requests passed its first checks,
\* and a claim that created nothing leaves the token usable.
OneAccountPerInvite ==
    /\ invite = "used" <=> byInvite # {}
    /\ \A u, v \in byInvite : u = v

\* Only a failure keeps the synchronisation locked or a log row "running": the
\* mutex is held by a run, or is stuck because a log row could not be created;
\* rows are running because a run is, or because they were left open.
MutexReleased ==
    /\ syncInProgress <=> syncPc # "idle" \/ unlogged
    /\ unlogged => syncPc = "idle"
    /\ IF unclosed THEN runningLogs > (IF syncPc \in {"idle", "log"} THEN 0 ELSE 1)
                   ELSE runningLogs = (IF syncPc \in {"idle", "log"} THEN 0 ELSE 1)

AccountsInv ==
    /\ TypeOK
    /\ HistoryTypeOK
    /\ CallInv
    /\ GuardInv
    /\ DateInv
    /\ ListInv
    /\ SyncInv
    /\ OneAccountPerInvite
    /\ MutexReleased

-----------------------------------------------------------------------------
(* Properties                                                              *)

\* The guard of user/service.ts reads, counts and then writes.  It fails only
\* when another party changes who administers during the request; the batch of
\* the synchronisation has no guard at all.
LastAdminStays ==
    [][Admins # {} /\ Admins' = {} =>
        \/ SyncBatch
        \/ \E c \in overtaken : call'[c] # call[c]]_<<vars, history>>

\* What a deactivated account owns is destroyed only after the account has been
\* inactive for the whole period, unless the synchronisation or a stale update
\* left the date of an earlier deactivation on it, or it was reactivated after
\* the cleanup had selected it.
PurgedAfterGrace ==
    [][\A u \in Users :
        PurgeAccount(u) /\ u \notin doubtful =>
            inactiveSince[u] # None /\ now - inactiveSince[u] > Days]_<<vars, history>>

\* What the comment of cleanupDeactivatedAccounts says, without the exceptions.
StaysDeactivated ==
    [][\A u \in Users :
        PurgeAccount(u) =>
            inactiveSince[u] # None /\ now - inactiveSince[u] > Days]_<<vars, history>>

\* The synchronisation deactivates members that have left the directory, and
\* nobody else: not those whose own update failed, and not those it created.
LeaversOnly ==
    [][\A u \in Users :
        SyncBatch /\ user[u].active /\ ~user'[u].active =>
            user[u].ldap /\ (u \notin directory \/ u \in moved)]_<<vars, history>>

=============================================================================
