------------------------------ MODULE Accounts ------------------------------
(***************************************************************************)
(* The table of user accounts and everybody who writes it: requests of     *)
(* administrators (user/service.ts), self-registration with an invite      *)
(* (invite/service.ts), the synchronisation with an LDAP directory         *)
(* (ldap/sync.service.ts) and the cleanup of deactivated accounts          *)
(* (cleanup/service.ts).  A request reads, awaits, and writes; the last-   *)
(* administrator guard is two reads before the write it protects.          *)
(*                                                                         *)
(* Time counts days.  What an account owns is not modelled here: a purge   *)
(* is the step that destroys it.  Sessions are the subject of Sessions.    *)
(* AccountHistory adds what the properties remember of the past.           *)
(***************************************************************************)
EXTENDS Integers, FiniteSets

CONSTANTS
    Users,      \* accounts by their unique name
    Calls,      \* concurrent requests
    Days,       \* accountDeactivationCleanupDays
    MaxTime,    \* bound: the last day
    MaxStarted  \* bound: requests, synchronisations and cleanup runs begun

ASSUME DaysAssumption == Days \in Nat /\ MaxTime \in Nat /\ MaxStarted \in Nat

None == -1

VARIABLES
    now,
    user,           \* the rows
    invite,         \* the one invite token: "open" or "used"
    directory,      \* members of the LDAP group, as the directory has them
    call,           \* the requests in flight
    syncInProgress, \* the module-level mutex of the synchronisation
    syncPc,         \* where the synchronisation is suspended
    seen,           \* the members it found in the directory
    local,          \* the LDAP-managed accounts it found in the table
    left,           \* members it has still to process
    runningLogs,    \* sync-log rows with the status "running"
    listed,         \* accounts the cleanup has selected and not yet purged
    started         \* operations begun so far

sync == <<syncInProgress, syncPc, seen, local, left, runningLogs>>
vars == <<now, user, invite, directory, call, sync, listed, started>>

-----------------------------------------------------------------------------

Absent == [exists |-> FALSE, admin |-> FALSE, active |-> FALSE, since |-> None, ldap |-> FALSE]

\* A new row: active, never deactivated.
NewUser(admin, ldap) ==
    [exists |-> TRUE, admin |-> admin, active |-> TRUE, since |-> None, ldap |-> ldap]

\* A managed account that was deactivated on day 0.
Dormant == [exists |-> TRUE, admin |-> FALSE, active |-> FALSE, since |-> 0, ldap |-> TRUE]

\* A request that is not in flight; "saw" is what it read and uses later.
Idle == [pc |-> "idle", op |-> "none", target |-> None, self |-> FALSE, saw |-> FALSE]

Admins == {u \in Users : user[u].exists /\ user[u].admin /\ user[u].active}

NobodyYet == \A u \in Users : ~user[u].exists

Updates == {"promote", "demote", "enable", "disable"}
Removals == {"deactivate", "delete"}

\* The table is empty, or somebody administers it; an account may have been
\* deactivated on day 0 and may be managed by the directory.
Init ==
    /\ now = 0
    /\ user \in [Users -> {Absent, NewUser(TRUE, FALSE), NewUser(FALSE, TRUE), Dormant}]
    /\ NobodyYet \/ Admins # {}
    /\ invite = "open"
    /\ directory = {u \in Users : user[u].ldap}
    /\ call = [c \in Calls |-> Idle]
    /\ syncInProgress = FALSE
    /\ syncPc = "idle"
    /\ seen = {}
    /\ local = [u \in Users |-> "none"]
    /\ left = {}
    /\ runningLogs = 0
    /\ listed = {}
    /\ started = 0

Begins == started < MaxStarted /\ started' = started + 1

-----------------------------------------------------------------------------
(* Requests.  Each is authenticated before it begins.                      *)

\* The administrator behind a request, who may be its target.
Acting(t, self) == IF self THEN t \in Admins ELSE Admins \ {t} # {}

Suspends(c, pc, op, t, self, saw) ==
    call' = [call EXCEPT ![c] = [pc |-> pc, op |-> op, target |-> t, self |-> self, saw |-> saw]]

\* The request goes on, or is over.
Continues(c, pc) ==
    call' = [call EXCEPT ![c] = IF pc = "idle" THEN Idle ELSE [@ EXCEPT !.pc = pc]]

\* Mutant: only deactivations are guarded.
GuardedDisable(op, row) == op = "disable" /\ row.active

\* updateUser: the demotion of an administrator, or a deactivation.
Guarded(op, row) == \/ op = "demote" /\ row.admin
                    \/ op = "disable" /\ row.active

\* updateUser reads the row first.
UpdateRead(c, op, t, self) ==
    /\ call[c] = Idle
    /\ Acting(t, self)
    /\ user[t].exists
    /\ IF Guarded(op, user[t]) THEN Suspends(c, "guard", op, t, self, user[t].active)
       ELSE Suspends(c, "write", op, t, FALSE, user[t].active)
    /\ Begins
    /\ UNCHANGED <<now, user, invite, directory, sync, listed>>

\* deactivateUser and deleteUser begin with the guard.
RemovalBegins(c, op, t, self) ==
    /\ call[c] = Idle
    /\ Acting(t, self)
    /\ user[t].exists
    /\ Suspends(c, "guard", op, t, self, TRUE)
    /\ Begins
    /\ UNCHANGED <<now, user, invite, directory, sync, listed>>

\* assertAdminRemovalAllowed reads the target: one who is not an active
\* administrator is let through, oneself is refused unless it is a demotion.
GuardTarget(c) ==
    LET row == user[call[c].target] IN
    /\ call[c].pc = "guard"
    /\ Continues(c, IF ~(row.admin /\ row.active) THEN "write"
                    ELSE IF call[c].self /\ call[c].op # "demote" THEN "idle" ELSE "count")
    /\ UNCHANGED <<now, user, invite, directory, sync, listed, started>>

\* The other active administrators.
Others(c) == Admins \ {call[c].target}

\* ... and counts them.
GuardCount(c) ==
    /\ call[c].pc = "count"
    /\ Continues(c, IF Others(c) = {} THEN "idle" ELSE "write")
    /\ UNCHANGED <<now, user, invite, directory, sync, listed, started>>

\* Mutant: the date is left to activateUser and deactivateUser.
WrittenWithoutDate(row, op, saw) ==
    CASE op = "promote"    -> [row EXCEPT !.admin = TRUE]
      [] op = "demote"     -> [row EXCEPT !.admin = FALSE]
      [] op = "enable"     -> [row EXCEPT !.active = TRUE]
      [] op = "disable"    -> [row EXCEPT !.active = FALSE]
      [] op = "deactivate" -> [row EXCEPT !.active = FALSE, !.since = now]

\* The row after the write.  updateUser touches deactivatedAt only if the flag
\* differs from the one it had read.
Written(row, op, saw) ==
    CASE op = "promote"    -> [row EXCEPT !.admin = TRUE]
      [] op = "demote"     -> [row EXCEPT !.admin = FALSE]
      [] op = "enable"     -> [row EXCEPT !.active = TRUE, !.since = IF saw THEN @ ELSE None]
      [] op = "disable"    -> [row EXCEPT !.active = FALSE, !.since = IF saw THEN now ELSE @]
      [] op = "deactivate" -> [row EXCEPT !.active = FALSE, !.since = now]

\* By id.
WriteRow(c) ==
    LET t == call[c].target IN
    /\ call[c].pc = "write" /\ call[c].op # "delete"
    /\ user' = [user EXCEPT ![t] = Written(@, call[c].op, call[c].saw)]
    /\ Continues(c, "idle")
    /\ UNCHANGED <<now, invite, directory, sync, listed, started>>

\* Row ids do not return, even if the name does: who still holds the id of
\* account t, other than request c, works on nothing from now on.
HoldersLose(c, t) ==
    /\ call' = [d \in Calls |->
            IF d = c THEN Idle
            ELSE IF call[d].target = t /\ call[d].pc \in {"guard", "count", "write"}
                 THEN [call[d] EXCEPT !.pc = "gone"] ELSE call[d]]
    /\ local' = [local EXCEPT ![t] = IF @ = "none" THEN @ ELSE "gone"]
    /\ listed' = listed \ {t}

\* deleteUser destroys what the account owns (not modelled here) and then
\* removes the row.
DeleteRow(c) ==
    /\ call[c].pc = "write" /\ call[c].op = "delete"
    /\ user' = [user EXCEPT ![call[c].target] = Absent]
    /\ HoldersLose(c, call[c].target)
    /\ UNCHANGED <<now, invite, directory, syncInProgress, syncPc, seen, left, runningLogs, started>>

\* activateUser is a single update.
Activate(t) ==
    /\ Admins # {}
    /\ user[t].exists
    /\ user' = [user EXCEPT ![t].active = TRUE, ![t].since = None]
    /\ Begins
    /\ UNCHANGED <<now, invite, directory, call, sync, listed>>

\* register: in the setup window, or by an administrator.  The count decides
\* whether this is the first user; hashing the password follows.
RegisterCount(c, t) ==
    /\ call[c] = Idle
    /\ NobodyYet \/ Admins # {}
    /\ ~user[t].exists
    /\ Suspends(c, "create", "register", t, FALSE, NobodyYet)
    /\ Begins
    /\ UNCHANGED <<now, user, invite, directory, sync, listed>>

RegisterCreate(c) ==
    /\ call[c].pc = "create"
    /\ ~user[call[c].target].exists
    /\ user' = [user EXCEPT ![call[c].target] = NewUser(call[c].saw, FALSE)]
    /\ Continues(c, "idle")
    /\ UNCHANGED <<now, invite, directory, sync, listed, started>>

\* registerWithInvite: the checks before the hash ...
InviteRead(c, t) ==
    /\ call[c] = Idle
    /\ invite = "open"
    /\ ~user[t].exists
    /\ Suspends(c, "claim", "invite", t, FALSE, FALSE)
    /\ Begins
    /\ UNCHANGED <<now, user, invite, directory, sync, listed>>

Claimable == invite = "open"

\* ... and the transaction that claims the token and creates the account; a
\* name that is taken rolls the claim back.
InviteClaim(c) ==
    /\ call[c].pc = "claim"
    /\ Claimable
    /\ ~user[call[c].target].exists
    /\ invite' = "used"
    /\ user' = [user EXCEPT ![call[c].target] = NewUser(FALSE, FALSE)]
    /\ Continues(c, "idle")
    /\ UNCHANGED <<now, directory, sync, listed, started>>

\* A query that throws, a row that is gone, a name that is taken, a token that is
\* taken or has expired.
CallFails(c) ==
    /\ call[c] # Idle
    /\ Continues(c, "idle")
    /\ UNCHANGED <<now, user, invite, directory, sync, listed, started>>

-----------------------------------------------------------------------------
(* The synchronisation.                                                    *)

\* What it finds of an account: only the managed ones.
Found(row) == CASE ~row.exists \/ ~row.ldap -> "none"
                [] row.exists /\ row.ldap   -> IF row.active THEN "active" ELSE "inactive"

Forgets == /\ seen' = {}
           /\ local' = [u \in Users |-> "none"]
           /\ left' = {}

SyncStart ==
    /\ ~syncInProgress
    /\ syncInProgress' = TRUE
    /\ syncPc' = "log"
    /\ Begins
    /\ UNCHANGED <<now, user, invite, directory, call, seen, local, left, runningLogs, listed>>

SyncLogged ==
    /\ syncPc = "log"
    /\ syncPc' = "fetch"
    /\ runningLogs' = runningLogs + 1
    /\ UNCHANGED <<now, user, invite, directory, call, syncInProgress, seen, local, left, listed, started>>

\* The log row is created outside of the try block: the mutex stays taken.
SyncLogFails ==
    /\ syncPc = "log"
    /\ syncPc' = "idle"
    /\ UNCHANGED <<now, user, invite, directory, call, syncInProgress, seen, local, left,
                   runningLogs, listed, started>>

\* The search in the directory.
SyncFetch ==
    /\ syncPc = "fetch"
    /\ syncPc' = "local"
    /\ seen' = directory
    /\ UNCHANGED <<now, user, invite, directory, call, syncInProgress, local, left, runningLogs,
                   listed, started>>

\* performSync reads the managed accounts once.
SyncLocal ==
    /\ syncPc = "local"
    /\ syncPc' = "users"
    /\ local' = [u \in Users |-> Found(user[u])]
    /\ left' = seen
    /\ UNCHANGED <<now, user, invite, directory, call, syncInProgress, seen, runningLogs, listed, started>>

\* updateExistingUser (only the flag, deactivatedAt is not touched) and
\* createNewUser; a name that is taken is skipped.
Member(u) == IF local[u] = "inactive" THEN [user[u] EXCEPT !.active = TRUE]
             ELSE IF local[u] = "none" /\ ~user[u].exists THEN NewUser(FALSE, TRUE)
             ELSE user[u]

SyncMember(u) ==
    /\ syncPc = "users" /\ u \in left
    /\ left' = left \ {u}
    /\ user' = [user EXCEPT ![u] = Member(u)]
    /\ UNCHANGED <<now, invite, directory, call, syncInProgress, syncPc, seen, local, runningLogs,
                   listed, started>>

\* Mutant: a member whose own update fails counts as gone.
SyncMemberForgotten(u) ==
    /\ syncPc = "users" /\ u \in left
    /\ left' = left \ {u}
    /\ seen' = seen \ {u}
    /\ UNCHANGED <<now, user, invite, directory, call, syncInProgress, syncPc, local,
                   runningLogs, listed, started>>

\* An error with one member is noted in the log.
SyncMemberFails(u) ==
    /\ syncPc = "users" /\ u \in left
    /\ left' = left \ {u}
    /\ UNCHANGED <<now, user, invite, directory, call, syncInProgress, syncPc, seen, local,
                   runningLogs, listed, started>>

\* The batch for those who left the directory: by id, only the flag.
Leavers == {u \in Users : local[u] = "active" /\ u \notin seen}

SyncBatch ==
    /\ syncPc = "users" /\ left = {}
    /\ syncPc' = "end"
    /\ user' = [u \in Users |-> IF u \in Leavers THEN [user[u] EXCEPT !.active = FALSE]
                                ELSE user[u]]
    /\ Forgets
    /\ UNCHANGED <<now, invite, directory, call, syncInProgress, runningLogs, listed, started>>

\* Anything inside the try block throws.
SyncFails ==
    /\ syncPc \in {"fetch", "local", "users"}
    /\ syncPc' = "end"
    /\ Forgets
    /\ UNCHANGED <<now, user, invite, directory, call, syncInProgress, runningLogs, listed, started>>

\* Mutant: the mutex is released on success only.
ReleasedOn(completed) == ~completed

\* The finally block.
Released(completed) == FALSE

\* The log row is completed, or that fails as well; the finally block follows.
SyncEnd(completed) ==
    /\ syncPc = "end"
    /\ syncPc' = "idle"
    /\ runningLogs' = IF completed THEN runningLogs - 1 ELSE runningLogs
    /\ syncInProgress' = Released(completed)
    /\ UNCHANGED <<now, user, invite, directory, call, seen, local, left, listed, started>>

\* Somebody enters the directory or leaves it; no local account does.
DirectoryChanges(u) ==
    /\ u \in directory \/ user[u].ldap \/ ~user[u].exists
    /\ directory' = IF u \in directory THEN directory \ {u} ELSE directory \cup {u}
    /\ UNCHANGED <<now, user, invite, call, sync, listed, started>>

-----------------------------------------------------------------------------
(* The cleanup of deactivated accounts.                                    *)

Overdue(row) == row.exists /\ ~row.active /\ row.since # None /\ row.since < now - Days

CleanupList ==
    /\ listed = {}
    /\ listed' = {u \in Users : Overdue(user[u])}
    /\ Begins
    /\ UNCHANGED <<now, user, invite, directory, call, sync>>

\* purgeUserContent destroys what the account owns, by id.
PurgeAccount(u) ==
    /\ u \in listed
    /\ listed' = listed \ {u}
    /\ UNCHANGED <<now, user, invite, directory, call, sync, started>>

-----------------------------------------------------------------------------

DayPasses ==
    /\ now < MaxTime
    /\ now' = now + 1
    /\ UNCHANGED <<user, invite, directory, call, sync, listed, started>>

\* The process restarts; initSchedulerOnBoot closes the logs it finds running,
\* unless that fails.
Restart(recovered) ==
    /\ recovered \/ runningLogs > 0
    /\ call' = [c \in Calls |-> Idle]
    /\ syncInProgress' = FALSE
    /\ syncPc' = "idle"
    /\ Forgets
    /\ runningLogs' = IF recovered THEN 0 ELSE runningLogs
    /\ listed' = {}
    /\ UNCHANGED <<now, user, invite, directory, started>>

CallStep(c) ==
    \/ \E t \in Users, self \in BOOLEAN :
        \/ \E op \in Updates : UpdateRead(c, op, t, self)
        \/ \E op \in Removals : RemovalBegins(c, op, t, self)
    \/ \E t \in Users : RegisterCount(c, t) \/ InviteRead(c, t)
    \/ GuardTarget(c) \/ GuardCount(c) \/ WriteRow(c) \/ DeleteRow(c)
    \/ RegisterCreate(c) \/ InviteClaim(c) \/ CallFails(c)

SyncStep ==
    \/ SyncStart \/ SyncLogged \/ SyncLogFails \/ SyncFetch \/ SyncLocal
    \/ \E u \in Users : SyncMember(u) \/ SyncMemberFails(u)
    \/ SyncBatch \/ SyncFails \/ \E completed \in BOOLEAN : SyncEnd(completed)

Next ==
    \/ \E c \in Calls : CallStep(c)
    \/ SyncStep
    \/ CleanupList
    \/ \E u \in Users : PurgeAccount(u) \/ Activate(u) \/ DirectoryChanges(u)
    \/ DayPasses \/ \E recovered \in BOOLEAN : Restart(recovered)

Spec == Init /\ [][Next]_vars
=============================================================================
