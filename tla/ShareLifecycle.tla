--------------------------- MODULE ShareLifecycle ---------------------------
(***************************************************************************)
(* The life of one share: active, deactivated, deleted.  Four parties      *)
(* write the row without holding a lock on it: visitors (getShare), the    *)
(* owner (updateShare, pauseShare, resumeShare, deleteShare of             *)
(* share/service.ts), and the two phases of the cleanup run                *)
(* (deactivateEndedShares and deleteDeactivatedShares of                   *)
(* cleanup/service.ts).  Each of them reads the row, awaits, and writes.   *)
(*                                                                         *)
(* Time counts days.  A run of the cleanup handles many shares between its *)
(* query and its write to this one, so anything may happen in between.     *)
(*                                                                         *)
(* ShareHistory adds what the properties have to remember of the past.     *)
(***************************************************************************)
EXTENDS Integers, FiniteSets

CONSTANTS
    Visitors,     \* concurrent requests of people who are not the owner
    Expirations,  \* expiration dates an owner may set
    Limits,       \* view limits an owner may set
    Grace,        \* autoCleanupGracePeriodDays
    NotifyBefore, \* autoCleanupNotifyDaysBefore
    MaxTime,      \* bound: the last day
    MaxViews      \* bound: views of a share without a limit

ASSUME DatesAssumption == Expirations \subseteq Nat /\ MaxTime \in Nat
ASSUME LimitsAssumption == Limits \subseteq Nat /\ MaxViews \in Nat
ASSUME SettingsAssumption == Grace \in Nat /\ NotifyBefore \in Nat

None == -1          \* null: no expiration, no limit, not deactivated
Unchanged == -2     \* a field the request does not carry

VARIABLES
    now,
    exists,       \* the row is in the table
    share,        \* the row
    visitPc,      \* where each visitor's request is suspended
    visitLimit,   \* maxViews as that request read it
    ownerPc,      \* an owner request that has read the row: "idle", "update", "resume"
    ownerRead,    \* the row as that request read it
    sweepPc,      \* where the cleanup run is suspended
    sweepNow,     \* the instant its current phase calls now
    sweepDate     \* expiration of the row its query returned

requests == <<visitPc, visitLimit>>
owner == <<ownerPc, ownerRead>>
sweep == <<sweepPc, sweepNow, sweepDate>>
vars == <<now, exists, share, requests, owner, sweep>>

-----------------------------------------------------------------------------

\* Mutant: a pause counts as an end.
EveryReason == {"expired", "max_views", "manual"}

AutoDeletable == {"expired", "max_views"}

\* deactivationFields and reactivationFields, written over the row r.
Deactivated(r, why, at) ==
    [r EXCEPT !.isActive = FALSE, !.reason = why, !.deactivatedAt = at]

\* Mutant: the old deactivation date stays.
ReactivatedKeepsDate(r) == [r EXCEPT !.isActive = TRUE, !.reason = "none", !.warned = FALSE]

Reactivated(r) ==
    [r EXCEPT !.isActive = TRUE, !.reason = "none", !.deactivatedAt = None, !.warned = FALSE]

Expired(r, t) == r.expiration # None /\ t > r.expiration
Maxed(r) == r.maxViews # None /\ r.views >= r.maxViews

\* assertShareAccessible, for an active owner.
Accessible(r, t) == r.isActive /\ ~Expired(r, t) /\ ~Maxed(r)

\* What a request that is not in flight remembers of the row.
Blank == [isActive |-> TRUE, reason |-> "none", deactivatedAt |-> None,
          expiration |-> None, maxViews |-> None, views |-> 0, warned |-> FALSE]

Init ==
    /\ now = 0
    /\ exists = TRUE
    /\ \E e \in Expirations \cup {None}, m \in Limits \cup {None} :
        share = [Blank EXCEPT !.expiration = e, !.maxViews = m]
    /\ visitPc = [v \in Visitors |-> "idle"]
    /\ visitLimit = [v \in Visitors |-> None]
    /\ ownerPc = "idle"
    /\ ownerRead = Blank
    /\ sweepPc = "idle"
    /\ sweepNow = 0
    /\ sweepDate = None

-----------------------------------------------------------------------------
(* Visitors: getShare.                                                     *)

Visit(v, from, to, limit) ==
    /\ visitPc[v] = from
    /\ visitPc' = [visitPc EXCEPT ![v] = to]
    /\ visitLimit' = [visitLimit EXCEPT ![v] = IF to = "idle" THEN None ELSE limit]
    /\ UNCHANGED <<now, owner, sweep>>

\* The gate, on the row as it was read.
VisitRead(v) ==
    /\ Visit(v, "idle", "count", share.maxViews)
    /\ exists
    /\ Accessible(share, now)
    /\ UNCHANGED <<exists, share>>

\* Mutant: the update does not compare.
Unlimited(v) == exists

\* incrementViewsAtomic: unconditional without a limit, else compared with
\* the limit that was read.
Counted(v) == exists /\ (visitLimit[v] # None => share.views < visitLimit[v])

\* A request that loses is refused.
VisitCount(v) ==
    /\ Counted(v) /\ visitLimit[v] = None => share.views < MaxViews
    /\ Visit(v, "count", IF Counted(v) /\ visitLimit[v] # None THEN "reread" ELSE "idle",
             visitLimit[v])
    /\ share' = IF Counted(v) THEN [share EXCEPT !.views = @ + 1] ELSE share
    /\ UNCHANGED exists

Hits(v) == exists /\ share.views >= visitLimit[v]

\* incrementViewsAtomic reads the new count back in a query of its own.
VisitReread(v) ==
    /\ Visit(v, "reread", IF Hits(v) THEN "close" ELSE "idle", visitLimit[v])
    /\ UNCHANGED <<exists, share>>

\* The request that hit the limit persists it, if the row is still active.
VisitClose(v) ==
    /\ Visit(v, "close", "idle", None)
    /\ share' = IF exists /\ share.isActive
                THEN Deactivated(share, "max_views", now) ELSE share
    /\ UNCHANGED exists

\* Its update failed: logged and forgotten.
VisitCloseFails(v) ==
    /\ Visit(v, "close", "idle", None)
    /\ UNCHANGED <<exists, share>>

-----------------------------------------------------------------------------
(* The owner.                                                              *)

\* updateShare and resumeShare read the row first.
OwnerRead(op) ==
    /\ ownerPc = "idle"
    /\ exists
    /\ ownerPc' = op
    /\ ownerRead' = share
    /\ UNCHANGED <<now, exists, share, requests, sweep>>

OwnerWrites(row) ==
    /\ share' = row
    /\ UNCHANGED <<now, exists, requests, sweep>>

\* The request ends without a write: the row is gone, or it is refused.
OwnerGivesUp ==
    /\ ownerPc' = "idle"
    /\ ownerRead' = Blank
    /\ UNCHANGED <<now, exists, share, requests, sweep>>

OwnerGone == ownerPc # "idle" /\ ~exists /\ OwnerGivesUp

\* The value a request gives a field, if it carries it.
Given(new, old) == IF new = Unchanged THEN old ELSE new

\* The expiration, or the limit, is pushed out by the request.
Extends(e) == e # Unchanged /\ (ownerRead.expiration = None \/ e > ownerRead.expiration)
RaisesLimit(m) ==
    m # Unchanged /\ (m = None \/ (ownerRead.maxViews # None /\ m > ownerRead.maxViews))

\* A share that was inactive when it was read, and would be neither expired nor
\* maxed after the update.
Revives(e, m) ==
    LET r == [ownerRead EXCEPT !.expiration = Given(e, @), !.maxViews = Given(m, @)]
    IN ~r.isActive /\ ~Expired(r, now) /\ ~Maxed(r)

\* The row after updateShare with a new expiration, a new limit, both or
\* neither (a name, a password, recipients).  What it resets is decided by the
\* row it had read.
Updated(e, m) ==
    LET r == [share EXCEPT !.expiration = Given(e, @), !.maxViews = Given(m, @),
                           !.warned = @ /\ ~Extends(e) /\ ~RaisesLimit(m)]
    IN IF Revives(e, m) THEN Reactivated(r) ELSE r

UpdateWrite(e, m) ==
    /\ ownerPc = "update"
    /\ exists
    /\ OwnerWrites(Updated(e, m))
    /\ ownerPc' = "idle"
    /\ ownerRead' = Blank

\* resumeShare refuses a share that is still expired or maxed.
ResumeRefused ==
    /\ ownerPc = "resume"
    /\ Expired(ownerRead, now) \/ Maxed(ownerRead)
    /\ OwnerGivesUp

ResumeWrite ==
    /\ ownerPc = "resume"
    /\ exists
    /\ ~Expired(ownerRead, now) /\ ~Maxed(ownerRead)
    /\ OwnerWrites(Reactivated(share))
    /\ ownerPc' = "idle"
    /\ ownerRead' = Blank

\* pauseShare uses nothing of what it read.
Pause ==
    /\ exists
    /\ OwnerWrites(Deactivated(share, "manual", now))
    /\ UNCHANGED owner

Delete ==
    /\ exists
    /\ exists' = FALSE
    /\ UNCHANGED <<now, share, requests, owner, sweep>>

-----------------------------------------------------------------------------
(* The cleanup run: three deactivation queries with one "now", then the    *)
(* warning and deletion queries with another.                              *)

Phases == {"expired", "maxed", "manual", "warn", "delete"}

After(phase) == CASE phase = "expired" -> "maxed"
                  [] phase = "maxed"   -> "manual"
                  [] phase = "manual"  -> "warn"
                  [] phase = "warn"    -> "delete"
                  [] phase = "delete"  -> "idle"

\* Where the run is between the query of a phase and its write.
Handling(phase) == CASE phase = "expired" -> "expire"
                     [] phase = "maxed"   -> "max"
                     [] phase = "manual"  -> "upgrade"
                     [] phase = "warn"    -> "warning"
                     [] phase = "delete"  -> "deleting"

\* The five queries, by their where clauses; t is the caller's now.

ExpiredActive(r, t) == r.isActive /\ Expired(r, t)

\* Mutant: the limit has to be exceeded.
MaxedBeyond(r, t) == r.isActive /\ r.maxViews # None /\ r.views > r.maxViews

\* A share that is both expired and maxed counts as expired.
MaxedActive(r, t) == r.isActive /\ ~Expired(r, t) /\ Maxed(r)

PausedExpired(r, t) == ~r.isActive /\ r.reason = "manual" /\ Expired(r, t)

ToWarn(r, t) ==
    /\ NotifyBefore > 0
    /\ ~r.isActive /\ r.reason \in AutoDeletable
    /\ ~r.warned
    /\ t - Grace < r.deactivatedAt /\ r.deactivatedAt <= t - Grace + NotifyBefore

\* Mutants: one day early, or only after a warning.
ToDeleteEarly(r, t) ==
    ~r.isActive /\ r.reason \in AutoDeletable /\ r.deactivatedAt <= t - Grace
ToDeleteWarned(r, t) ==
    ~r.isActive /\ r.reason \in AutoDeletable /\ r.deactivatedAt < t - Grace /\ r.warned

ToDelete(r, t) == ~r.isActive /\ r.reason \in AutoDeletable /\ r.deactivatedAt < t - Grace

Selected(phase, r, t) == CASE phase = "expired" -> ExpiredActive(r, t)
                           [] phase = "maxed"   -> MaxedActive(r, t)
                           [] phase = "manual"  -> PausedExpired(r, t)
                           [] phase = "warn"    -> ToWarn(r, t)
                           [] phase = "delete"  -> ToDelete(r, t)

StartCleanup ==
    /\ sweepPc = "idle"
    /\ sweepPc' = "expired"
    /\ sweepNow' = now
    /\ UNCHANGED <<now, exists, share, requests, owner, sweepDate>>

\* A phase's findMany: the row is handled when it is selected.
Find(phase) ==
    LET t == IF phase = "warn" THEN now ELSE sweepNow IN
    /\ sweepPc = phase
    /\ sweepNow' = t
    /\ IF exists /\ Selected(phase, share, t)
       THEN sweepPc' = Handling(phase) /\ sweepDate' = share.expiration
       ELSE sweepPc' = After(phase) /\ UNCHANGED sweepDate
    /\ UNCHANGED <<now, exists, share, requests, owner>>

\* A query that throws ends the deactivation sweep, or the whole of phase 2.
FindFails(phase) ==
    /\ sweepPc = phase
    /\ sweepPc' = IF phase \in {"warn", "delete"} THEN "idle" ELSE "warn"
    /\ UNCHANGED <<now, exists, share, requests, owner, sweepNow, sweepDate>>

\* What the run writes to the row it selected.  The deactivations compare
\* and set isActive (and the reason); the flag of the warning is set after
\* an enqueued mail, by id.
SweepWrite(phase) ==
    CASE phase = "expired" -> IF share.isActive
                              THEN Deactivated(share, "expired", sweepDate) ELSE share
      [] phase = "maxed"   -> IF share.isActive
                              THEN Deactivated(share, "max_views", now) ELSE share
      [] phase = "manual"  -> IF ~share.isActive /\ share.reason = "manual"
                              THEN Deactivated(share, "expired", sweepDate) ELSE share
      [] phase = "warn"    -> [share EXCEPT !.warned = TRUE]

Handle(phase) ==
    /\ sweepPc = Handling(phase)
    /\ sweepPc' = After(phase)
    /\ share' = IF exists THEN SweepWrite(phase) ELSE share
    /\ sweepDate' = None
    /\ UNCHANGED <<now, exists, requests, owner, sweepNow>>

\* deleteShareLink: by id, whatever the row has become.
HandleDelete ==
    /\ sweepPc = Handling("delete")
    /\ sweepPc' = After("delete")
    /\ exists' = FALSE
    /\ sweepDate' = None
    /\ UNCHANGED <<now, share, requests, owner, sweepNow>>

\* An error with one share is counted, and the mail of a warning may not be
\* enqueued: the run goes on.
HandleFails(phase) ==
    /\ sweepPc = Handling(phase)
    /\ sweepPc' = After(phase)
    /\ sweepDate' = None
    /\ UNCHANGED <<now, exists, share, requests, owner, sweepNow>>

-----------------------------------------------------------------------------

DayPasses ==
    /\ now < MaxTime
    /\ now' = now + 1
    /\ UNCHANGED <<exists, share, requests, owner, sweep>>

\* The process restarts; initCleanupOnBoot runs the cleanup at once.
Restart ==
    /\ visitPc' = [v \in Visitors |-> "idle"]
    /\ visitLimit' = [v \in Visitors |-> None]
    /\ ownerPc' = "idle"
    /\ ownerRead' = Blank
    /\ sweepPc' = "expired"
    /\ sweepNow' = now
    /\ sweepDate' = None
    /\ UNCHANGED <<now, exists, share>>

OwnerStep ==
    \/ \E op \in {"update", "resume"} : OwnerRead(op)
    \/ OwnerGone
    \/ \E e \in Expirations \cup {Unchanged}, m \in Limits \cup {None, Unchanged} :
            UpdateWrite(e, m)
    \/ ResumeRefused \/ ResumeWrite \/ Pause \/ Delete

VisitStep(v) == VisitRead(v) \/ VisitCount(v) \/ VisitReread(v) \/ VisitClose(v) \/ VisitCloseFails(v)

SweepStep ==
    \/ StartCleanup
    \/ \E p \in Phases : Find(p) \/ FindFails(p) \/ HandleFails(p)
    \/ \E p \in Phases \ {"delete"} : Handle(p)
    \/ HandleDelete

Next == OwnerStep \/ SweepStep \/ (\E v \in Visitors : VisitStep(v)) \/ DayPasses \/ Restart

Spec == Init /\ [][Next]_vars

\* The chained timer starts runs, queries return, days pass; a query or a write
\* that is tried at every run does not fail at every run, and the process does
\* not restart for ever before a run gets that far.
Fairness ==
    /\ WF_vars(DayPasses)
    /\ WF_vars(SweepStep)
    /\ \A p \in Phases : SF_vars(Find(p))
    /\ SF_vars(\E p \in Phases \ {"delete"} : Handle(p))
    /\ SF_vars(HandleDelete)

FairSpec == Spec /\ Fairness

-----------------------------------------------------------------------------
(* Properties.                                                             *)

Row == [isActive : BOOLEAN, reason : AutoDeletable \cup {"manual", "none"},
        deactivatedAt : Int, expiration : Expirations \cup {None},
        maxViews : Limits \cup {None}, views : Nat, warned : BOOLEAN]

TypeOK ==
    /\ now \in 0 .. MaxTime
    /\ exists \in BOOLEAN
    /\ share \in Row
    /\ visitPc \in [Visitors -> {"idle", "count", "reread", "close"}]
    /\ visitLimit \in [Visitors -> Limits \cup {None}]
    /\ ownerPc \in {"idle", "update", "resume"}
    /\ ownerRead \in Row
    /\ sweepPc \in {"idle", "expire", "max", "upgrade", "warning", "deleting"} \cup Phases
    /\ sweepNow \in 0 .. MaxTime
    /\ sweepDate \in Expirations \cup {None}

\* The three lifecycle fields are written by seven writers and always agree:
\* an active share has no reason and no date, a deactivated one has both.
LifecycleFieldsAgree ==
    /\ share.isActive <=> share.reason = "none"
    /\ share.isActive <=> share.deactivatedAt = None

\* "Every ended share eventually becomes isActive=false": whether or not
\* anybody ever reads it again.
EndedIsDeactivated ==
    exists /\ share.isActive /\ (Expired(share, now) \/ Maxed(share))
        ~> ~exists \/ ~share.isActive \/ ~(Expired(share, now) \/ Maxed(share))

\* A share deactivated automatically, and left alone, is deleted in the end.
DeactivatedIsDeleted ==
    exists /\ share.reason \in AutoDeletable /\ share.deactivatedAt + Grace < MaxTime
        ~> ~exists \/ share.reason \notin AutoDeletable \/ share.deactivatedAt + Grace >= MaxTime

\* A step in which the run deletes the share.
SweepDeletes == exists /\ ~exists' /\ sweepPc = "deleting" /\ sweepPc' = "idle"
=============================================================================
