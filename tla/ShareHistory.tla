---------------------------- MODULE ShareHistory ----------------------------
(***************************************************************************)
(* ShareLifecycle with history variables: what a property has to remember  *)
(* of a share's past.  They follow the steps of ShareLifecycle and never   *)
(* restrict them.                                                          *)
(***************************************************************************)
EXTENDS ShareLifecycle

VARIABLES
    topLimit,     \* the highest limit the share ever had, None once unlimited
    closedSince,  \* since when visitors are refused, None while they are served; a
                  \* share that is closed by its date is closed since that day
    pausedByHand, \* the owner paused the share, and since then it was neither
                  \* active nor past its date
    removed,      \* it was the run that deleted the share
    excused,      \* an owner's write fell between another party's read and its
                  \* write, or set a date that had already passed
    reopened      \* the last step was an updateShare that opened a paused share whose
                  \* date it did not extend and whose limit it did not raise

history == <<topLimit, closedSince, pausedByHand, removed, excused, reopened>>

-----------------------------------------------------------------------------

Raised(old, new) == IF old = None \/ new = None THEN None ELSE IF new > old THEN new ELSE old

HistoryInit ==
    /\ topLimit = share.maxViews
    /\ closedSince = IF Accessible(share, now) THEN None ELSE now
    /\ pausedByHand = FALSE
    /\ removed = FALSE
    /\ excused = FALSE
    /\ reopened = FALSE

\* Only an owner writes the row without a step of a visitor or of the sweep.
OwnerWrote == share' # share /\ UNCHANGED <<visitPc, sweepPc>>

\* Somebody else is between a read and a write, or this owner read an older row.
Overtakes == \/ sweepPc \in {"expire", "max", "upgrade", "warning", "deleting"}
             \/ \E v \in Visitors : visitPc[v] # "idle"
             \/ ownerPc # "idle" /\ ownerRead # share

PastDateSet == share'.expiration # share.expiration /\ Expired(share', now)

\* A later day, a higher limit, or none any more.
Longer(old, new) == old # None /\ (new = None \/ new > old)

\* A new name, password or recipient is enough.
Reopens == /\ ownerPc = "update"
           /\ share.reason = "manual" /\ share'.isActive
           /\ ~Longer(share.expiration, share'.expiration)
           /\ ~Longer(share.maxViews, share'.maxViews)

Record ==
    /\ topLimit' = Raised(topLimit, share'.maxViews)
    /\ closedSince' = IF exists' /\ Accessible(share', now') THEN None
                      ELSE IF closedSince = None THEN now ELSE closedSince
    /\ pausedByHand' = /\ share'.reason = "manual" \/ pausedByHand
                       /\ ~share'.isActive
                       /\ ~Expired(share', now')
    /\ removed' = (removed \/ SweepDeletes)
    /\ excused' = \/ excused
                  \/ OwnerWrote /\ (Overtakes \/ PastDateSet)
    /\ reopened' = Reopens

HistorySpec == Init /\ HistoryInit /\ [][Next /\ Record]_<<vars, history>>

-----------------------------------------------------------------------------
(* The inductive invariant behind the properties below, in named parts.    *)

HistoryTypeOK ==
    /\ topLimit \in Limits \cup {None}
    /\ closedSince \in Nat \cup {None}
    /\ pausedByHand \in BOOLEAN
    /\ removed \in BOOLEAN
    /\ excused \in BOOLEAN
    /\ reopened \in BOOLEAN

\* The run's clock is not ahead, and a row selected for its date had one.
SweepInv ==
    /\ sweepNow <= now
    /\ sweepPc \in {"expire", "upgrade"} => sweepDate # None

\* Only a request with a limit reads the count back.
RequestInv ==
    \A v \in Visitors : visitPc[v] \in {"reread", "close"} => visitLimit[v] # None

\* Every request in flight carries a limit the share once had.
LimitInv ==
    topLimit # None =>
        /\ share.maxViews # None /\ share.maxViews <= topLimit
        /\ share.views <= topLimit
        /\ \A v \in Visitors :
            visitPc[v] # "idle" => visitLimit[v] # None /\ visitLimit[v] <= topLimit

\* The histories say what they are named for.
ClosedInv ==
    /\ closedSince = None <=> exists /\ Accessible(share, now)
    /\ closedSince <= now
    /\ pausedByHand => ~share.isActive /\ ~Expired(share, now)
    /\ removed => ~exists

\* Unless excused, a date lies after the closing, ...
DateInv == ~excused /\ share.expiration # None => closedSince <= share.expiration

\* ... the reason of a deactivation is true, ...
ReasonInv ==
    ~excused =>
        /\ share.reason \in AutoDeletable => closedSince <= share.deactivatedAt
        /\ pausedByHand => share.reason = "manual"

\* ... what ended automatically is over until its terms change, ...
EndedInv == ~excused /\ share.reason \in AutoDeletable => Expired(share, now) \/ Maxed(share)

\* ... the run still sees the row as it selected it, ...
SelectedInv ==
    ~excused =>
        /\ sweepPc \in {"expire", "upgrade"} =>
                sweepDate = share.expiration /\ Expired(share, now)
        /\ sweepPc = "max" => Maxed(share)
        /\ sweepPc = "deleting" =>
                /\ ~share.isActive /\ share.reason \in AutoDeletable
                /\ share.deactivatedAt < now - Grace

\* ... and so does each visitor's request.
LastViewInv ==
    ~excused => \A v \in Visitors :
        /\ visitPc[v] \in {"count", "reread"} => visitLimit[v] = share.maxViews
        /\ visitPc[v] = "close" => Maxed(share)

HistoryInv ==
    /\ TypeOK
    /\ HistoryTypeOK
    /\ LifecycleFieldsAgree
    /\ SweepInv
    /\ RequestInv
    /\ LimitInv
    /\ ClosedInv
    /\ DateInv
    /\ ReasonInv
    /\ EndedInv
    /\ SelectedInv
    /\ LastViewInv

-----------------------------------------------------------------------------
(* Properties.                                                             *)

\* Concurrent visitors, each with the limit it read, never together count
\* more views than the highest limit the share ever had.
ViewsWithinLimit == topLimit # None => share.views <= topLimit

\* "Nothing jumps straight from live to gone" (automatic-cleanup.mdx:26): the
\* run deletes only a share that visitors have been refused for more than the
\* grace period (excused: one that its owner renews after the run's query).
DeletedOnlyAfterGrace ==
    [][SweepDeletes /\ ~excused => closedSince # None /\ now - closedSince > Grace]_vars

\* "Manually paused content is never auto-deleted", unless it also expired (or
\* is excused, as above).
PausedIsKept == [][SweepDeletes /\ ~excused => ~pausedByHand]_vars

\* Only a share at its end is deactivated automatically, by whichever of the
\* three writers (unless excused: the sweep's compare-and-set looks at isActive
\* and not at the date, which an owner may have moved in the meantime).
DeactivatedOnlyAtItsEnd ==
    [][share.isActive /\ share'.reason \in AutoDeletable /\ ~excused
        => Expired(share, now) \/ Maxed(share)]_vars

\* Visitors that passed the gate and are not counted yet.
Guests == {v \in Visitors : visitPc[v] = "count"}

Phase ==
    CASE ~exists -> IF removed THEN "removed" ELSE "discarded"
      [] exists /\ share.isActive -> "open"
      [] exists /\ ~share.isActive -> IF share.reason = "manual" THEN "paused" ELSE "ended"

Lifecycle == INSTANCE TwoPhases WITH
                Dates  <- Expirations,
                today  <- now,
                phase  <- Phase,
                date   <- share.expiration,
                limit  <- share.maxViews,
                views  <- share.views,
                guests <- Guests,
                since  <- closedSince,
                waived <- excused \/ reopened

\* Requests and runs that are cut at their awaits, fail and race show the documented
\* lifecycle: visitors are let in only while the share is open, and counted within its
\* limit; a share that is over ends, nothing else ends automatically, and only a renewal
\* opens it again; what was paused stays closed until it is resumed or extended; and only
\* what has ended, not what was paused, is deleted, after the grace period.  This holds
\* until an owner's write overtakes another operation (excused), and of every step but
\* an update that is neither a resumption nor an extension and opens a paused share
\* (reopened): updateShare does that, against "stays deactivated indefinitely until you
\* resume it" (automatic-cleanup.mdx:38).
HasTwoPhases == Lifecycle!Spec
=============================================================================
