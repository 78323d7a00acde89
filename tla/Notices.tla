------------------------------ MODULE Notices ------------------------------
(***************************************************************************)
(* How owners are told: of the files a reverse share received, by timers   *)
(* that gather the files of one uploader (reverse-share/upload.service.ts, *)
(* uploadSessions), and of the end of a share, by the daily check of the   *)
(* notification scheduler and by the cleanup run, which share the flag     *)
(* notifiedForExpired.  All of them call EmailService.send, which looks at *)
(* the depth of the queue and inserts a row later.                         *)
(*                                                                         *)
(* One uploader and one share, whose owner is active.  Whether a mail is   *)
(* suppressed by a preference, a cooldown or a setting is left open.       *)
(***************************************************************************)
EXTENDS Integers, FiniteSets

CONSTANTS
    Files,      \* files that arrive in the reverse share
    Timers,     \* timeouts and their callbacks
    Sessions,   \* session objects
    NoSession,
    Depth,      \* MAX_PENDING_QUEUE_DEPTH
    MaxPending  \* bound: rows that wait in the queue

ASSUME NoticesAssumption ==
    /\ NoSession \notin Sessions
    /\ Depth \in Nat /\ MaxPending \in Nat

Announcers == {"daily", "cleanup"}
Senders == Timers \cup Announcers
ASSUME TimersAssumption == Timers \cap Announcers = {}

VARIABLES
    pc,        \* where each sender is
    arrived,   \* files with a row in the database
    current,   \* the entry of uploadSessions for the uploader
    gathered,  \* the files of each session object
    session,   \* the session object in the closure of each timer
    mail,      \* the files in the mail of each timer's callback
    share,     \* "date" is when it expires; "state" is isActive and its reason;
               \* "flag" is notifiedForExpired
    owner,     \* the owner's update in flight, and the state it has read
    selected,  \* what the cleanup's query returned of the share
    pending    \* rows that wait in the queue

uploads == <<arrived, current, gathered, session, mail>>
vars == <<pc, arrived, current, gathered, session, mail, share, owner, selected, pending>>

TimerPcs == {"free", "armed", "read", "count", "insert", "delete"}
AnnouncerPcs == {"idle", "close", "count", "insert", "mark"}
Dates == {"none", "ahead", "past"}
States == {"active", "manual", "expired"}
ShareRows == [date : Dates, state : States, flag : BOOLEAN]
Nothing == [state |-> "active", flag |-> FALSE]
Asleep == [pc |-> "idle", saw |-> "active"]

TypeOK ==
    /\ pc \in [Senders -> TimerPcs \cup AnnouncerPcs]
    /\ \A t \in Timers : pc[t] \in TimerPcs
    /\ \A a \in Announcers : pc[a] \in AnnouncerPcs
    /\ arrived \subseteq Files
    /\ current \in Sessions \cup {NoSession}
    /\ gathered \in [Sessions -> SUBSET Files]
    /\ session \in [Timers -> Sessions \cup {NoSession}]
    /\ mail \in [Timers -> SUBSET Files]
    /\ share \in ShareRows
    /\ owner \in [pc : {"idle", "write"}, saw : States]
    /\ selected \in [state : States, flag : BOOLEAN]
    /\ pending \in 0 .. MaxPending

\* A process that has just started.
Quiet == [p \in Senders |-> IF p \in Timers THEN "free" ELSE "idle"]
NoFiles(S) == [x \in S |-> {}]
NewShare == [date |-> "none", state |-> "active", flag |-> FALSE]

Init ==
    /\ pc = Quiet
    /\ arrived = {}
    /\ current = NoSession
    /\ gathered = NoFiles(Sessions)
    /\ session = [t \in Timers |-> NoSession]
    /\ mail = NoFiles(Timers)
    /\ share \in {[NewShare EXCEPT !.date = d] : d \in {"none", "ahead"}}
    /\ owner = Asleep
    /\ selected = Nothing
    /\ pending = 0

-----------------------------------------------------------------------------
(* EmailService.send, from the check of the depth on.                      *)

\* Mutant: the flag is set whatever became of the mail.
AfterSendAnyway(p, enqueued) == IF p \in Timers THEN "delete" ELSE "mark"

\* What the sender does with the result.
AfterSend(p, enqueued) == IF p \in Timers THEN "delete" ELSE IF enqueued THEN "mark" ELSE "idle"

\* Mutant: one row beyond the cap.
RoomForOneMore == pending <= Depth

HasRoom == pending < Depth

At(p, here, there) == pc[p] = here /\ pc' = [pc EXCEPT ![p] = there]

Unsent == UNCHANGED <<uploads, share, owner, selected>>

\* A preference, a cooldown, a setting or the cap stops the mail.
Refuse(p) == At(p, "count", AfterSend(p, FALSE)) /\ Unsent /\ UNCHANGED pending

\* The mail cannot be rendered: a failed row is kept, and reported as enqueued.
RenderFails(p) == At(p, "count", AfterSend(p, TRUE)) /\ Unsent /\ UNCHANGED pending

Count(p) == HasRoom /\ At(p, "count", "insert") /\ Unsent /\ UNCHANGED pending

\* A count that fails must not block the mail.
CountFails(p) == At(p, "count", "insert") /\ Unsent /\ UNCHANGED pending

Insert(p) ==
    /\ pending < MaxPending
    /\ At(p, "insert", AfterSend(p, TRUE))
    /\ pending' = pending + 1
    /\ Unsent

InsertFails(p) == At(p, "insert", AfterSend(p, FALSE)) /\ Unsent /\ UNCHANGED pending

\* The queue takes a row.
Take ==
    /\ pending > 0
    /\ pending' = pending - 1
    /\ UNCHANGED <<pc, uploads, share, owner, selected>>

-----------------------------------------------------------------------------
(* addFileToUploadSession and the callback of its timer.                   *)

\* Timers of a session that have not fired: only its last one can be among them.
Armed(s) == {t \in Timers : pc[t] = "armed" /\ session[t] = s}

Unused == {s \in Sessions : s # current /\ \A t \in Timers : pc[t] # "free" => session[t] # s}

\* A file joins the session in the map, or begins one, and its timer starts anew.
Upload(f, s, t) ==
    /\ f \notin arrived
    /\ arrived' = arrived \cup {f}
    /\ IF current = NoSession THEN s \in Unused ELSE s = current
    /\ pc[t] = "free" \/ t \in Armed(s)
    /\ current' = s
    /\ gathered' = [gathered EXCEPT ![s] = IF current = s THEN @ \cup {f} ELSE {f}]
    /\ session' = [session EXCEPT ![t] = s]
    /\ pc' = [p \in Senders |-> IF p = t THEN "armed"
                                ELSE IF p \in Armed(s) THEN "free" ELSE pc[p]]
    /\ UNCHANGED <<mail, share, owner, selected, pending>>

\* The callback reads the owner.
Fire(t) == At(t, "armed", "read") /\ Unsent /\ UNCHANGED pending

\* Mutant: the callback looks the session up by its key.
GatheredByKey(t) == IF current = NoSession THEN {} ELSE gathered[current]

Gathered(t) == gathered[session[t]]

Compose(t) ==
    /\ At(t, "read", "count")
    /\ mail' = [mail EXCEPT ![t] = Gathered(t)]
    /\ UNCHANGED <<arrived, current, gathered, session, share, owner, selected, pending>>

\* The owner is gone, deactivated, or cannot be read.
SkipOwner(t) == At(t, "read", "delete") /\ Unsent /\ UNCHANGED pending

Held(s) == \E t \in Timers : pc[t] # "free" /\ session[t] = s

\* Whatever session the map holds under the key is removed.
DeleteSession(t) ==
    /\ At(t, "delete", "free")
    /\ current' = NoSession
    /\ session' = [session EXCEPT ![t] = NoSession]
    /\ gathered' = [s \in Sessions |-> IF Held(s)' THEN gathered[s] ELSE {}]
    /\ mail' = [mail EXCEPT ![t] = {}]
    /\ UNCHANGED <<arrived, share, owner, selected, pending>>

-----------------------------------------------------------------------------
(* The end of a share.                                                     *)

Untouched == UNCHANGED <<uploads, pending>>

\* Mutants: the flag is not looked at, or only shares that are still active.
DueAnyway(r) == r.date = "past"
DueWhileActive(r) == r.date = "past" /\ ~r.flag /\ r.state = "active"

Due(r) == r.date = "past" /\ ~r.flag

\* checkExpiredShares
DailyFind ==
    /\ Due(share)
    /\ At("daily", "idle", "count")
    /\ Unsent /\ UNCHANGED pending

\* deactivateEndedShares: active and expired, or paused and expired.
CleanupFind ==
    /\ share.date = "past" /\ share.state \in {"active", "manual"}
    /\ At("cleanup", "idle", "close")
    /\ selected' = [state |-> share.state, flag |-> share.flag]
    /\ Untouched /\ UNCHANGED <<share, owner>>

\* Only a share that is still as it was found, and the notice only if it was not
\* announced then.
Close ==
    LET hit == share.state = selected.state IN
    /\ At("cleanup", "close", IF hit /\ ~selected.flag THEN "count" ELSE "idle")
    /\ share' = [share EXCEPT !.state = IF hit THEN "expired" ELSE @]
    /\ selected' = Nothing
    /\ Untouched /\ UNCHANGED owner

CloseFails ==
    /\ At("cleanup", "close", "idle")
    /\ selected' = Nothing
    /\ Untouched /\ UNCHANGED <<share, owner>>

\* By id in the daily check, where the flag is not set in the cleanup.
Mark(a) ==
    /\ At(a, "mark", "idle")
    /\ share' = [share EXCEPT !.flag = TRUE]
    /\ Untouched /\ UNCHANGED <<owner, selected>>

MarkFails(a) == At(a, "mark", "idle") /\ Unsent /\ UNCHANGED pending

-----------------------------------------------------------------------------
(* The owner of the share, and time.                                       *)

OwnerRead ==
    /\ owner = Asleep
    /\ owner' = [pc |-> "write", saw |-> share.state]
    /\ UNCHANGED <<pc, uploads, share, selected, pending>>

\* Whether a new date is later than the old one, as far as this model knows.
Extends(old, new) == CASE old = "none" -> {TRUE}
                       [] new = "ahead" /\ old = "past" -> {TRUE}
                       [] new = "past" /\ old = "ahead" -> {FALSE}
                       [] OTHER -> BOOLEAN

\* A share that was inactive when it was read and has not ended is revived.
Revived(date) == IF owner.saw # "active" /\ date # "past" THEN "active" ELSE share.state

\* updateShare with a date; an extension resets the flag.
Redate(new, extended) ==
    /\ owner.pc = "write"
    /\ extended \in Extends(share.date, new)
    /\ share' = [date |-> new, state |-> Revived(new), flag |-> share.flag /\ ~extended]
    /\ owner' = Asleep
    /\ UNCHANGED <<pc, uploads, selected, pending>>

\* updateShare that clears the date or leaves it.
Update(date) ==
    /\ owner.pc = "write" /\ date \in {"none", share.date}
    /\ share' = [share EXCEPT !.date = date, !.state = Revived(date)]
    /\ owner' = Asleep
    /\ UNCHANGED <<pc, uploads, selected, pending>>

\* pauseShare uses nothing of what it read.
Pause ==
    /\ share' = [share EXCEPT !.state = "manual"]
    /\ UNCHANGED <<pc, uploads, owner, selected, pending>>

Expire ==
    /\ share.date = "ahead"
    /\ share' = [share EXCEPT !.date = "past"]
    /\ UNCHANGED <<pc, uploads, owner, selected, pending>>

\* SIGTERM and SIGINT exit at once, as a crash does: no hook that would flush the
\* sessions runs.  What is in memory is lost.
Exit ==
    /\ pc' = Quiet
    /\ current' = NoSession
    /\ gathered' = NoFiles(Sessions)
    /\ session' = [t \in Timers |-> NoSession]
    /\ mail' = NoFiles(Timers)
    /\ owner' = Asleep
    /\ selected' = Nothing
    /\ UNCHANGED <<arrived, share, pending>>

-----------------------------------------------------------------------------

SendStep(p) == \/ Count(p) \/ CountFails(p) \/ Refuse(p) \/ RenderFails(p)
               \/ Insert(p) \/ InsertFails(p)

TimerStep(t) == Fire(t) \/ Compose(t) \/ SkipOwner(t) \/ DeleteSession(t)

UploadStep == \E f \in Files, s \in Sessions, t \in Timers : Upload(f, s, t)

AnnounceStep ==
    \/ DailyFind \/ CleanupFind \/ Close \/ CloseFails
    \/ \E a \in Announcers : Mark(a) \/ MarkFails(a)

Extend == \E new \in {"ahead", "past"} : Redate(new, TRUE)

OwnerStep ==
    \/ OwnerRead \/ Pause
    \/ \E new \in {"ahead", "past"} : Redate(new, FALSE)
    \/ \E date \in Dates : Update(date)

Step ==
    \/ \E p \in Senders : SendStep(p)
    \/ \E t \in Timers : TimerStep(t)
    \/ UploadStep \/ AnnounceStep \/ OwnerStep
    \/ Take \/ Expire

Next == Step \/ Extend \/ Exit

Spec == Init /\ [][Next]_vars

\* The check runs every day, timers fire and calls return; what is tried again and
\* again does not fail, and is not refused, every time; the queue is worked off.
Fairness ==
    /\ WF_vars(Take)
    /\ \A t \in Timers : WF_vars(TimerStep(t) \/ SendStep(t))
    /\ WF_vars(SendStep("daily"))
    /\ WF_vars(Mark("daily") \/ MarkFails("daily"))
    /\ SF_vars(DailyFind)
    /\ SF_vars(Count("daily"))
    /\ SF_vars(Insert("daily"))
=============================================================================
