--------------------------- MODULE NoticeHistory ---------------------------
(***************************************************************************)
(* Notices with history variables: what a property has to remember of the  *)
(* past.  They follow the steps of Notices and never restrict them.        *)
(***************************************************************************)
EXTENDS Notices

VARIABLES
    told,       \* files of which the owner was told
    dropped,    \* files whose mail was given up, or lost with the process
    overtaken,  \* senders that counted before another one inserted, or could not count
    announced,  \* the present end of the share was announced
    void,       \* announcers that found an earlier end, or whose mail was not rendered
    paired,     \* announcers that met the other one on their way
    unmarked,   \* an announcement of this end was not marked
    wasted      \* the flag stands for an earlier end, or for a mail not rendered

history == <<told, dropped, overtaken, announced, void, paired, unmarked, wasted>>

HistoryInit ==
    /\ told = {} /\ dropped = {}
    /\ overtaken = {}
    /\ announced = FALSE
    /\ void = {} /\ paired = {}
    /\ unmarked = FALSE /\ wasted = FALSE

-----------------------------------------------------------------------------

Moves(p, here, there) == pc[p] = here /\ pc'[p] = there

Inserts(p) == pc[p] = "insert" /\ pc'[p] # "insert" /\ pending' > pending

\* A callback ends without a row.
GivesUp(t) == pc[t] \in {"read", "count", "insert"} /\ pc'[t] = "delete" /\ ~Inserts(t)

InFlight(a) == pc[a] # "idle"

Marks(a) == Moves(a, "mark", "idle") /\ share'.flag

RecordFiles ==
    /\ told' = told \cup UNION {mail[t] : t \in {u \in Timers : Inserts(u)}}
    /\ dropped' = dropped \cup UNION {IF pc[t] = "read" THEN gathered[session[t]] ELSE mail[t] :
                                        t \in {u \in Timers : GivesUp(u)}}
    /\ overtaken' = {p \in Senders :
            /\ pc'[p] = "insert"
            /\ \/ p \in overtaken
               \/ \E q \in Senders \ {p} : Inserts(q)
               \/ pc[p] = "count" /\ ~HasRoom}

RecordEnd ==
    /\ announced' = (announced \/ \E a \in Announcers \ void : Inserts(a))
    /\ void' = {a \in Announcers : InFlight(a)' /\ (a \in void \/ Moves(a, "count", "mark"))}
    /\ paired' = {a \in Announcers :
            InFlight(a)' /\ (a \in paired \/ \A b \in Announcers : InFlight(b)')}
    /\ unmarked' = (unmarked \/ \E a \in Announcers : Moves(a, "mark", "idle") /\ ~share'.flag)
    /\ wasted' = (wasted \/ \E a \in void : Marks(a))

\* The end that those in flight have found is no longer the present one.
RecordExtension ==
    /\ announced' = FALSE /\ unmarked' = FALSE /\ wasted' = FALSE
    /\ void' = {a \in Announcers : InFlight(a)}
    /\ UNCHANGED <<told, dropped, overtaken, paired>>

RecordExit ==
    /\ dropped' = dropped \cup (arrived \ told)
    /\ overtaken' = {} /\ void' = {} /\ paired' = {}
    /\ unmarked' = (unmarked \/ \E a \in Announcers : pc[a] = "mark")
    /\ UNCHANGED <<told, announced, wasted>>

HistoryNext ==
    \/ Step /\ RecordFiles /\ RecordEnd
    \/ Extend /\ RecordExtension
    \/ Exit /\ RecordExit

HistorySpec == Init /\ HistoryInit /\ [][HistoryNext]_<<vars, history>>
FairHistorySpec == HistorySpec /\ Fairness

-----------------------------------------------------------------------------
(* The inductive invariant.                                                *)

HistoryTypeOK ==
    /\ told \subseteq Files /\ dropped \subseteq Files
    /\ overtaken \subseteq Senders /\ void \subseteq Announcers /\ paired \subseteq Announcers
    /\ announced \in BOOLEAN /\ unmarked \in BOOLEAN /\ wasted \in BOOLEAN

\* A timer in use has a session, and what it gathered is held for it.
TimersHold == \A t \in Timers : pc[t] # "free" => session[t] \in Sessions

\* An announcer about to mark has sent a mail about the present end, or is void.
MarksMean == \A a \in Announcers : pc[a] = "mark" => a \in void \/ announced

\* An announcement that was not left unmarked is marked, or about to be.
AnnouncementShows ==
    announced /\ ~unmarked => share.flag \/ \E a \in Announcers : pc[a] = "mark"

\* Who is on the way to announce it again has met the other announcer.
Announcing(a) ==
    \/ pc[a] \in {"count", "insert"}
    \/ a = "cleanup" /\ pc[a] = "close" /\ ~selected.flag

RepeatsArePaired ==
    announced /\ ~unmarked => \A a \in Announcers \ void : Announcing(a) => a \in paired

\* A sender that nobody overtook since its count still finds room.
RoomIsKept == \A p \in Senders \ overtaken : pc[p] = "insert" => pending < Depth

-----------------------------------------------------------------------------

\* However uploads, callbacks and the removal of sessions interleave, every
\* file that arrived is gathered for a callback to come, or in the mail of one
\* that runs, unless the owner was told or its mail was given up or lost with
\* the process (upload.service.ts, addFileToUploadSession).
NoFileForgotten ==
    \A f \in arrived \ (told \cup dropped) : \E t \in Timers :
        \/ pc[t] \in {"armed", "read"} /\ f \in gathered[session[t]]
        \/ pc[t] \in {"count", "insert"} /\ f \in mail[t]

\* notifiedForExpired stands for a mail about the present end, except when it was
\* written for an end the owner has extended meanwhile, or for a mail that was
\* reported as enqueued and not rendered: only then nobody hears of this end.
FlagIsEarned == share.flag => announced \/ wasted

\* An end is announced again only by one of two announcers that met, or after an
\* announcement that was not marked ("duplicate runs are no-ops",
\* notification.scheduler.ts).
AnnouncedOnce ==
    [][\A a \in Announcers \ void : Inserts(a) /\ announced => a \in paired \/ unmarked]_vars

\* The queue grows beyond the cap only by senders that another one overtook between
\* their count and their row, or that could not count (email/service.ts).
DepthHolds == [][\A p \in Senders : Inserts(p) /\ pending >= Depth => p \in overtaken]_vars

\* With a check every day, the owner of a share that stays expired hears of it,
\* unless he extends it for ever or the flag was wasted; and no file waits for ever.
EveryNoticeLeaves ==
    /\ []<>(share.date # "past" \/ announced \/ wasted) \/ []<><<Extend>>_vars
    /\ \A f \in Files : f \in arrived ~> f \in told \cup dropped

\* Timers, sessions, announcers and senders agree with what happened before.
NoticeInv ==
    /\ TypeOK /\ HistoryTypeOK
    /\ TimersHold /\ NoFileForgotten
    /\ MarksMean /\ FlagIsEarned /\ AnnouncementShows /\ RepeatsArePaired
    /\ RoomIsKept
=============================================================================
