---------------------------- MODULE NoticeProofs ----------------------------
(***************************************************************************)
(* Proofs about Notices, for any number of files, timers, session objects  *)
(* and rows: the inductive invariant NoticeInv, and from it that no file   *)
(* is forgotten, that the flag of a share is earned, that an end is        *)
(* announced once, and that the cap on the queue holds but for overtaken   *)
(* senders.                                                                *)
(***************************************************************************)
EXTENDS NoticeHistory, TLAPS

-----------------------------------------------------------------------------
(* Types.                                                                  *)

PcOK ==
    /\ pc \in [Senders -> TimerPcs \cup AnnouncerPcs]
    /\ \A t \in Timers : pc[t] \in TimerPcs
    /\ \A a \in Announcers : pc[a] \in AnnouncerPcs

\* A sender that moves to a place of its kind keeps the type of pc.
LEMMA MovePc ==
    ASSUME PcOK, NEW p \in Senders, NEW here, NEW there, At(p, here, there),
           p \in Timers => there \in TimerPcs,
           p \in Announcers => there \in AnnouncerPcs
    PROVE  PcOK'
<1>1. there \in TimerPcs \cup AnnouncerPcs
  BY DEF Senders
<1>2. pc' = [pc EXCEPT ![p] = there]
  BY DEF At
<1>3. pc' \in [Senders -> TimerPcs \cup AnnouncerPcs]
  BY <1>1, <1>2 DEF PcOK
<1>4. \A q \in Senders : pc'[q] = IF q = p THEN there ELSE pc[q]
  BY <1>2 DEF PcOK
<1>5. QED
  BY <1>3, <1>4 DEF PcOK, Senders

\* What sends with a result goes to a place of its kind.
LEMMA AfterSendPc ==
    ASSUME NEW p \in Senders, NEW b \in BOOLEAN
    PROVE  /\ p \in Timers => AfterSend(p, b) \in TimerPcs
           /\ p \in Announcers => AfterSend(p, b) \in AnnouncerPcs
BY TimersAssumption DEF AfterSend, TimerPcs, AnnouncerPcs

\* The steps of EmailService.send keep the types.
LEMMA SendType ==
    ASSUME TypeOK, NEW p \in Senders, SendStep(p)
    PROVE  TypeOK'
<1> USE DEF Unsent, uploads
<1>0. PcOK
  BY DEF TypeOK, PcOK
<1>1. CASE Count(p) \/ CountFails(p)
  <2>1. At(p, "count", "insert")
    BY <1>1 DEF Count, CountFails
  <2>2. PcOK'
    BY <1>0, <2>1, MovePc DEF TimerPcs, AnnouncerPcs
  <2>3. QED
    BY <1>1, <2>2 DEF TypeOK, PcOK, Count, CountFails
<1>2. CASE Refuse(p) \/ RenderFails(p)
  <2>1. PICK b \in BOOLEAN : At(p, "count", AfterSend(p, b))
    BY <1>2 DEF Refuse, RenderFails
  <2>2. PcOK'
    BY <1>0, <2>1, MovePc, AfterSendPc
  <2>3. QED
    BY <1>2, <2>2 DEF TypeOK, PcOK, Refuse, RenderFails
<1>3. CASE Insert(p) \/ InsertFails(p)
  <2>1. PICK b \in BOOLEAN : At(p, "insert", AfterSend(p, b))
    BY <1>3 DEF Insert, InsertFails
  <2>2. PcOK'
    BY <1>0, <2>1, MovePc, AfterSendPc
  <2>3. pending' \in 0 .. MaxPending
    <3>1. CASE InsertFails(p)
      BY <3>1 DEF InsertFails, TypeOK
    <3>2. CASE Insert(p)
      <4>1. pending < MaxPending /\ pending' = pending + 1
        BY <3>2 DEF Insert
      <4>2. QED
        BY <4>1, NoticesAssumption DEF TypeOK
    <3>3. QED
      BY <1>3, <3>1, <3>2
  <2>4. QED
    BY <1>3, <2>2, <2>3 DEF TypeOK, PcOK, Insert, InsertFails
<1>4. QED
  BY <1>1, <1>2, <1>3 DEF SendStep

\* An upload and the steps of a callback keep the types.
LEMMA UploadType ==
    ASSUME TypeOK, UploadStep
    PROVE  TypeOK'
<1>1. PICK f \in Files, s \in Sessions, t \in Timers : Upload(f, s, t)
  BY DEF UploadStep
<1>2. pc' = [p \in Senders |-> IF p = t THEN "armed" ELSE IF p \in Armed(s) THEN "free" ELSE pc[p]]
  BY <1>1 DEF Upload
<1>3. PcOK'
  BY <1>2, TimersAssumption DEF TypeOK, PcOK, Armed, TimerPcs, Senders
<1>4. gathered' \in [Sessions -> SUBSET Files]
  BY <1>1 DEF Upload, TypeOK
<1>5. QED
  BY <1>1, <1>3, <1>4 DEF Upload, TypeOK, PcOK

LEMMA TimerType ==
    ASSUME TypeOK, NEW t \in Timers, TimerStep(t), pc[t] # "free" => session[t] \in Sessions
    PROVE  TypeOK'
<1>0. PcOK /\ t \in Senders /\ t \notin Announcers
  BY TimersAssumption DEF TypeOK, PcOK, Senders
<1>1. CASE Fire(t) \/ SkipOwner(t)
  <2>1. PcOK'
    BY <1>0, <1>1, MovePc DEF Fire, SkipOwner, TimerPcs
  <2>2. QED
    BY <1>1, <2>1 DEF Fire, SkipOwner, Unsent, uploads, TypeOK, PcOK
<1>2. CASE Compose(t)
  <2>1. PcOK'
    BY <1>0, <1>2, MovePc DEF Compose, TimerPcs
  <2>2. Gathered(t) \in SUBSET Files
    BY <1>2 DEF Compose, At, Gathered, TypeOK
  <2>3. QED
    BY <1>2, <2>1, <2>2 DEF Compose, TypeOK, PcOK
<1>3. CASE DeleteSession(t)
  <2>1. PcOK'
    BY <1>0, <1>3, MovePc DEF DeleteSession, TimerPcs
  <2>2. gathered' \in [Sessions -> SUBSET Files]
    BY <1>3 DEF DeleteSession, TypeOK
  <2>3. QED
    BY <1>3, <2>1, <2>2 DEF DeleteSession, TypeOK, PcOK
<1>4. QED
  BY <1>1, <1>2, <1>3 DEF TimerStep

\* The announcements keep the types.
LEMMA AnnounceType ==
    ASSUME TypeOK, AnnounceStep
    PROVE  TypeOK'
<1> USE DEF Untouched, Unsent, uploads
<1>0. /\ PcOK /\ "daily" \in Senders /\ "cleanup" \in Senders
      /\ \A a \in Announcers : a \in Senders /\ a \notin Timers
      /\ "daily" \notin Timers /\ "cleanup" \notin Timers
  BY TimersAssumption DEF TypeOK, PcOK, Senders, Announcers
<1>1. CASE DailyFind
  <2>1. PcOK'
    BY <1>0, <1>1, MovePc DEF DailyFind, AnnouncerPcs
  <2>2. QED
    BY <1>1, <2>1 DEF DailyFind, TypeOK, PcOK
<1>2. CASE CleanupFind
  <2>1. PcOK'
    BY <1>0, <1>2, MovePc DEF CleanupFind, AnnouncerPcs
  <2>2. QED
    BY <1>2, <2>1 DEF CleanupFind, TypeOK, PcOK, ShareRows, States
<1>3. CASE Close
  <2>1. PICK there \in {"count", "idle"} : At("cleanup", "close", there)
    BY <1>3 DEF Close
  <2>2. PcOK'
    BY <1>0, <2>1, MovePc DEF AnnouncerPcs
  <2>3. share' \in ShareRows /\ selected' \in [state : States, flag : BOOLEAN]
    BY <1>3 DEF Close, TypeOK, ShareRows, States, Nothing
  <2>4. QED
    BY <1>3, <2>2, <2>3 DEF Close, TypeOK, PcOK
<1>4. CASE CloseFails
  <2>1. PcOK'
    BY <1>0, <1>4, MovePc DEF CloseFails, AnnouncerPcs
  <2>2. QED
    BY <1>4, <2>1 DEF CloseFails, TypeOK, PcOK, States, Nothing
<1>5. CASE \E a \in Announcers : Mark(a) \/ MarkFails(a)
  <2>1. PICK a \in Announcers : Mark(a) \/ MarkFails(a)
    BY <1>5
  <2>2. At(a, "mark", "idle")
    BY <2>1 DEF Mark, MarkFails
  <2>3. PcOK'
    BY <1>0, <2>2, MovePc DEF AnnouncerPcs
  <2>4. share' \in ShareRows
    BY <2>1 DEF Mark, MarkFails, TypeOK, ShareRows
  <2>5. QED
    BY <2>1, <2>3, <2>4 DEF Mark, MarkFails, TypeOK, PcOK
<1>6. QED
  BY <1>1, <1>2, <1>3, <1>4, <1>5 DEF AnnounceStep

\* The owner's steps and time keep the types.
LEMMA OwnerType ==
    ASSUME TypeOK, OwnerStep \/ Extend \/ Take \/ Expire
    PROVE  TypeOK'
<1> USE DEF uploads
<1>1. CASE OwnerRead
  BY <1>1 DEF OwnerRead, TypeOK, ShareRows
<1>2. CASE Pause
  BY <1>2 DEF Pause, TypeOK, ShareRows, States
<1>3. CASE \E new \in {"ahead", "past"}, b \in BOOLEAN : Redate(new, b)
  <2>1. PICK new \in {"ahead", "past"}, b \in BOOLEAN : Redate(new, b)
    BY <1>3
  <2>2. Revived(new) \in States
    BY DEF Revived, States, TypeOK, ShareRows
  <2>3. share' \in ShareRows
    BY <2>1, <2>2 DEF Redate, TypeOK, ShareRows, Dates
  <2>4. QED
    BY <2>1, <2>3 DEF Redate, TypeOK, Asleep, States
<1>4. CASE \E date \in Dates : Update(date)
  <2>1. PICK date \in Dates : Update(date)
    BY <1>4
  <2>2. Revived(date) \in States
    BY DEF Revived, States, TypeOK, ShareRows
  <2>3. share' \in ShareRows
    BY <2>1, <2>2 DEF Update, TypeOK, ShareRows
  <2>4. QED
    BY <2>1, <2>3 DEF Update, TypeOK, Asleep, States
<1>5. CASE Take
  BY <1>5, NoticesAssumption DEF Take, TypeOK
<1>6. CASE Expire
  BY <1>6 DEF Expire, TypeOK, ShareRows, Dates
<1>7. QED
  BY <1>1, <1>2, <1>3, <1>4, <1>5, <1>6 DEF OwnerStep, Extend

LEMMA ExitType ==
    ASSUME TypeOK, Exit
    PROVE  TypeOK'
<1>1. PcOK'
  BY TimersAssumption DEF Exit, Quiet, PcOK, TimerPcs, AnnouncerPcs, Senders
<1>2. QED
  BY <1>1 DEF Exit, TypeOK, PcOK, NoFiles, Asleep, Nothing, States

\* Every step keeps the types.
LEMMA StepType ==
    ASSUME TypeOK, TimersHold, Next
    PROVE  TypeOK'
<1>1. CASE \E p \in Senders : SendStep(p)
  BY <1>1, SendType
<1>2. CASE \E t \in Timers : TimerStep(t)
  BY <1>2, TimerType DEF TimersHold
<1>3. CASE UploadStep
  BY <1>3, UploadType
<1>4. CASE AnnounceStep
  BY <1>4, AnnounceType
<1>5. CASE OwnerStep \/ Extend \/ Take \/ Expire
  BY <1>5, OwnerType
<1>6. CASE Exit
  BY <1>6, ExitType
<1>7. QED
  BY <1>1, <1>2, <1>3, <1>4, <1>5, <1>6 DEF Next, Step

\* The history variables keep theirs.
LEMMA HistoryType ==
    ASSUME TypeOK, HistoryTypeOK, TimersHold, HistoryNext
    PROVE  HistoryTypeOK'
<1>1. CASE Step /\ RecordFiles /\ RecordEnd
  <2>1. \A t \in Timers : mail[t] \subseteq Files
    BY DEF TypeOK
  <2>2. \A t \in Timers : pc[t] = "read" => gathered[session[t]] \subseteq Files
    BY DEF TypeOK, TimersHold
  <2>3. told' \subseteq Files
    BY <1>1, <2>1 DEF RecordFiles, HistoryTypeOK
  <2>4. dropped' \subseteq Files
    BY <1>1, <2>1, <2>2 DEF RecordFiles, HistoryTypeOK
  <2>5. overtaken' \subseteq Senders
    BY <1>1 DEF RecordFiles
  <2>6. QED
    BY <1>1, <2>3, <2>4, <2>5 DEF RecordEnd, HistoryTypeOK
<1>2. CASE Extend /\ RecordExtension
  BY <1>2 DEF RecordExtension, HistoryTypeOK
<1>3. CASE Exit /\ RecordExit
  BY <1>3 DEF RecordExit, HistoryTypeOK, TypeOK
<1>4. QED
  BY <1>1, <1>2, <1>3 DEF HistoryNext

-----------------------------------------------------------------------------
(* The files of a reverse share.                                           *)

\* A step that leaves the timers, and what they work on, alone.
TimersRest == UNCHANGED uploads /\ \A t \in Timers : pc'[t] = pc[t]

\* What the announcers do is nothing to the timers.
LEMMA OthersRest ==
    ASSUME TypeOK,
           \/ \E a \in Announcers : SendStep(a)
           \/ AnnounceStep \/ OwnerStep \/ Extend \/ Take \/ Expire
    PROVE  TimersRest
<1>0. /\ \A t \in Timers, a \in Announcers : t # a
      /\ \A t \in Timers : t \in Senders
      /\ "daily" \in Announcers /\ "cleanup" \in Announcers
      /\ pc \in [Senders -> TimerPcs \cup AnnouncerPcs]
  BY TimersAssumption DEF Senders, Announcers, TypeOK
<1>1. CASE \E a \in Announcers : SendStep(a)
  <2>1. PICK a \in Announcers : SendStep(a)
    BY <1>1
  <2>2. UNCHANGED uploads
    BY <2>1 DEF SendStep, Count, CountFails, Refuse, RenderFails, Insert, InsertFails, Unsent
  <2>3. PICK here, there : At(a, here, there)
    BY <2>1 DEF SendStep, Count, CountFails, Refuse, RenderFails, Insert, InsertFails
  <2>4. QED
    BY <1>0, <2>2, <2>3 DEF TimersRest, At
<1>2. CASE AnnounceStep
  <2>1. UNCHANGED uploads
    BY <1>2 DEF AnnounceStep, DailyFind, CleanupFind, Close, CloseFails, Mark, MarkFails,
                Unsent, Untouched
  <2>2. PICK a \in Announcers : \E here, there : At(a, here, there)
    BY <1>0, <1>2 DEF AnnounceStep, DailyFind, CleanupFind, Close, CloseFails, Mark, MarkFails
  <2>3. QED
    BY <1>0, <2>1, <2>2 DEF TimersRest, At
<1>3. CASE OwnerStep \/ Extend \/ Take \/ Expire
  BY <1>3 DEF OwnerStep, Extend, OwnerRead, Pause, Redate, Update, Take, Expire, TimersRest, uploads
<1>4. QED
  BY <1>1, <1>2, <1>3

\* The session of a timer in use is held by it.
LEMMA StepHolds ==
    ASSUME TypeOK, TimersHold, Next
    PROVE  TimersHold'
<1>0. \A t \in Timers : t \in Senders
  BY DEF Senders
<1>1. CASE \/ \E a \in Announcers : SendStep(a)
           \/ AnnounceStep \/ OwnerStep \/ Extend \/ Take \/ Expire
  BY <1>1, OthersRest DEF TimersRest, TimersHold, uploads
<1>2. CASE \E t \in Timers : SendStep(t)
  <2>1. PICK t \in Timers : SendStep(t)
    BY <1>2
  <2>2. UNCHANGED session
    BY <2>1 DEF SendStep, Count, CountFails, Refuse, RenderFails, Insert, InsertFails, Unsent, uploads
  <2>3. PICK here \in {"count", "insert"} : \E there : At(t, here, there)
    BY <2>1 DEF SendStep, Count, CountFails, Refuse, RenderFails, Insert, InsertFails
  <2>4. QED
    BY <1>0, <2>2, <2>3 DEF TimersHold, At, TypeOK
<1>3. CASE \E t \in Timers : Fire(t) \/ Compose(t) \/ SkipOwner(t)
  <2>1. PICK t \in Timers : Fire(t) \/ Compose(t) \/ SkipOwner(t)
    BY <1>3
  <2>2. UNCHANGED session
    BY <2>1 DEF Fire, Compose, SkipOwner, Unsent, uploads
  <2>3. PICK here \in {"armed", "read"} : \E there : At(t, here, there)
    BY <2>1 DEF Fire, Compose, SkipOwner
  <2>4. QED
    BY <1>0, <2>2, <2>3 DEF TimersHold, At, TypeOK
<1>4. CASE \E t \in Timers : DeleteSession(t)
  BY <1>0, <1>4 DEF DeleteSession, TimersHold, At, TypeOK
<1>5. CASE UploadStep
  BY <1>0, <1>5 DEF UploadStep, Upload, TimersHold, TypeOK
<1>6. CASE Exit
  BY <1>0, <1>6 DEF Exit, Quiet, TimersHold
<1>7. QED
  BY <1>1, <1>2, <1>3, <1>4, <1>5, <1>6 DEF Next, Step, TimerStep, Senders

\* A file waits for the callback of a timer, or for its mail.
Waits(f, t) ==
    \/ pc[t] \in {"armed", "read"} /\ f \in gathered[session[t]]
    \/ pc[t] \in {"count", "insert"} /\ f \in mail[t]

\* A step of a callback passes the files on, or records what became of them.
LEMMA SendKeepsFiles ==
    ASSUME TypeOK, TimersHold, NEW t \in Timers, SendStep(t), RecordFiles,
           NEW f \in Files, NEW u \in Timers, Waits(f, u)
    PROVE  f \in told' \cup dropped' \/ Waits(f, u)'
<1>0. t \in Senders /\ u \in Senders
  BY DEF Senders
<1>1. UNCHANGED <<gathered, session, mail>>
  BY DEF SendStep, Count, CountFails, Refuse, RenderFails, Insert, InsertFails, Unsent, uploads
<1>2. CASE Count(t) \/ CountFails(t)
  <2>1. At(t, "count", "insert")
    BY <1>2 DEF Count, CountFails
  <2>2. QED
    BY <1>0, <1>1, <2>1 DEF At, TypeOK, Waits
<1>3. CASE Refuse(t) \/ RenderFails(t)
  <2>1. pc[t] = "count" /\ pc' = [pc EXCEPT ![t] = "delete"]
    BY <1>3 DEF Refuse, RenderFails, At, AfterSend
  <2>2. GivesUp(t)
    BY <1>0, <2>1 DEF GivesUp, Inserts, TypeOK
  <2>3. mail[t] \subseteq dropped'
    BY <2>1, <2>2 DEF RecordFiles
  <2>4. QED
    BY <1>0, <1>1, <2>1, <2>3 DEF TypeOK, Waits
<1>4. CASE Insert(t)
  <2>1. pc[t] = "insert" /\ pc' = [pc EXCEPT ![t] = "delete"] /\ pending' = pending + 1
    BY <1>4 DEF Insert, At, AfterSend
  <2>2. Inserts(t)
    BY <1>0, <2>1, NoticesAssumption DEF Inserts, TypeOK
  <2>3. mail[t] \subseteq told'
    BY <2>2 DEF RecordFiles
  <2>4. QED
    BY <1>0, <1>1, <2>1, <2>3 DEF TypeOK, Waits
<1>5. CASE InsertFails(t)
  <2>1. pc[t] = "insert" /\ pc' = [pc EXCEPT ![t] = "delete"] /\ pending' = pending
    BY <1>5 DEF InsertFails, At, AfterSend
  <2>2. GivesUp(t)
    BY <1>0, <2>1, NoticesAssumption DEF GivesUp, Inserts, TypeOK
  <2>3. mail[t] \subseteq dropped'
    BY <2>1, <2>2 DEF RecordFiles
  <2>4. QED
    BY <1>0, <1>1, <2>1, <2>3 DEF TypeOK, Waits
<1>6. QED
  BY <1>2, <1>3, <1>4, <1>5 DEF SendStep

LEMMA TimerKeepsFiles ==
    ASSUME TypeOK, TimersHold, NEW t \in Timers, TimerStep(t), RecordFiles,
           NEW f \in Files, NEW u \in Timers, Waits(f, u)
    PROVE  f \in told' \cup dropped' \/ Waits(f, u)'
<1>0. t \in Senders /\ u \in Senders
  BY DEF Senders
<1>1. CASE Fire(t)
  BY <1>0, <1>1 DEF Fire, At, Unsent, uploads, Waits, TypeOK
<1>2. CASE Compose(t)
  BY <1>0, <1>2 DEF Compose, Gathered, At, Waits, TypeOK
<1>3. CASE SkipOwner(t)
  <2>1. /\ pc[t] = "read" /\ pc' = [pc EXCEPT ![t] = "delete"]
        /\ UNCHANGED <<gathered, session, mail, pending>>
    BY <1>3 DEF SkipOwner, At, Unsent, uploads
  <2>2. GivesUp(t)
    BY <1>0, <2>1 DEF GivesUp, Inserts, TypeOK
  <2>3. gathered[session[t]] \subseteq dropped'
    BY <2>1, <2>2 DEF RecordFiles
  <2>4. QED
    BY <1>0, <2>1, <2>3 DEF TypeOK, Waits
<1>4. CASE DeleteSession(t)
  <2>1. u # t /\ pc'[u] = pc[u] /\ session'[u] = session[u] /\ mail'[u] = mail[u]
    BY <1>0, <1>4 DEF DeleteSession, At, Waits, TypeOK
  <2>2. session[u] \in Sessions /\ pc[u] # "free"
    BY DEF TimersHold, Waits
  <2>3. \E v \in Timers : pc'[v] # "free" /\ session'[v] = session[u]
    BY <2>1, <2>2
  <2>4. gathered'[session[u]] = gathered[session[u]]
    BY <1>4, <2>2, <2>3 DEF DeleteSession, Held
  <2>5. QED
    BY <2>1, <2>4 DEF Waits
<1>5. QED
  BY <1>1, <1>2, <1>3, <1>4 DEF TimerStep

\* An upload joins the files that wait; whoever waited for a timer that is
\* cleared waits for the new one.
LEMMA UploadKeepsFiles ==
    ASSUME TypeOK, TimersHold, NEW g \in Files, NEW s \in Sessions, NEW t \in Timers,
           Upload(g, s, t)
    PROVE  /\ Waits(g, t)'
           /\ \A f \in Files, u \in Timers : Waits(f, u) => \E v \in Timers : Waits(f, v)'
<1>0. \A u \in Timers : u \in Senders
  BY DEF Senders
<1>1. /\ \A u \in Timers : pc'[u] = IF u = t THEN "armed" ELSE IF u \in Armed(s) THEN "free" ELSE pc[u]
      /\ session' = [session EXCEPT ![t] = s]
      /\ gathered' = [gathered EXCEPT ![s] = IF current = s THEN @ \cup {g} ELSE {g}]
      /\ mail' = mail
      /\ pc[t] = "free" \/ t \in Armed(s)
      /\ current # s => s \in Unused
  BY <1>0 DEF Upload
<1>2. session'[t] = s /\ g \in gathered'[s] /\ pc'[t] = "armed"
  BY <1>1 DEF TypeOK
<1>3. ASSUME NEW f \in Files, NEW u \in Timers, Waits(f, u)
      PROVE  \E v \in Timers : Waits(f, v)'
  <2>1. pc[u] # "free"
    BY <1>3 DEF Waits
  <2>2. CASE session[u] = s
    <3>1. current = s
      BY <1>1, <2>1, <2>2 DEF Unused
    <3>2. gathered[s] \subseteq gathered'[s]
      BY <1>1, <3>1 DEF TypeOK
    <3>3. CASE pc[u] \in {"armed", "read"}
      <4>1. f \in gathered'[s]
        BY <1>3, <2>2, <3>2, <3>3 DEF Waits
      <4>2. QED
        BY <1>2, <4>1 DEF Waits
    <3>4. CASE pc[u] \in {"count", "insert"}
      <4>1. u # t /\ u \notin Armed(s)
        BY <1>1, <3>4 DEF Armed
      <4>2. QED
        BY <1>1, <1>3, <3>4, <4>1 DEF Waits
    <3>5. QED
      BY <1>3, <3>3, <3>4 DEF Waits
  <2>3. CASE session[u] # s
    <3>1. u # t /\ u \notin Armed(s)
      BY <1>1, <2>1, <2>3 DEF Armed
    <3>2. session'[u] = session[u] /\ pc'[u] = pc[u]
      BY <1>1, <3>1 DEF TypeOK
    <3>3. session[u] \in Sessions
      BY <2>1 DEF TimersHold
    <3>4. gathered'[session[u]] = gathered[session[u]]
      BY <1>1, <2>3, <3>3 DEF TypeOK
    <3>5. QED
      BY <1>1, <1>3, <3>2, <3>4 DEF Waits
  <2>4. QED
    BY <2>2, <2>3
<1>4. QED
  BY <1>2, <1>3 DEF Waits

LEMMA StepKeepsFiles ==
    ASSUME TypeOK, TimersHold, NoFileForgotten, HistoryNext
    PROVE  NoFileForgotten'
<1>0. \A f \in arrived \ (told \cup dropped) : f \in Files /\ \E t \in Timers : Waits(f, t)
  BY DEF NoFileForgotten, Waits, TypeOK
<1>1. SUFFICES \A f \in arrived' \ (told' \cup dropped') : \E t \in Timers : Waits(f, t)'
  BY DEF NoFileForgotten, Waits
<1>2. CASE Step /\ RecordFiles /\ RecordEnd
  <2>1. told \subseteq told' /\ dropped \subseteq dropped'
    BY <1>2 DEF RecordFiles
  <2>2. CASE UploadStep
    <3>1. PICK g \in Files, s \in Sessions, t \in Timers : Upload(g, s, t)
      BY <2>2 DEF UploadStep
    <3>2. arrived' = arrived \cup {g}
      BY <3>1 DEF Upload
    <3>3. QED
      BY <1>0, <2>1, <3>1, <3>2, UploadKeepsFiles
  <2>3. CASE \E t \in Timers : SendStep(t)
    <3>1. arrived' = arrived
      BY <2>3 DEF SendStep, Count, CountFails, Refuse, RenderFails, Insert, InsertFails, Unsent, uploads
    <3>2. QED
      BY <1>0, <1>2, <2>1, <2>3, <3>1, SendKeepsFiles
  <2>4. CASE \E t \in Timers : TimerStep(t)
    <3>1. arrived' = arrived
      BY <2>4 DEF TimerStep, Fire, Compose, SkipOwner, DeleteSession, Unsent, uploads
    <3>2. QED
      BY <1>0, <1>2, <2>1, <2>4, <3>1, TimerKeepsFiles
  <2>5. CASE \/ \E a \in Announcers : SendStep(a)
             \/ AnnounceStep \/ OwnerStep \/ Extend \/ Take \/ Expire
    <3>1. TimersRest
      BY <2>5, OthersRest
    <3>2. QED
      BY <1>0, <2>1, <3>1 DEF TimersRest, uploads, Waits
  <2>6. QED
    BY <1>2, <2>2, <2>3, <2>4, <2>5 DEF Step, Senders
<1>3. CASE Extend /\ RecordExtension
  <2>1. TimersRest
    BY <1>3, OthersRest
  <2>2. QED
    BY <1>0, <1>3, <2>1 DEF TimersRest, uploads, Waits, RecordExtension
<1>4. CASE Exit /\ RecordExit
  BY <1>4 DEF Exit, RecordExit
<1>5. QED
  BY <1>2, <1>3, <1>4 DEF HistoryNext

-----------------------------------------------------------------------------
(* The cap of the queue.                                                   *)

\* A sender that has counted finds room until another one inserts.
LEMMA StepKeepsRoom ==
    ASSUME TypeOK, RoomIsKept, HistoryNext
    PROVE  RoomIsKept'
<1>0. pending \in Int /\ Depth \in Int /\ \A t \in Timers : t \in Senders
  BY NoticesAssumption DEF TypeOK, Senders
<1>1. CASE Step /\ RecordFiles /\ RecordEnd
  <2>1. SUFFICES ASSUME NEW p \in Senders, p \notin overtaken', pc'[p] = "insert"
                 PROVE  pending' < Depth
    BY DEF RoomIsKept
  <2>2. /\ p \notin overtaken
        /\ \A q \in Senders \ {p} : ~Inserts(q)
        /\ pc[p] = "count" => HasRoom
    BY <1>1, <2>1 DEF RecordFiles
  <2>3. CASE \E q \in Senders : Insert(q)
    <3>1. PICK q \in Senders : Insert(q)
      BY <2>3
    <3>2. At(q, "insert", AfterSend(q, TRUE)) /\ pending' = pending + 1
      BY <3>1 DEF Insert
    <3>3. pc'[q] # "insert" /\ pc[q] = "insert"
      BY <3>2 DEF At, AfterSend, TypeOK
    <3>4. pending' > pending
      BY <1>0, <3>2
    <3>5. Inserts(q)
      BY <3>3, <3>4 DEF Inserts
    <3>6. QED
      BY <2>1, <2>2, <3>3, <3>5
  <2>4. CASE \E q \in Senders : Count(q) \/ CountFails(q)
    <3>1. PICK q \in Senders : Count(q) \/ CountFails(q)
      BY <2>4
    <3>2. At(q, "count", "insert") /\ pending' = pending
      BY <3>1 DEF Count, CountFails
    <3>3. p # q => pc[p] = "insert"
      BY <2>1, <3>2 DEF At, TypeOK
    <3>4. p = q => HasRoom
      BY <2>2, <3>2 DEF At
    <3>5. QED
      BY <2>2, <3>2, <3>3, <3>4 DEF RoomIsKept, HasRoom
  <2>5. ASSUME pc[p] = "insert", pending' <= pending, pending' \in Int
        PROVE  pending' < Depth
    BY <1>0, <2>2, <2>5 DEF RoomIsKept
  <2>6. CASE Take
    BY <1>0, <2>1, <2>5, <2>6 DEF Take
  <2>7. CASE \E q \in Senders : Refuse(q) \/ RenderFails(q) \/ InsertFails(q)
    <3>1. PICK q \in Senders : Refuse(q) \/ RenderFails(q) \/ InsertFails(q)
      BY <2>7
    <3>2. pending' = pending
      BY <3>1 DEF Refuse, RenderFails, InsertFails
    <3>3. PICK here, there : At(q, here, there) /\ there # "insert"
      BY <3>1 DEF Refuse, RenderFails, InsertFails, AfterSend
    <3>4. pc[p] = "insert"
      BY <2>1, <3>3 DEF At, TypeOK
    <3>5. QED
      BY <1>0, <2>5, <3>2, <3>4
  <2>8. CASE UploadStep \/ \E t \in Timers : TimerStep(t)
    <3>1. pending' = pending
      BY <2>8 DEF UploadStep, Upload, TimerStep, Fire, Compose, SkipOwner, DeleteSession
    <3>2. CASE UploadStep
      <4>1. pc[p] = "insert"
        BY <2>1, <3>2 DEF UploadStep, Upload
      <4>2. QED
        BY <1>0, <2>5, <3>1, <4>1
    <3>3. CASE \E t \in Timers : TimerStep(t)
      <4>1. PICK t \in Timers : \E here, there : At(t, here, there) /\ there # "insert"
        BY <3>3 DEF TimerStep, Fire, Compose, SkipOwner, DeleteSession
      <4>2. pc[p] = "insert"
        BY <2>1, <4>1 DEF At, TypeOK
      <4>3. QED
        BY <1>0, <2>5, <3>1, <4>2
    <3>4. QED
      BY <2>8, <3>2, <3>3
  <2>9. CASE AnnounceStep
    <3>1. pending' = pending
      BY <2>9 DEF AnnounceStep, DailyFind, CleanupFind, Close, CloseFails, Mark, MarkFails, Untouched
    <3>2. PICK a \in Announcers : \E here, there : At(a, here, there) /\ there # "insert"
      BY <2>9 DEF AnnounceStep, DailyFind, CleanupFind, Close, CloseFails, Mark, MarkFails, Announcers
    <3>3. pc[p] = "insert"
      BY <2>1, <3>2 DEF At, TypeOK
    <3>4. QED
      BY <1>0, <2>5, <3>1, <3>3
  <2>10. CASE OwnerStep \/ Expire
    <3>1. pc' = pc /\ pending' = pending
      BY <2>10 DEF OwnerStep, OwnerRead, Pause, Redate, Update, Expire
    <3>2. QED
      BY <1>0, <2>1, <2>5, <3>1
  <2>11. QED
    BY <1>1, <2>3, <2>4, <2>6, <2>7, <2>8, <2>9, <2>10 DEF Step, SendStep
<1>2. CASE Extend /\ RecordExtension
  BY <1>2 DEF Extend, Redate, RecordExtension, RoomIsKept
<1>3. CASE Exit /\ RecordExit
  BY <1>3 DEF Exit, Quiet, RoomIsKept
<1>4. QED
  BY <1>1, <1>2, <1>3 DEF HistoryNext

-----------------------------------------------------------------------------
(* The end of a share.                                                     *)

\* A step that leaves the announcers, and what they work on, alone.
AnnouncersRest == UNCHANGED <<share, selected>> /\ \A a \in Announcers : pc'[a] = pc[a]

\* What the timers do is nothing to the announcers.
LEMMA TimersLeaveAnnouncers ==
    ASSUME TypeOK,
           \/ \E t \in Timers : SendStep(t) \/ TimerStep(t)
           \/ UploadStep \/ Take
    PROVE  AnnouncersRest
<1>0. /\ \A t \in Timers, a \in Announcers : t # a
      /\ \A a \in Announcers : a \in Senders /\ a \notin Timers
  BY TimersAssumption DEF Senders
<1>1. CASE \E t \in Timers : SendStep(t) \/ TimerStep(t)
  <2>1. PICK t \in Timers : SendStep(t) \/ TimerStep(t)
    BY <1>1
  <2>2. UNCHANGED <<share, selected>>
    BY <2>1 DEF SendStep, Count, CountFails, Refuse, RenderFails, Insert, InsertFails,
                TimerStep, Fire, Compose, SkipOwner, DeleteSession, Unsent
  <2>3. PICK here, there : At(t, here, there)
    BY <2>1 DEF SendStep, Count, CountFails, Refuse, RenderFails, Insert, InsertFails,
                TimerStep, Fire, Compose, SkipOwner, DeleteSession
  <2>4. QED
    BY <1>0, <2>2, <2>3 DEF AnnouncersRest, At, TypeOK
<1>2. CASE UploadStep
  <2>1. PICK f \in Files, s \in Sessions, t \in Timers : Upload(f, s, t)
    BY <1>2 DEF UploadStep
  <2>2. UNCHANGED <<share, selected>>
    BY <2>1 DEF Upload
  <2>3. \A a \in Announcers : pc'[a] = pc[a]
    BY <1>0, <2>1 DEF Upload, Armed
  <2>4. QED
    BY <2>2, <2>3 DEF AnnouncersRest
<1>3. CASE Take
  BY <1>3 DEF Take, AnnouncersRest
<1>4. QED
  BY <1>1, <1>2, <1>3

\* The records of the end are monotone while the end stays.
LEMMA RecordsOfTheEnd ==
    ASSUME HistoryTypeOK, RecordEnd
    PROVE  /\ announced => announced'
           /\ unmarked => unmarked'
           /\ wasted => wasted'
           /\ \A a \in Announcers : pc'[a] # "idle" =>
                /\ a \in void => a \in void'
                /\ a \in paired => a \in paired'
BY DEF RecordEnd, InFlight, HistoryTypeOK

EndInv == MarksMean /\ FlagIsEarned /\ AnnouncementShows /\ RepeatsArePaired

\* A step that is nobody's announcement changes nothing about the end.
LEMMA EndRests ==
    ASSUME HistoryTypeOK, RecordEnd, EndInv,
           UNCHANGED selected, share'.flag = share.flag,
           \A a \in Announcers : pc'[a] = pc[a]
    PROVE  EndInv'
<1>1. announced' = announced
  BY DEF RecordEnd, Inserts, HistoryTypeOK
<1>2. unmarked' = unmarked
  BY DEF RecordEnd, Moves, HistoryTypeOK
<1>3. MarksMean'
  BY <1>1, RecordsOfTheEnd DEF EndInv, MarksMean
<1>4. FlagIsEarned'
  BY RecordsOfTheEnd DEF EndInv, FlagIsEarned
<1>5. AnnouncementShows'
  BY <1>1, <1>2 DEF EndInv, AnnouncementShows
<1>6. RepeatsArePaired'
  <2>1. ASSUME announced', ~unmarked', NEW a \in Announcers \ void', Announcing(a)'
        PROVE  a \in paired'
    <3>1. Announcing(a) /\ pc'[a] # "idle"
      BY <2>1 DEF Announcing
    <3>2. a \notin void
      BY <2>1, <3>1, RecordsOfTheEnd
    <3>3. a \in paired
      BY <1>1, <1>2, <2>1, <3>1, <3>2 DEF EndInv, RepeatsArePaired
    <3>4. QED
      BY <2>1, <3>1, <3>3, RecordsOfTheEnd
  <2>2. QED
    BY <2>1 DEF RepeatsArePaired
<1>7. QED
  BY <1>3, <1>4, <1>5, <1>6 DEF EndInv

\* What one announcer does: the others stay where they are.
OnlyMoves(a, here, there) ==
    /\ a \in Announcers /\ pc[a] = here /\ pc'[a] = there
    /\ \A b \in Announcers \ {a} : pc'[b] = pc[b]

LEMMA MovesAlone ==
    ASSUME TypeOK, NEW a \in Announcers, NEW here, NEW there, At(a, here, there)
    PROVE  OnlyMoves(a, here, there)
BY DEF At, OnlyMoves, TypeOK, Senders

\* Two announcers in flight have met.
LEMMA Meeting ==
    ASSUME HistoryTypeOK, RecordEnd, NEW a \in Announcers, NEW b \in Announcers, a # b,
           pc'[a] # "idle", pc'[b] # "idle"
    PROVE  a \in paired' /\ b \in paired'
<1>1. \A c \in Announcers : c = a \/ c = b
  BY DEF Announcers
<1>2. \A c \in Announcers : InFlight(c)'
  BY <1>1 DEF InFlight
<1>3. QED
  BY <1>2 DEF RecordEnd

\* An announcer inserts the mail about the end.
LEMMA EndInserts ==
    ASSUME HistoryTypeOK, RecordEnd, EndInv, UNCHANGED <<share, selected>>,
           NEW a, OnlyMoves(a, "insert", "mark"), pending' > pending
    PROVE  EndInv'
<1>0. a \in Announcers /\ Inserts(a) /\ \A b \in Announcers \ {a} : pc'[b] = pc[b]
  BY DEF OnlyMoves, Inserts
<1>1. a \notin void => announced'
  BY <1>0 DEF RecordEnd
<1>2. unmarked' = unmarked
  BY DEF RecordEnd, Moves, HistoryTypeOK, OnlyMoves
<1>3. MarksMean'
  BY <1>0, <1>1, RecordsOfTheEnd DEF EndInv, MarksMean, OnlyMoves
<1>4. FlagIsEarned'
  BY RecordsOfTheEnd DEF EndInv, FlagIsEarned
<1>5. AnnouncementShows'
  BY <1>0 DEF AnnouncementShows, OnlyMoves
<1>6. RepeatsArePaired'
  <2>1. ASSUME NEW b \in Announcers \ void', Announcing(b)'
        PROVE  b \in paired'
    <3>1. b # a /\ pc'[b] # "idle" /\ pc'[a] # "idle"
      BY <2>1 DEF Announcing, OnlyMoves
    <3>2. QED
      BY <1>0, <2>1, <3>1, Meeting
  <2>2. QED
    BY <2>1 DEF RepeatsArePaired
<1>7. QED
  BY <1>3, <1>4, <1>5, <1>6 DEF EndInv

\* An announcer that has sent nothing goes on, or gives up.
LEMMA EndGoesOn ==
    ASSUME HistoryTypeOK, RecordEnd, EndInv, share'.flag = share.flag,
           NEW a, NEW here \in {"close", "count", "insert"},
           NEW there \in {"idle", "count", "insert", "mark"}, OnlyMoves(a, here, there),
           here = "insert" => there = "idle",
           there = "mark" => here = "count",
           here = "close" => a = "cleanup" /\ there \in {"idle", "count"},
           here = "close" /\ there = "count" => ~selected.flag,
           here # "close" => UNCHANGED selected,
           pending \in Int, pending' = pending
    PROVE  EndInv'
<1>0. /\ a \in Announcers /\ pc[a] = here /\ pc'[a] = there
      /\ \A b \in Announcers \ {a} : pc'[b] = pc[b]
  BY DEF OnlyMoves
<1>1. announced' = announced
  <2>1. \A b \in Announcers : ~Inserts(b)
    <3>1. ~Inserts(a)
      BY DEF Inserts, TypeOK
    <3>2. QED
      BY <1>0, <3>1 DEF Inserts
  <2>2. QED
    BY <2>1 DEF RecordEnd, HistoryTypeOK
<1>2. unmarked' = unmarked
  BY <1>0 DEF RecordEnd, Moves, HistoryTypeOK
<1>3. MarksMean'
  <2>1. ASSUME there = "mark"
        PROVE  a \in void'
    BY <1>0, <2>1 DEF RecordEnd, Moves, InFlight
  <2>2. QED
    BY <1>0, <1>1, <2>1, RecordsOfTheEnd DEF EndInv, MarksMean
<1>4. FlagIsEarned'
  BY RecordsOfTheEnd DEF EndInv, FlagIsEarned
<1>5. AnnouncementShows'
  BY <1>0, <1>1, <1>2 DEF EndInv, AnnouncementShows
<1>6. RepeatsArePaired'
  <2>1. ASSUME announced', ~unmarked', NEW b \in Announcers \ void', Announcing(b)'
        PROVE  b \in paired'
    <3>1. pc'[b] # "idle" /\ b \notin void
      <4>1. pc'[b] # "idle"
        BY <2>1 DEF Announcing
      <4>2. QED
        BY <2>1, <4>1, RecordsOfTheEnd
    <3>2. Announcing(b)
      <4>1. CASE b = a
        BY <1>0, <2>1, <4>1 DEF Announcing
      <4>2. CASE b # a /\ pc[b] \in {"count", "insert"}
        BY <4>2 DEF Announcing
      <4>3. CASE b # a /\ pc[b] \notin {"count", "insert"}
        BY <1>0, <2>1, <4>3 DEF Announcing
      <4>4. QED
        BY <4>1, <4>2, <4>3
    <3>3. b \in paired
      BY <1>1, <1>2, <2>1, <3>1, <3>2 DEF EndInv, RepeatsArePaired
    <3>4. QED
      BY <2>1, <3>1, <3>3, RecordsOfTheEnd
  <2>2. QED
    BY <2>1 DEF RepeatsArePaired
<1>7. QED
  BY <1>3, <1>4, <1>5, <1>6 DEF EndInv

\* An announcer finds an end that is not marked, or that it will not announce.
LEMMA EndFound ==
    ASSUME HistoryTypeOK, RecordEnd, EndInv, UNCHANGED share,
           NEW a, NEW there \in {"close", "count"}, OnlyMoves(a, "idle", there),
           there = "count" => ~share.flag /\ UNCHANGED selected,
           there = "close" => a = "cleanup" /\ selected'.flag = share.flag
    PROVE  EndInv'
<1>0. /\ a \in Announcers /\ pc[a] = "idle" /\ pc'[a] = there
      /\ \A b \in Announcers \ {a} : pc'[b] = pc[b]
  BY DEF OnlyMoves
<1>1. announced' = announced
  BY <1>0 DEF RecordEnd, Inserts, HistoryTypeOK
<1>2. unmarked' = unmarked
  BY <1>0 DEF RecordEnd, Moves, HistoryTypeOK
<1>3. MarksMean'
  BY <1>0, <1>1, RecordsOfTheEnd DEF EndInv, MarksMean
<1>4. FlagIsEarned'
  BY RecordsOfTheEnd DEF EndInv, FlagIsEarned
<1>5. AnnouncementShows'
  BY <1>0, <1>1, <1>2 DEF EndInv, AnnouncementShows
<1>6. RepeatsArePaired'
  <2>1. ASSUME announced', ~unmarked', NEW b \in Announcers \ void', Announcing(b)'
        PROVE  b \in paired'
    <3>1. pc'[b] # "idle"
      BY <2>1 DEF Announcing
    <3>2. CASE b = a
      <4>1. ~share.flag
        BY <1>0, <2>1, <3>2 DEF Announcing
      <4>2. PICK c \in Announcers : pc[c] = "mark"
        BY <1>1, <1>2, <2>1, <4>1 DEF EndInv, AnnouncementShows
      <4>3. c # a /\ pc'[c] # "idle"
        BY <1>0, <4>2
      <4>4. QED
        BY <1>0, <3>1, <3>2, <4>3, Meeting
    <3>3. CASE b # a
      <4>1. pc'[b] = pc[b]
        BY <1>0, <3>3
      <4>2. Announcing(b)
        BY <1>0, <2>1, <3>3, <4>1 DEF Announcing
      <4>3. b \notin void
        BY <2>1, <3>1, RecordsOfTheEnd
      <4>4. b \in paired
        BY <1>1, <1>2, <2>1, <4>2, <4>3 DEF EndInv, RepeatsArePaired
      <4>5. QED
        BY <2>1, <3>1, <4>4, RecordsOfTheEnd
    <3>4. QED
      BY <3>2, <3>3
  <2>2. QED
    BY <2>1 DEF RepeatsArePaired
<1>7. QED
  BY <1>3, <1>4, <1>5, <1>6 DEF EndInv

\* An announcer marks the share, or fails to.
LEMMA EndMarked ==
    ASSUME HistoryTypeOK, RecordEnd, EndInv, UNCHANGED selected,
           NEW a, OnlyMoves(a, "mark", "idle"), share'.flag \/ share'.flag = share.flag
    PROVE  EndInv'
<1>0. /\ a \in Announcers /\ pc[a] = "mark" /\ pc'[a] = "idle"
      /\ \A b \in Announcers \ {a} : pc'[b] = pc[b]
  BY DEF OnlyMoves
<1>1. announced' = announced
  BY <1>0 DEF RecordEnd, Inserts, HistoryTypeOK
<1>2. unmarked' = (unmarked \/ ~share'.flag)
  BY <1>0 DEF RecordEnd, Moves, HistoryTypeOK
<1>3. MarksMean'
  BY <1>0, <1>1, RecordsOfTheEnd DEF EndInv, MarksMean
<1>4. FlagIsEarned'
  <2>1. CASE share'.flag /\ a \in void
    BY <1>0, <2>1 DEF RecordEnd, Marks, Moves, FlagIsEarned
  <2>2. CASE share'.flag /\ a \notin void
    BY <1>0, <1>1, <2>2 DEF EndInv, MarksMean, FlagIsEarned
  <2>3. QED
    BY <2>1, <2>2 DEF FlagIsEarned
<1>5. AnnouncementShows'
  BY <1>2 DEF AnnouncementShows
<1>6. RepeatsArePaired'
  <2>1. ASSUME announced', ~unmarked', NEW b \in Announcers \ void', Announcing(b)'
        PROVE  b \in paired'
    <3>1. pc'[b] # "idle" /\ Announcing(b)
      BY <1>0, <2>1 DEF Announcing
    <3>2. b \notin void
      BY <2>1, <3>1, RecordsOfTheEnd
    <3>3. b \in paired
      BY <1>1, <1>2, <2>1, <3>1, <3>2 DEF EndInv, RepeatsArePaired
    <3>4. QED
      BY <2>1, <3>1, <3>3, RecordsOfTheEnd
  <2>2. QED
    BY <2>1 DEF RepeatsArePaired
<1>7. QED
  BY <1>3, <1>4, <1>5, <1>6 DEF EndInv

\* The mail about the end, sent by an announcer.
LEMMA EndSends ==
    ASSUME TypeOK, HistoryTypeOK, RecordEnd, EndInv, NEW a \in Announcers, SendStep(a)
    PROVE  EndInv'
<1>0. /\ UNCHANGED <<share, selected>> /\ a \in Senders /\ a \notin Timers
      /\ pending \in Int
  <2>1. UNCHANGED <<share, selected>>
    BY DEF SendStep, Count, CountFails, Refuse, RenderFails, Insert, InsertFails, Unsent
  <2>2. a \in Senders /\ a \notin Timers
    BY TimersAssumption DEF Senders
  <2>3. QED
    BY <2>1, <2>2 DEF TypeOK
<1>1. CASE Count(a) \/ CountFails(a)
  <2>1. At(a, "count", "insert") /\ pending' = pending
    BY <1>1 DEF Count, CountFails
  <2>2. OnlyMoves(a, "count", "insert")
    BY <2>1, MovesAlone
  <2>3. QED
    BY <1>0, <2>1, <2>2, EndGoesOn
<1>2. CASE Refuse(a)
  <2>1. At(a, "count", "idle") /\ pending' = pending
    BY <1>0, <1>2 DEF Refuse, AfterSend
  <2>2. OnlyMoves(a, "count", "idle")
    BY <2>1, MovesAlone
  <2>3. QED
    BY <1>0, <2>1, <2>2, EndGoesOn
<1>3. CASE RenderFails(a)
  <2>1. At(a, "count", "mark") /\ pending' = pending
    BY <1>0, <1>3 DEF RenderFails, AfterSend
  <2>2. OnlyMoves(a, "count", "mark")
    BY <2>1, MovesAlone
  <2>3. QED
    BY <1>0, <2>1, <2>2, EndGoesOn
<1>4. CASE Insert(a)
  <2>1. At(a, "insert", "mark") /\ pending' = pending + 1
    BY <1>0, <1>4 DEF Insert, AfterSend
  <2>2. OnlyMoves(a, "insert", "mark")
    BY <2>1, MovesAlone
  <2>3. pending' > pending
    BY <1>0, <2>1
  <2>4. QED
    BY <1>0, <2>2, <2>3, EndInserts
<1>5. CASE InsertFails(a)
  <2>1. At(a, "insert", "idle") /\ pending' = pending
    BY <1>0, <1>5 DEF InsertFails, AfterSend
  <2>2. OnlyMoves(a, "insert", "idle")
    BY <2>1, MovesAlone
  <2>3. QED
    BY <1>0, <2>1, <2>2, EndGoesOn
<1>6. QED
  BY <1>1, <1>2, <1>3, <1>4, <1>5 DEF SendStep

\* What the daily check and the cleanup do themselves.
LEMMA EndAnnounced ==
    ASSUME TypeOK, HistoryTypeOK, RecordEnd, EndInv, AnnounceStep
    PROVE  EndInv'
<1>0. "daily" \in Announcers /\ "cleanup" \in Announcers /\ pending \in Int
  BY DEF Announcers, TypeOK
<1>1. CASE DailyFind
  <2>1. OnlyMoves("daily", "idle", "count")
    BY <1>0, <1>1, MovesAlone DEF DailyFind
  <2>2. ~share.flag /\ UNCHANGED <<share, selected>>
    BY <1>1 DEF DailyFind, Due, Unsent
  <2>3. QED
    BY <2>1, <2>2, EndFound
<1>2. CASE CleanupFind
  <2>1. OnlyMoves("cleanup", "idle", "close")
    BY <1>0, <1>2, MovesAlone DEF CleanupFind
  <2>2. share' = share /\ selected'.flag = share.flag
    BY <1>2 DEF CleanupFind
  <2>3. QED
    BY <2>1, <2>2, EndFound
<1>3. CASE Close
  <2>1. PICK there \in {"idle", "count"} :
            At("cleanup", "close", there) /\ (there = "count" => ~selected.flag)
    BY <1>3 DEF Close
  <2>2. OnlyMoves("cleanup", "close", there)
    BY <1>0, <2>1, MovesAlone
  <2>3. share'.flag = share.flag /\ pending' = pending
    BY <1>3 DEF Close, Untouched, TypeOK, ShareRows
  <2>4. CASE there = "idle"
    BY <1>0, <2>2, <2>3, <2>4, EndGoesOn
  <2>5. CASE there = "count"
    BY <1>0, <2>1, <2>2, <2>3, <2>5, EndGoesOn
  <2>6. QED
    BY <2>1, <2>4, <2>5
<1>4. CASE CloseFails
  <2>1. OnlyMoves("cleanup", "close", "idle")
    BY <1>0, <1>4, MovesAlone DEF CloseFails
  <2>2. share'.flag = share.flag /\ pending' = pending
    BY <1>4 DEF CloseFails, Untouched
  <2>3. QED
    BY <1>0, <2>1, <2>2, EndGoesOn
<1>5. CASE \E a \in Announcers : Mark(a) \/ MarkFails(a)
  <2>1. PICK a \in Announcers : Mark(a) \/ MarkFails(a)
    BY <1>5
  <2>2. OnlyMoves(a, "mark", "idle")
    BY <2>1, MovesAlone DEF Mark, MarkFails
  <2>3. UNCHANGED selected /\ (share'.flag \/ share'.flag = share.flag)
    BY <2>1 DEF Mark, MarkFails, Unsent, TypeOK, ShareRows
  <2>4. QED
    BY <2>2, <2>3, EndMarked
<1>6. QED
  BY <1>1, <1>2, <1>3, <1>4, <1>5 DEF AnnounceStep

\* The owner's extension begins a new end; nothing else of the owner touches the flag.
LEMMA StepKeepsEnd ==
    ASSUME TypeOK, HistoryTypeOK, EndInv, HistoryNext
    PROVE  EndInv'
<1>1. CASE Step /\ RecordFiles /\ RecordEnd
  <2>1. CASE \E a \in Announcers : SendStep(a)
    BY <1>1, <2>1, EndSends
  <2>2. CASE AnnounceStep
    BY <1>1, <2>2, EndAnnounced
  <2>3. CASE (\E t \in Timers : SendStep(t) \/ TimerStep(t)) \/ UploadStep \/ Take
    <3>1. AnnouncersRest
      BY <2>3, TimersLeaveAnnouncers
    <3>2. QED
      BY <1>1, <3>1, EndRests DEF AnnouncersRest
  <2>4. CASE OwnerStep \/ Expire
    <3>1. pc' = pc /\ selected' = selected
      BY <2>4 DEF OwnerStep, OwnerRead, Pause, Redate, Update, Expire
    <3>2. share'.flag = share.flag
      <4>1. CASE OwnerRead \/ Pause \/ Expire \/ \E date \in Dates : Update(date)
        BY <4>1 DEF OwnerRead, Pause, Update, Expire, TypeOK, ShareRows
      <4>2. CASE \E new \in {"ahead", "past"} : Redate(new, FALSE)
        <5>1. PICK new : share' = [date |-> new, state |-> Revived(new), flag |-> share.flag /\ ~FALSE]
          BY <4>2 DEF Redate
        <5>2. share'.flag = (share.flag /\ ~FALSE)
          BY <5>1
        <5>3. share.flag \in BOOLEAN
          BY DEF TypeOK, ShareRows
        <5>4. QED
          BY <5>2, <5>3
      <4>3. QED
        BY <2>4, <4>1, <4>2 DEF OwnerStep
    <3>3. QED
      BY <1>1, <3>1, <3>2, EndRests
  <2>5. QED
    BY <1>1, <2>1, <2>2, <2>3, <2>4 DEF Step, Senders
<1>2. CASE Extend /\ RecordExtension
  <2>1. PICK new : Redate(new, TRUE)
    BY <1>2 DEF Extend
  <2>2. pc' = pc /\ ~share'.flag
    BY <2>1 DEF Redate
  <2>3. ~announced' /\ void' = {a \in Announcers : InFlight(a)}
    BY <1>2 DEF RecordExtension
  <2>4. MarksMean'
    BY <2>2, <2>3 DEF MarksMean, InFlight
  <2>5. QED
    BY <2>2, <2>3, <2>4 DEF EndInv, FlagIsEarned, AnnouncementShows, RepeatsArePaired
<1>3. CASE Exit /\ RecordExit
  <2>1. /\ \A a \in Announcers : pc'[a] = "idle"
        /\ share' = share /\ announced' = announced /\ wasted' = wasted
        /\ unmarked' = (unmarked \/ \E a \in Announcers : pc[a] = "mark")
    BY <1>3, TimersAssumption DEF Exit, RecordExit, Quiet, Senders
  <2>2. QED
    BY <2>1 DEF EndInv, MarksMean, FlagIsEarned, AnnouncementShows, RepeatsArePaired, Announcing
<1>4. QED
  BY <1>1, <1>2, <1>3 DEF HistoryNext

-----------------------------------------------------------------------------
(* The invariant, and what follows from it.                                *)

LEMMA InvInit == Init /\ HistoryInit => NoticeInv
<1> SUFFICES ASSUME Init, HistoryInit PROVE NoticeInv
  OBVIOUS
<1>1. share \in ShareRows /\ ~share.flag
  BY DEF Init, NewShare, ShareRows, Dates, States
<1>2. PcOK
  BY TimersAssumption DEF Init, Quiet, PcOK, TimerPcs, AnnouncerPcs, Senders
<1>3. TypeOK
  BY <1>1, <1>2, NoticesAssumption DEF Init, TypeOK, PcOK, NoFiles, Asleep, Nothing, States
<1>4. HistoryTypeOK
  BY DEF HistoryInit, HistoryTypeOK
<1>5. \A p \in Senders : pc[p] \in {"free", "idle"} /\ (p \in Timers => pc[p] = "free")
  BY DEF Init, Quiet
<1>6. TimersHold /\ RoomIsKept
  BY <1>5 DEF TimersHold, RoomIsKept, Senders
<1>7. NoFileForgotten
  BY DEF Init, NoFileForgotten
<1>8. MarksMean /\ FlagIsEarned /\ AnnouncementShows /\ RepeatsArePaired
  BY <1>1, <1>5 DEF HistoryInit, MarksMean, FlagIsEarned, AnnouncementShows, RepeatsArePaired, Senders
<1>9. QED
  BY <1>3, <1>4, <1>6, <1>7, <1>8 DEF NoticeInv

LEMMA InvNext == NoticeInv /\ [HistoryNext]_<<vars, history>> => NoticeInv'
<1> SUFFICES ASSUME NoticeInv, [HistoryNext]_<<vars, history>> PROVE NoticeInv'
  OBVIOUS
<1>1. CASE HistoryNext
  <2>1. TypeOK /\ HistoryTypeOK /\ TimersHold /\ NoFileForgotten /\ RoomIsKept /\ EndInv
    BY DEF NoticeInv, EndInv
  <2>2. Next
    BY <1>1 DEF HistoryNext, Next
  <2>3. TypeOK' /\ TimersHold'
    BY <2>1, <2>2, StepType, StepHolds
  <2>4. HistoryTypeOK'
    BY <1>1, <2>1, HistoryType
  <2>5. NoFileForgotten'
    BY <1>1, <2>1, StepKeepsFiles
  <2>6. RoomIsKept'
    BY <1>1, <2>1, StepKeepsRoom
  <2>7. EndInv'
    BY <1>1, <2>1, StepKeepsEnd
  <2>8. QED
    BY <2>3, <2>4, <2>5, <2>6, <2>7 DEF NoticeInv, EndInv
<1>2. CASE UNCHANGED <<vars, history>>
  BY <1>2 DEF vars, history, NoticeInv, TypeOK, HistoryTypeOK, TimersHold, NoFileForgotten, MarksMean,
              FlagIsEarned, AnnouncementShows, RepeatsArePaired, Announcing, RoomIsKept
<1>3. QED
  BY <1>1, <1>2

\* Timers, sessions, announcers and senders agree with what happened before,
\* for any number of files, timers, session objects and rows.
THEOREM NoticesInvariant == HistorySpec => []NoticeInv
<1>1. QED
  BY InvInit, InvNext, PTL DEF HistorySpec

\* However uploads, callbacks and removals of sessions interleave, no file is
\* forgotten.
THEOREM NothingForgotten == HistorySpec => []NoFileForgotten
<1>1. NoticeInv => NoFileForgotten
  BY DEF NoticeInv
<1>2. QED
  BY <1>1, NoticesInvariant, PTL

\* The flag of a share stands for a mail, or was wasted in a way that is known.
THEOREM FlagEarned == HistorySpec => []FlagIsEarned
<1>1. NoticeInv => FlagIsEarned
  BY DEF NoticeInv
<1>2. QED
  BY <1>1, NoticesInvariant, PTL

\* An end is announced again only by announcers that met, or after one that was
\* not marked.
THEOREM AnnouncedOnceHolds == HistorySpec => AnnouncedOnce
<1>1. ASSUME NoticeInv, NEW a \in Announcers \ void, Inserts(a), announced
      PROVE  a \in paired \/ unmarked
  BY <1>1 DEF NoticeInv, RepeatsArePaired, Announcing, Inserts
<1>2. NoticeInv /\ [HistoryNext]_<<vars, history>>
        => [\A a \in Announcers \ void : Inserts(a) /\ announced => a \in paired \/ unmarked]_vars
  BY <1>1
<1>3. QED
  BY <1>2, InvInit, InvNext, PTL DEF HistorySpec, AnnouncedOnce

\* The queue is filled beyond its cap only by senders that were overtaken
\* after their count, or could not count.
THEOREM CapHolds == HistorySpec => DepthHolds
<1>1. ASSUME NoticeInv, NEW p \in Senders, Inserts(p), pending >= Depth
      PROVE  p \in overtaken
  <2>1. pc[p] = "insert" /\ ~(pending < Depth)
    BY <1>1, NoticesAssumption DEF Inserts, NoticeInv, TypeOK
  <2>2. QED
    BY <1>1, <2>1 DEF NoticeInv, RoomIsKept
<1>2. NoticeInv /\ [HistoryNext]_<<vars, history>>
        => [\A p \in Senders : Inserts(p) /\ pending >= Depth => p \in overtaken]_vars
  BY <1>1
<1>3. QED
  BY <1>2, InvInit, InvNext, PTL DEF HistorySpec, DepthHolds

=============================================================================
