---------------------------- MODULE ShareProofs ----------------------------
(***************************************************************************)
(* Proofs about the life of a share, for any number of visitors, any dates *)
(* and limits an owner may set and any grace period.                       *)
(***************************************************************************)
EXTENDS ShareHistory, TLAPS

-----------------------------------------------------------------------------
(* What the writers make of a row.                                         *)

LEMMA NoneIsInt == None \in Int /\ None \notin Nat
BY DEF None

LEMMA DeactivatedRow ==
    ASSUME NEW r \in Row, NEW why \in {"expired", "max_views", "manual"}, NEW at \in Int
    PROVE  LET w == Deactivated(r, why, at) IN
           /\ w \in Row
           /\ ~w.isActive /\ w.reason = why /\ w.deactivatedAt = at
           /\ w.expiration = r.expiration /\ w.maxViews = r.maxViews
           /\ w.views = r.views
BY DEF Deactivated, Row, AutoDeletable

LEMMA ReactivatedRow ==
    ASSUME NEW r \in Row
    PROVE  LET w == Reactivated(r) IN
           /\ w \in Row
           /\ w.isActive /\ w.reason = "none" /\ w.deactivatedAt = None
           /\ w.expiration = r.expiration /\ w.maxViews = r.maxViews
           /\ w.views = r.views
<1>1. Reactivated(r) \in Row
  BY NoneIsInt DEF Reactivated, Row, AutoDeletable
<1> QED
  BY <1>1 DEF Reactivated, Row

LEMMA UpdatedRow ==
    ASSUME share \in Row, NEW e \in Expirations \cup {Unchanged},
           NEW m \in Limits \cup {None, Unchanged}
    PROVE  LET w == Updated(e, m) IN
           /\ w \in Row
           /\ w.views = share.views
           /\ \/ /\ w.isActive = share.isActive /\ w.reason = share.reason
                 /\ w.deactivatedAt = share.deactivatedAt
              \/ w.isActive /\ w.reason = "none" /\ w.deactivatedAt = None
<1> DEFINE r == [share EXCEPT !.expiration = Given(e, @), !.maxViews = Given(m, @),
                              !.warned = @ /\ ~Extends(e) /\ ~RaisesLimit(m)]
<1>1. /\ r \in Row
      /\ r.views = share.views /\ r.isActive = share.isActive /\ r.reason = share.reason
      /\ r.deactivatedAt = share.deactivatedAt
  <2>1. Given(e, share.expiration) \in Expirations \cup {None}
    BY DEF Given, Row
  <2>2. Given(m, share.maxViews) \in Limits \cup {None}
    BY DEF Given, Row
  <2> QED
    BY <2>1, <2>2 DEF Row
<1>2. Updated(e, m) = IF Revives(e, m) THEN Reactivated(r) ELSE r
  BY DEF Updated
<1>3. CASE Revives(e, m)
  <2>1. Updated(e, m) = Reactivated(r)
    BY <1>2, <1>3
  <2> HIDE DEF r
  <2> QED
    BY <1>1, <2>1, ReactivatedRow
<1>4. CASE ~Revives(e, m)
  BY <1>1, <1>2, <1>4
<1> QED
  BY <1>3, <1>4

LEMMA BlankRow == Blank \in Row
BY NoneIsInt DEF Blank, Row, AutoDeletable

-----------------------------------------------------------------------------
(* The kinds of steps, by what they do to the state the invariants look at. *)

OwnerChange ==
    /\ UNCHANGED <<now, requests, sweep>>
    /\ ownerPc' \in {"idle", "update", "resume"} /\ ownerRead' \in Row
    /\ exists' \in BOOLEAN /\ (exists' => exists)
    /\ share' \in Row /\ share'.views = share.views
    /\ \/ /\ share'.isActive = share.isActive /\ share'.reason = share.reason
          /\ share'.deactivatedAt = share.deactivatedAt
       \/ share'.isActive /\ share'.reason = "none" /\ share'.deactivatedAt = None
       \/ ~share'.isActive /\ share'.reason = "manual" /\ share'.deactivatedAt = now

\* A visitor's request goes on to "to" and remembers the limit "limit".
VisitChange(v, to, limit) ==
    /\ UNCHANGED <<now, exists, owner, sweep>>
    /\ visitPc' = [visitPc EXCEPT ![v] = to]
    /\ visitLimit' = [visitLimit EXCEPT ![v] = limit]
    /\ \/ to = "idle" /\ limit = None /\ share' = share
       \/ to = "count" /\ limit = share.maxViews /\ share' = share
       \/ /\ visitPc[v] = "reread" /\ to = "close" /\ share' = share
          /\ limit = visitLimit[v] /\ share.views >= limit
       \/ /\ visitPc[v] = "count"
          /\ \/ to = "idle" /\ limit = None
             \/ to = "reread" /\ limit = visitLimit[v] /\ limit # None
          /\ visitLimit[v] # None => share.views < visitLimit[v]
          /\ share' = [share EXCEPT !.views = @ + 1]
       \/ /\ visitPc[v] = "close" /\ to = "idle" /\ limit = None
          /\ exists /\ share.isActive
          /\ share' = Deactivated(share, "max_views", now)

\* The run selects the row in one of its phases.
FindChange ==
    /\ UNCHANGED <<now, exists, share, requests, owner>>
    /\ sweepNow' \in {sweepNow, now} /\ sweepDate' = share.expiration
    /\ exists
    /\ \/ sweepPc' = "expire" /\ ExpiredActive(share, sweepNow')
       \/ sweepPc' = "max" /\ MaxedActive(share, sweepNow')
       \/ sweepPc' = "upgrade" /\ PausedExpired(share, sweepNow')
       \/ sweepPc' = "warning"
       \/ sweepPc' = "deleting" /\ ToDelete(share, sweepNow')

\* The run writes to the row it selected.
HandleChange ==
    /\ UNCHANGED <<now, exists, requests, owner, sweepNow>>
    /\ sweepPc' \in Phases \cup {"idle"} /\ sweepDate' = None
    /\ share' \in Row /\ share'.views = share.views
    /\ share'.expiration = share.expiration /\ share'.maxViews = share.maxViews
    /\ \/ /\ share'.isActive = share.isActive /\ share'.reason = share.reason
          /\ share'.deactivatedAt = share.deactivatedAt
       \/ /\ sweepPc = "expire" /\ exists /\ share.isActive
          /\ ~share'.isActive /\ share'.reason = "expired" /\ share'.deactivatedAt = sweepDate
       \/ /\ sweepPc = "max" /\ exists /\ share.isActive
          /\ ~share'.isActive /\ share'.reason = "max_views" /\ share'.deactivatedAt = now
       \/ /\ sweepPc = "upgrade" /\ exists /\ ~share.isActive
          /\ ~share'.isActive /\ share'.reason = "expired" /\ share'.deactivatedAt = sweepDate

\* The run moves on without a write, or deletes the row.
SweepMoves ==
    /\ UNCHANGED <<now, share, requests, owner>>
    /\ exists' \in BOOLEAN /\ (exists' => exists)
    /\ exists' # exists => sweepPc = "deleting" /\ sweepPc' = "idle"
    /\ sweepPc' \in Phases \cup {"idle"}
    /\ sweepNow' \in {sweepNow, now} /\ sweepDate' \in {sweepDate, None}

LEMMA OwnerSteps ==
    ASSUME TypeOK, OwnerStep
    PROVE  OwnerChange
<1> USE DEF TypeOK, OwnerChange
<1>1. CASE \E op \in {"update", "resume"} : OwnerRead(op)
  BY <1>1 DEF OwnerRead
<1>2. CASE OwnerGone \/ ResumeRefused
  BY <1>2, BlankRow DEF OwnerGone, ResumeRefused, OwnerGivesUp
<1>3. ASSUME NEW e \in Expirations \cup {Unchanged},
             NEW m \in Limits \cup {None, Unchanged},
             UpdateWrite(e, m)
      PROVE  OwnerChange
  <2>1. /\ share' = Updated(e, m) /\ ownerPc' = "idle" /\ ownerRead' = Blank
        /\ UNCHANGED <<now, exists, requests, sweep>>
    BY <1>3 DEF UpdateWrite, OwnerWrites
  <2> QED
    BY <2>1, UpdatedRow, BlankRow
<1>4. CASE ResumeWrite
  <2>1. /\ share' = Reactivated(share) /\ ownerPc' = "idle" /\ ownerRead' = Blank
        /\ UNCHANGED <<now, exists, requests, sweep>>
    BY <1>4 DEF ResumeWrite, OwnerWrites
  <2> QED
    BY <2>1, ReactivatedRow, BlankRow
<1>5. CASE Pause
  <2>1. /\ share' = Deactivated(share, "manual", now)
        /\ UNCHANGED <<now, exists, requests, owner, sweep>>
    BY <1>5 DEF Pause, OwnerWrites
  <2>2. now \in Int /\ "manual" \in {"expired", "max_views", "manual"} /\ share \in Row
    OBVIOUS
  <2> HIDE DEF TypeOK
  <2>3. /\ share' \in Row /\ share'.views = share.views
        /\ ~share'.isActive /\ share'.reason = "manual" /\ share'.deactivatedAt = now
    BY <2>1, <2>2, DeactivatedRow
  <2> QED
    BY <2>1, <2>3 DEF owner, TypeOK
<1>6. CASE Delete
  BY <1>6 DEF Delete, owner
<1> QED
  BY <1>1, <1>2, <1>3, <1>4, <1>5, <1>6 DEF OwnerStep

LEMMA VisitSteps ==
    ASSUME TypeOK, NEW v \in Visitors, VisitStep(v)
    PROVE  \E to \in {"idle", "count", "reread", "close"}, limit \in Limits \cup {None} :
                VisitChange(v, to, limit)
<1> USE DEF TypeOK
<1>1. CASE VisitRead(v)
  <2>1. share.maxViews \in Limits \cup {None}
    BY DEF Row
  <2>2. VisitChange(v, "count", share.maxViews)
    BY <1>1 DEF VisitRead, Visit, VisitChange
  <2> QED
    BY <2>1, <2>2
<1>2. CASE VisitCount(v)
  <2>1. CASE Counted(v) /\ visitLimit[v] # None
    <3>1. VisitChange(v, "reread", visitLimit[v])
      BY <1>2, <2>1 DEF VisitCount, Visit, Counted, VisitChange
    <3> QED
      BY <3>1
  <2>2. CASE ~(Counted(v) /\ visitLimit[v] # None)
    <3>1. VisitChange(v, "idle", None)
      BY <1>2, <2>2 DEF VisitCount, Visit, Counted, VisitChange
    <3> QED
      BY <3>1
  <2> QED
    BY <2>1, <2>2
<1>3. CASE VisitReread(v)
  <2>1. VisitChange(v, "close", visitLimit[v]) \/ VisitChange(v, "idle", None)
    BY <1>3 DEF VisitReread, Visit, Hits, VisitChange
  <2> QED
    BY <2>1
<1>4. CASE VisitClose(v) \/ VisitCloseFails(v)
  <2>1. VisitChange(v, "idle", None)
    BY <1>4 DEF VisitClose, VisitCloseFails, Visit, VisitChange
  <2> QED
    BY <2>1
<1> QED
  BY <1>1, <1>2, <1>3, <1>4 DEF VisitStep

LEMMA FindSteps ==
    ASSUME TypeOK, NEW p \in Phases, Find(p)
    PROVE  FindChange \/ SweepMoves
<1>1. After(p) \in Phases \cup {"idle"}
  BY DEF Phases, After
<1>2. CASE exists /\ Selected(p, share, sweepNow')
  <2>1. sweepPc' = Handling(p) /\ sweepDate' = share.expiration
    BY <1>2 DEF Find
  <2>2. /\ UNCHANGED <<now, exists, share, requests, owner>>
        /\ sweepNow' \in {sweepNow, now}
    BY DEF Find
  <2> QED
    BY <1>2, <2>1, <2>2 DEF FindChange, Phases, Handling, Selected
<1>3. CASE ~(exists /\ Selected(p, share, sweepNow'))
  BY <1>1, <1>3 DEF Find, SweepMoves, TypeOK
<1> QED
  BY <1>2, <1>3

LEMMA HandleSteps ==
    ASSUME TypeOK, NEW p \in Phases \ {"delete"}, Handle(p)
    PROVE  HandleChange
<1>1. After(p) \in Phases \cup {"idle"}
  BY DEF Phases, After
<1>2. /\ UNCHANGED <<now, exists, requests, owner, sweepNow>>
      /\ sweepPc' \in Phases \cup {"idle"} /\ sweepDate' = None
      /\ sweepPc = Handling(p)
      /\ share' = IF exists THEN SweepWrite(p) ELSE share
  BY <1>1 DEF Handle
<1>3. now \in Int /\ sweepDate \in Int /\ share \in Row
  BY DatesAssumption, NoneIsInt DEF TypeOK
<1>4. CASE share' = share
  BY <1>2, <1>3, <1>4 DEF HandleChange
<1>5. CASE share' = [share EXCEPT !.warned = TRUE]
  BY <1>2, <1>3, <1>5 DEF HandleChange, Row
<1>6. CASE exists /\ share' # share /\ p = "expired"
  <2>1. sweepPc = "expire" /\ share.isActive /\ share' = Deactivated(share, "expired", sweepDate)
    BY <1>2, <1>6 DEF SweepWrite, Handling
  <2>2. /\ share' \in Row /\ share'.views = share.views
        /\ share'.expiration = share.expiration /\ share'.maxViews = share.maxViews
        /\ ~share'.isActive /\ share'.reason = "expired" /\ share'.deactivatedAt = sweepDate
    BY <1>3, <2>1, DeactivatedRow
  <2> QED
    BY <1>2, <1>6, <2>1, <2>2 DEF HandleChange
<1>7. CASE exists /\ share' # share /\ p = "maxed"
  <2>1. sweepPc = "max" /\ share.isActive /\ share' = Deactivated(share, "max_views", now)
    BY <1>2, <1>7 DEF SweepWrite, Handling
  <2>2. /\ share' \in Row /\ share'.views = share.views
        /\ share'.expiration = share.expiration /\ share'.maxViews = share.maxViews
        /\ ~share'.isActive /\ share'.reason = "max_views" /\ share'.deactivatedAt = now
    BY <1>3, <2>1, DeactivatedRow
  <2> QED
    BY <1>2, <1>7, <2>1, <2>2 DEF HandleChange
<1>8. CASE exists /\ share' # share /\ p = "manual"
  <2>1. sweepPc = "upgrade" /\ ~share.isActive /\ share' = Deactivated(share, "expired", sweepDate)
    BY <1>2, <1>8 DEF SweepWrite, Handling
  <2>2. /\ share' \in Row /\ share'.views = share.views
        /\ share'.expiration = share.expiration /\ share'.maxViews = share.maxViews
        /\ ~share'.isActive /\ share'.reason = "expired" /\ share'.deactivatedAt = sweepDate
    BY <1>3, <2>1, DeactivatedRow
  <2> QED
    BY <1>2, <1>8, <2>1, <2>2 DEF HandleChange
<1>9. CASE exists /\ share' # share /\ p = "warn"
  BY <1>2, <1>5, <1>9 DEF SweepWrite
<1> QED
  BY <1>2, <1>4, <1>6, <1>7, <1>8, <1>9 DEF Phases

LEMMA SweepSteps ==
    ASSUME TypeOK, SweepStep
    PROVE  FindChange \/ HandleChange \/ SweepMoves
<1>1. CASE StartCleanup
  BY <1>1 DEF StartCleanup, SweepMoves, TypeOK, Phases
<1>2. ASSUME NEW p \in Phases, FindFails(p) \/ HandleFails(p)
      PROVE  SweepMoves
  <2>1. After(p) \in Phases \cup {"idle"}
    BY DEF Phases, After
  <2> QED
    BY <1>2, <2>1 DEF FindFails, HandleFails, SweepMoves, TypeOK, Phases
<1>3. CASE HandleDelete
  <2>1. After("delete") = "idle" /\ Handling("delete") = "deleting"
    BY DEF After, Handling
  <2> QED
    BY <1>3, <2>1 DEF HandleDelete, SweepMoves, TypeOK
<1> QED
  BY <1>1, <1>2, <1>3, FindSteps, HandleSteps DEF SweepStep

LEMMA StepKinds ==
    ASSUME TypeOK, [Next]_vars
    PROVE  \/ OwnerChange
           \/ \E v \in Visitors, to \in {"idle", "count", "reread", "close"},
                 limit \in Limits \cup {None} : VisitChange(v, to, limit)
           \/ FindChange \/ HandleChange \/ SweepMoves
           \/ DayPasses \/ Restart \/ UNCHANGED vars
BY OwnerSteps, VisitSteps, SweepSteps DEF Next

-----------------------------------------------------------------------------
(* Types, and the agreement of the lifecycle fields.                       *)

LEMMA VisitRow ==
    ASSUME TypeOK, NEW v \in Visitors, NEW to, NEW limit, VisitChange(v, to, limit)
    PROVE  /\ share' \in Row /\ share'.expiration = share.expiration
           /\ share'.maxViews = share.maxViews
           /\ \/ /\ share'.isActive = share.isActive /\ share'.reason = share.reason
                 /\ share'.deactivatedAt = share.deactivatedAt
              \/ /\ visitPc[v] = "close" /\ exists /\ share.isActive
                 /\ ~share'.isActive /\ share'.reason = "max_views"
                 /\ share'.deactivatedAt = now
           /\ \/ share'.views = share.views
              \/ /\ visitPc[v] = "count" /\ share'.views = share.views + 1
                 /\ visitLimit[v] # None => share.views < visitLimit[v]
<1>1. share \in Row /\ now \in Int
  BY DatesAssumption DEF TypeOK
<1>2. CASE share' = share
  BY <1>1, <1>2
<1>3. CASE /\ visitPc[v] = "count"
           /\ visitLimit[v] # None => share.views < visitLimit[v]
           /\ share' = [share EXCEPT !.views = @ + 1]
  BY <1>1, <1>3 DEF Row
<1>4. CASE /\ visitPc[v] = "close" /\ exists /\ share.isActive
           /\ share' = Deactivated(share, "max_views", now)
  <2>1. /\ share' \in Row /\ share'.views = share.views
        /\ share'.expiration = share.expiration /\ share'.maxViews = share.maxViews
        /\ ~share'.isActive /\ share'.reason = "max_views" /\ share'.deactivatedAt = now
    BY <1>1, <1>4, DeactivatedRow
  <2> QED
    BY <1>4, <2>1
<1>5. \/ share' = share
      \/ /\ visitPc[v] = "count"
         /\ visitLimit[v] # None => share.views < visitLimit[v]
         /\ share' = [share EXCEPT !.views = @ + 1]
      \/ /\ visitPc[v] = "close" /\ exists /\ share.isActive
         /\ share' = Deactivated(share, "max_views", now)
  BY DEF VisitChange
<1> QED
  BY <1>2, <1>3, <1>4, <1>5

LEMMA TypeStep ==
    ASSUME TypeOK, [Next]_vars
    PROVE  TypeOK'
<1> USE DEF TypeOK
<1>1. CASE OwnerChange
  BY <1>1 DEF OwnerChange, requests, sweep
<1>2. ASSUME NEW v \in Visitors, NEW to \in {"idle", "count", "reread", "close"},
             NEW limit \in Limits \cup {None}, VisitChange(v, to, limit)
      PROVE  TypeOK'
  <2>1. share' \in Row
    BY <1>2, VisitRow
  <2> QED
    BY <1>2, <2>1 DEF VisitChange, owner, sweep
<1>3. CASE FindChange
  BY <1>3 DEF FindChange, requests, owner, Row
<1>4. CASE HandleChange
  BY <1>4 DEF HandleChange, requests, owner
<1>5. CASE SweepMoves
  BY <1>5 DEF SweepMoves, requests, owner
<1>6. CASE DayPasses
  BY <1>6, DatesAssumption DEF DayPasses, requests, owner, sweep
<1>7. CASE Restart
  BY <1>7, BlankRow DEF Restart, Phases
<1>8. CASE UNCHANGED vars
  BY <1>8 DEF vars, requests, owner, sweep
<1> QED
  BY <1>1, <1>2, <1>3, <1>4, <1>5, <1>6, <1>7, <1>8, StepKinds

\* The part of the invariant that needs no history.
LifecycleInv == TypeOK /\ LifecycleFieldsAgree /\ SweepInv /\ RequestInv

LEMMA LifecycleInit == Init => LifecycleInv
<1> SUFFICES ASSUME Init
             PROVE  LifecycleInv
  OBVIOUS
<1>1. PICK e \in Expirations \cup {None}, m \in Limits \cup {None} :
          share = [Blank EXCEPT !.expiration = e, !.maxViews = m]
  BY DEF Init
<1>2. /\ share \in Row
      /\ share.isActive /\ share.reason = "none" /\ share.deactivatedAt = None
  BY <1>1, NoneIsInt DEF Blank, Row, AutoDeletable
<1>3. TypeOK
  BY <1>2, BlankRow, DatesAssumption DEF Init, TypeOK
<1> QED
  BY <1>2, <1>3 DEF Init, LifecycleInv, LifecycleFieldsAgree, SweepInv, RequestInv

LEMMA FieldsStep ==
    ASSUME LifecycleInv, [Next]_vars
    PROVE  LifecycleFieldsAgree'
<1> USE DEF LifecycleInv, LifecycleFieldsAgree
<1>0. now \in Nat /\ now # None /\ (sweepPc \in {"expire", "upgrade"} => sweepDate # None)
  BY NoneIsInt, DatesAssumption DEF TypeOK, SweepInv
<1>1. CASE OwnerChange
  BY <1>0, <1>1 DEF OwnerChange
<1>2. ASSUME NEW v \in Visitors, NEW to \in {"idle", "count", "reread", "close"},
             NEW limit \in Limits \cup {None}, VisitChange(v, to, limit)
      PROVE  LifecycleFieldsAgree'
  BY <1>0, <1>2, VisitRow
<1>3. CASE HandleChange
  BY <1>0, <1>3 DEF HandleChange
<1>4. CASE FindChange \/ SweepMoves \/ DayPasses \/ Restart \/ UNCHANGED vars
  BY <1>4 DEF FindChange, SweepMoves, DayPasses, Restart, vars
<1> QED
  BY <1>1, <1>2, <1>3, <1>4, StepKinds

LEMMA SweepStepInv ==
    ASSUME LifecycleInv, [Next]_vars
    PROVE  SweepInv'
<1> USE DEF LifecycleInv, SweepInv
<1>0. /\ now \in Int /\ sweepNow \in Int /\ "expire" \notin Phases /\ "upgrade" \notin Phases
      /\ "idle" \notin {"expire", "upgrade"}
  BY DatesAssumption DEF TypeOK, Phases
<1>1. CASE OwnerChange \/ UNCHANGED vars
  BY <1>1 DEF OwnerChange, sweep, vars
<1>2. ASSUME NEW v \in Visitors, NEW to \in {"idle", "count", "reread", "close"},
             NEW limit \in Limits \cup {None}, VisitChange(v, to, limit)
      PROVE  SweepInv'
  BY <1>2 DEF VisitChange, sweep
<1>3. CASE FindChange
  BY <1>0, <1>3 DEF FindChange, ExpiredActive, PausedExpired, Expired
<1>4. CASE HandleChange \/ SweepMoves
  BY <1>0, <1>4 DEF HandleChange, SweepMoves
<1>5. CASE DayPasses
  BY <1>0, <1>5 DEF DayPasses, sweep
<1>6. CASE Restart
  BY <1>0, <1>6 DEF Restart
<1> QED
  BY <1>1, <1>2, <1>3, <1>4, <1>5, <1>6, StepKinds

LEMMA RequestStep ==
    ASSUME LifecycleInv, [Next]_vars
    PROVE  RequestInv'
<1> USE DEF LifecycleInv, RequestInv
<1>1. CASE OwnerChange \/ FindChange \/ HandleChange \/ SweepMoves \/ DayPasses \/ UNCHANGED vars
  BY <1>1 DEF OwnerChange, FindChange, HandleChange, SweepMoves, DayPasses, vars, requests
<1>2. ASSUME NEW v \in Visitors, NEW to \in {"idle", "count", "reread", "close"},
             NEW limit \in Limits \cup {None}, VisitChange(v, to, limit)
      PROVE  RequestInv'
  <2>1. to \in {"reread", "close"} => limit # None
    BY <1>2 DEF VisitChange
  <2> QED
    BY <1>2, <2>1 DEF VisitChange, TypeOK
<1>3. CASE Restart
  BY <1>3 DEF Restart
<1> QED
  BY <1>1, <1>2, <1>3, StepKinds

\* However visitors, the owner, the cleanup and restarts interleave, the row
\* and what each party remembers of it are well formed.
THEOREM TypeCorrect == Spec => []TypeOK
<1>1. Init => TypeOK
  BY LifecycleInit DEF LifecycleInv
<1>2. TypeOK /\ [Next]_vars => TypeOK'
  BY TypeStep
<1> QED
  BY <1>1, <1>2, PTL DEF Spec

\* The inductive invariant that needs no history.
THEOREM LifecycleInvariant == Spec => []LifecycleInv
<1>1. Init => LifecycleInv
  BY LifecycleInit
<1>2. LifecycleInv /\ [Next]_vars => LifecycleInv'
  BY TypeStep, FieldsStep, SweepStepInv, RequestStep DEF LifecycleInv
<1> QED
  BY <1>1, <1>2, PTL DEF Spec

\* isActive, the reason and the date of a deactivation agree after every
\* step of every one of their seven writers.
THEOREM FieldsAgree == Spec => []LifecycleFieldsAgree
BY LifecycleInvariant, PTL DEF LifecycleInv

-----------------------------------------------------------------------------
(* The histories.                                                          *)

HistoryStep == [Next /\ Record]_<<vars, history>>

LEMMA HistoryInitially == Init /\ HistoryInit => HistoryInv
<1> SUFFICES ASSUME Init, HistoryInit
             PROVE  HistoryInv
  OBVIOUS
<1>1. LifecycleInv
  BY LifecycleInit
<1>2. PICK e \in Expirations \cup {None}, m \in Limits \cup {None} :
          share = [Blank EXCEPT !.expiration = e, !.maxViews = m]
  BY DEF Init
<1>3. /\ share.expiration \in Expirations \cup {None} /\ share.maxViews \in Limits \cup {None}
      /\ share.isActive /\ share.reason = "none" /\ share.views = 0
  BY <1>2 DEF Blank
<1>4. HistoryTypeOK
  BY <1>3 DEF HistoryTypeOK, HistoryInit, Init
<1>5. LimitInv
  BY <1>3, LimitsAssumption DEF LimitInv, HistoryInit, Init
<1>6. ClosedInv
  BY <1>3, NoneIsInt DEF ClosedInv, HistoryInit, Init, None
<1>7. DateInv /\ ReasonInv /\ EndedInv /\ SelectedInv /\ LastViewInv
  BY <1>3, NoneIsInt, DatesAssumption
  DEF DateInv, ReasonInv, EndedInv, SelectedInv, LastViewInv, HistoryInit, Init, None,
      AutoDeletable
<1> QED
  BY <1>1, <1>4, <1>5, <1>6, <1>7 DEF HistoryInv, LifecycleInv

LEMMA HistoryTypeStep ==
    ASSUME HistoryInv, HistoryStep
    PROVE  HistoryTypeOK'
<1>1. TypeOK'
  BY TypeStep DEF HistoryInv, HistoryStep, vars, history
<1>2. CASE Record
  <2>2. now \in Nat
    BY DatesAssumption DEF TypeOK, HistoryInv
  <2>4. closedSince' \in Nat \cup {None}
    BY <1>2, <2>2 DEF Record, HistoryInv, HistoryTypeOK
  <2>5. topLimit' \in Limits \cup {None}
    BY <1>1, <1>2 DEF Record, Raised, HistoryInv, HistoryTypeOK, TypeOK, Row
  <2>6. pausedByHand' \in BOOLEAN /\ removed' \in BOOLEAN /\ excused' \in BOOLEAN
    BY <1>2 DEF Record, HistoryInv, HistoryTypeOK
  <2>7. reopened' \in BOOLEAN
    BY <1>1, <1>2 DEF Record, Reopens, TypeOK, Row
  <2> QED
    BY <2>4, <2>5, <2>6, <2>7 DEF HistoryTypeOK
<1>3. CASE UNCHANGED <<vars, history>>
  BY <1>3 DEF history, HistoryInv, HistoryTypeOK
<1> QED
  BY <1>2, <1>3 DEF HistoryStep
LEMMA LifecycleStep ==
    ASSUME HistoryInv, HistoryStep
    PROVE  LifecycleInv /\ LifecycleInv' /\ [Next]_vars
<1>1. LifecycleInv /\ [Next]_vars
  BY DEF HistoryInv, LifecycleInv, HistoryStep, vars, history
<1> QED
  BY <1>1, TypeStep, FieldsStep, SweepStepInv, RequestStep DEF LifecycleInv

\* Integer facts about the state before and after a step.
LEMMA Numbers ==
    ASSUME HistoryInv
    PROVE  /\ now \in Nat /\ sweepNow \in Nat /\ Grace \in Nat /\ None \notin Nat /\ None \in Int
           /\ share \in Row /\ share.views \in Nat /\ share.deactivatedAt \in Int
           /\ share.expiration \in Nat \cup {None} /\ share.maxViews \in Nat \cup {None}
           /\ topLimit \in Nat \cup {None} /\ closedSince \in Nat \cup {None}
           /\ \A v \in Visitors : visitLimit[v] \in Nat \cup {None}
<1>1. share \in Row /\ share.views \in Nat /\ share.deactivatedAt \in Int
  BY DEF HistoryInv, TypeOK, Row
<1>2. share.expiration \in Nat \cup {None} /\ share.maxViews \in Nat \cup {None}
  BY DatesAssumption, LimitsAssumption DEF HistoryInv, TypeOK, Row
<1>3. topLimit \in Nat \cup {None} /\ closedSince \in Nat \cup {None}
  BY LimitsAssumption DEF HistoryInv, HistoryTypeOK
<1>4. \A v \in Visitors : visitLimit[v] \in Nat \cup {None}
  BY LimitsAssumption DEF HistoryInv, TypeOK
<1>5. now \in Nat /\ sweepNow \in Nat /\ Grace \in Nat
  BY DatesAssumption, SettingsAssumption DEF HistoryInv, TypeOK
<1> QED
  BY <1>1, <1>2, <1>3, <1>4, <1>5, NoneIsInt

LEMMA TimeStep ==
    ASSUME HistoryInv, HistoryStep
    PROVE  now' \in Nat /\ now <= now'
<1>1. CASE OwnerChange \/ FindChange \/ HandleChange \/ SweepMoves \/ DayPasses \/ Restart
           \/ UNCHANGED vars
  BY <1>1, Numbers
  DEF OwnerChange, FindChange, HandleChange, SweepMoves, DayPasses, Restart, vars
<1>2. CASE \E v \in Visitors, to \in {"idle", "count", "reread", "close"},
              limit \in Limits \cup {None} : VisitChange(v, to, limit)
  BY <1>2, Numbers DEF VisitChange
<1> QED
  BY <1>1, <1>2, LifecycleStep, StepKinds DEF LifecycleInv

LEMMA LimitStep ==
    ASSUME HistoryInv, HistoryStep
    PROVE  LimitInv'
<1> SUFFICES ASSUME topLimit' # None
             PROVE  LimitInv'
  BY DEF LimitInv
<1>1. CASE Record
  <2>1. share'.maxViews \in Nat \cup {None}
    BY LifecycleStep, LimitsAssumption DEF LifecycleInv, TypeOK, Row
  <2>2. /\ topLimit # None /\ topLimit \in Nat /\ topLimit' \in Nat /\ topLimit <= topLimit'
        /\ share'.maxViews # None /\ share'.maxViews <= topLimit'
    BY <1>1, <2>1, Numbers DEF Record, Raised
  <2>3. /\ share.views <= topLimit /\ share.maxViews # None /\ share.maxViews <= topLimit
        /\ \A v \in Visitors :
            visitPc[v] # "idle" => visitLimit[v] # None /\ visitLimit[v] <= topLimit
    BY <2>2 DEF HistoryInv, LimitInv
  <2>4. CASE share'.views = share.views /\ UNCHANGED requests
    BY <2>2, <2>3, <2>4, Numbers DEF LimitInv, requests
  <2>5. ASSUME NEW v \in Visitors, NEW to \in {"idle", "count", "reread", "close"},
               NEW limit \in Limits \cup {None}, VisitChange(v, to, limit)
        PROVE  LimitInv'
    <3>1. share'.views <= topLimit'
      <4>1. \/ share'.views = share.views
            \/ /\ visitPc[v] = "count" /\ share'.views = share.views + 1
               /\ visitLimit[v] # None => share.views < visitLimit[v]
        BY <2>5, VisitRow DEF HistoryInv
      <4> QED
        BY <2>2, <2>3, <4>1, Numbers
    <3>2. to # "idle" => limit # None /\ limit <= topLimit
      BY <2>3, <2>5 DEF VisitChange, HistoryInv, RequestInv
    <3>3. ASSUME NEW w \in Visitors, visitPc'[w] # "idle"
          PROVE  visitLimit'[w] # None /\ visitLimit'[w] <= topLimit'
      <4>1. visitLimit'[w] # None /\ visitLimit'[w] <= topLimit
        BY <2>3, <2>5, <3>2, <3>3 DEF VisitChange, HistoryInv, TypeOK
      <4>2. visitLimit'[w] \in Nat
        BY <4>1, LifecycleStep, LimitsAssumption DEF LifecycleInv, TypeOK
      <4> QED
        BY <2>2, <4>1, <4>2
    <3> QED
      BY <2>2, <3>1, <3>3 DEF LimitInv
  <2>6. CASE Restart
    BY <2>2, <2>3, <2>6, Numbers DEF Restart, LimitInv
  <2>7. CASE OwnerChange \/ FindChange \/ HandleChange \/ SweepMoves \/ DayPasses \/ UNCHANGED vars
    <3>1. share'.views = share.views /\ UNCHANGED requests
      BY <2>7 DEF OwnerChange, FindChange, HandleChange, SweepMoves, DayPasses, vars
    <3> QED
      BY <2>4, <3>1
  <2> QED
    BY <2>5, <2>6, <2>7, LifecycleStep, StepKinds DEF LifecycleInv
<1>2. CASE UNCHANGED <<vars, history>>
  BY <1>2 DEF vars, requests, history, HistoryInv, LimitInv
<1> QED
  BY <1>1, <1>2 DEF HistoryStep

LEMMA GoneStep ==
    ASSUME HistoryInv, HistoryStep
    PROVE  exists' => exists
<1>1. ASSUME NEW v \in Visitors, NEW to, NEW limit, VisitChange(v, to, limit)
      PROVE  exists' = exists
  BY <1>1 DEF VisitChange
<1>2. CASE \/ OwnerChange \/ FindChange \/ HandleChange \/ SweepMoves
           \/ DayPasses \/ Restart \/ UNCHANGED vars
  BY <1>2 DEF OwnerChange, FindChange, HandleChange, SweepMoves, DayPasses, Restart, vars
<1> QED
  BY <1>1, <1>2, LifecycleStep, StepKinds DEF LifecycleInv

LEMMA ClosedStep ==
    ASSUME HistoryInv, HistoryStep
    PROVE  ClosedInv'
<1>1. CASE Record
  <2>1. closedSince' = IF exists' /\ Accessible(share', now') THEN None
                       ELSE IF closedSince = None THEN now ELSE closedSince
    BY <1>1 DEF Record
  <2>2. closedSince <= now
    BY DEF HistoryInv, ClosedInv
  <2>3. closedSince' = None <=> exists' /\ Accessible(share', now')
    BY <2>1, Numbers
  <2>4. closedSince' <= now'
    BY <2>1, <2>2, Numbers, TimeStep DEF None
  <2>5. pausedByHand' => ~share'.isActive /\ ~Expired(share', now')
    BY <1>1 DEF Record
  <2>6. removed' => ~exists'
    <3>1. removed => ~exists
      BY DEF HistoryInv, ClosedInv
    <3>2. removed' = (removed \/ SweepDeletes)
      BY <1>1 DEF Record
    <3>3. SweepDeletes => ~exists'
      BY DEF SweepDeletes
    <3> QED
      BY <3>1, <3>2, <3>3, GoneStep
  <2> QED
    BY <2>3, <2>4, <2>5, <2>6 DEF ClosedInv
<1>2. CASE UNCHANGED <<vars, history>>
  BY <1>2 DEF vars, history, HistoryInv, ClosedInv, Accessible, Expired, Maxed
<1> QED
  BY <1>1, <1>2 DEF HistoryStep
\* An owner's write that is not excused falls between no read and its write.
LEMMA OwnerUnexcused ==
    ASSUME OwnerChange, Record, ~excused', share' # share
    PROVE  /\ sweepPc \notin {"expire", "max", "upgrade", "warning", "deleting"}
           /\ \A v \in Visitors : visitPc[v] = "idle"
           /\ share'.expiration = share.expiration \/ ~Expired(share', now)
BY DEF OwnerChange, Record, OwnerWrote, Overtakes, PastDateSet, requests, sweep

\* What becomes of the row and of the clock in any step.
LEMMA RowStep ==
    ASSUME HistoryInv, HistoryStep
    PROVE  /\ share'.expiration = share.expiration \/ OwnerChange
           /\ closedSince' \in {None, closedSince, now}
           /\ closedSince # None => closedSince' \in {None, closedSince}
           /\ closedSince' = None <=> exists' /\ Accessible(share', now')
           /\ ~excused' => ~excused
<1>1. share'.expiration = share.expiration \/ OwnerChange
  <2>1. ASSUME NEW v \in Visitors, NEW to \in {"idle", "count", "reread", "close"},
               NEW limit \in Limits \cup {None}, VisitChange(v, to, limit)
        PROVE  share'.expiration = share.expiration
    BY <2>1, VisitRow DEF HistoryInv
  <2>2. CASE FindChange \/ HandleChange \/ SweepMoves \/ DayPasses \/ Restart \/ UNCHANGED vars
    BY <2>2 DEF FindChange, HandleChange, SweepMoves, DayPasses, Restart, vars
  <2> QED
    BY <2>1, <2>2, LifecycleStep, StepKinds DEF LifecycleInv
<1>2. closedSince' \in {None, closedSince, now}
  BY DEF HistoryStep, Record, history
<1>3. closedSince # None => closedSince' \in {None, closedSince}
  BY DEF HistoryStep, Record, history
<1>4. closedSince' = None <=> exists' /\ Accessible(share', now')
  BY ClosedStep DEF ClosedInv
<1>5. ~excused' => ~excused
  BY DEF HistoryStep, Record, history
<1> QED
  BY <1>1, <1>2, <1>3, <1>4, <1>5

LEMMA DateStep ==
    ASSUME HistoryInv, HistoryStep
    PROVE  DateInv'
<1> SUFFICES ASSUME ~excused', share'.expiration # None
             PROVE  closedSince' <= share'.expiration
  BY DEF DateInv
<1>1. share'.expiration \in Nat
  BY LifecycleStep, DatesAssumption DEF LifecycleInv, TypeOK, Row
<1>2. CASE share'.expiration = share.expiration
  <2>1. closedSince <= share.expiration
    BY <1>2, RowStep DEF HistoryInv, DateInv
  <2>2. closedSince = None => now <= share.expiration
    BY <1>1, <1>2, Numbers DEF HistoryInv, ClosedInv, Accessible, Expired
  <2>3. \/ closedSince' = None
        \/ closedSince' = closedSince
        \/ closedSince' = now /\ closedSince = None
    BY RowStep
  <2> QED
    BY <1>1, <1>2, <2>1, <2>2, <2>3, Numbers DEF None
<1>3. CASE share'.expiration # share.expiration
  <2>1. OwnerChange /\ share' # share /\ Record
    BY <1>3, RowStep DEF HistoryStep, vars
  <2>2. now <= share'.expiration
    BY <1>1, <1>3, <2>1, OwnerUnexcused, Numbers DEF Expired
  <2>3. closedSince' <= now
    BY RowStep, Numbers DEF HistoryInv, ClosedInv, None
  <2>4. closedSince' \in Int
    BY RowStep, Numbers
  <2> QED
    BY <1>1, <2>2, <2>3, <2>4, Numbers
<1> QED
  BY <1>2, <1>3

\* How the reason of a deactivation may change.
LEMMA ReasonChange ==
    ASSUME HistoryInv, HistoryStep
    PROVE  \/ /\ share'.isActive = share.isActive /\ share'.reason = share.reason
              /\ share'.deactivatedAt = share.deactivatedAt
           \/ share'.isActive
           \/ share'.reason = "manual"
           \/ /\ sweepPc \in {"expire", "upgrade"}
              /\ share'.reason = "expired" /\ share'.deactivatedAt = sweepDate
              /\ sweepPc = "expire" => share.isActive
           \/ /\ \/ sweepPc = "max"
                 \/ \E v \in Visitors : visitPc[v] = "close"
              /\ share.isActive
              /\ share'.reason = "max_views" /\ share'.deactivatedAt = now
<1>1. CASE OwnerChange
  BY <1>1 DEF OwnerChange
<1>2. CASE HandleChange
  BY <1>2 DEF HandleChange
<1>3. ASSUME NEW v \in Visitors, NEW to \in {"idle", "count", "reread", "close"},
             NEW limit \in Limits \cup {None}, VisitChange(v, to, limit)
      PROVE  \/ /\ share'.isActive = share.isActive /\ share'.reason = share.reason
                /\ share'.deactivatedAt = share.deactivatedAt
             \/ /\ visitPc[v] = "close" /\ share.isActive
                /\ share'.reason = "max_views" /\ share'.deactivatedAt = now
  BY <1>3, VisitRow DEF HistoryInv
<1>4. CASE FindChange \/ SweepMoves \/ DayPasses \/ Restart \/ UNCHANGED vars
  BY <1>4 DEF FindChange, SweepMoves, DayPasses, Restart, vars
<1> QED
  BY <1>1, <1>2, <1>3, <1>4, LifecycleStep, StepKinds DEF LifecycleInv
LEMMA ReasonStep ==
    ASSUME HistoryInv, HistoryStep
    PROVE  ReasonInv'
<1> SUFFICES ASSUME ~excused'
             PROVE  ReasonInv'
  BY DEF ReasonInv
<1>0. /\ LifecycleFieldsAgree /\ LifecycleFieldsAgree' /\ ClosedInv /\ DateInv /\ ~excused
      /\ ReasonInv /\ SelectedInv
  BY LifecycleStep, RowStep DEF HistoryInv, LifecycleInv
\* A selected row that is past its date was closed on that date at the latest.
<1>1. sweepPc \in {"expire", "upgrade"} =>
          /\ sweepDate = share.expiration /\ Expired(share, now)
          /\ closedSince # None /\ closedSince <= sweepDate
  BY <1>0 DEF SelectedInv, ClosedInv, DateInv, Accessible, Expired
<1>2. ASSUME share'.reason \in AutoDeletable
      PROVE  closedSince' <= share'.deactivatedAt
  <2>1. ~share'.isActive
    BY <1>0, <1>2 DEF LifecycleFieldsAgree, AutoDeletable
  <2>2. closedSince' # None
    BY <2>1, RowStep DEF Accessible
  <2>3. CASE sweepPc \in {"expire", "upgrade"} /\ share'.deactivatedAt = sweepDate
    BY <1>1, <2>2, <2>3, RowStep
  <2>4. CASE share'.deactivatedAt = now
    BY <1>0, <2>2, <2>4, RowStep, Numbers DEF ClosedInv
  <2>5. CASE share'.reason = share.reason /\ share'.deactivatedAt = share.deactivatedAt
    <3>1. ~share.isActive /\ closedSince <= share.deactivatedAt
      BY <1>0, <1>2, <2>5 DEF LifecycleFieldsAgree, AutoDeletable, ReasonInv
    <3>2. closedSince # None
      BY <1>0, <3>1 DEF ClosedInv, Accessible
    <3> QED
      BY <2>2, <2>5, <3>1, <3>2, RowStep
  <2> QED
    BY <1>2, <2>1, <2>3, <2>4, <2>5, ReasonChange DEF AutoDeletable
<1>3. ASSUME pausedByHand'
      PROVE  share'.reason = "manual"
  <2>1. ~share'.isActive /\ (share'.reason = "manual" \/ pausedByHand)
    <3>1. CASE Record
      BY <1>3, <3>1 DEF Record
    <3>2. CASE UNCHANGED <<vars, history>>
      BY <1>0, <1>3, <3>2 DEF vars, history, ClosedInv
    <3> QED
      BY <3>1, <3>2 DEF HistoryStep
  <2>2. CASE pausedByHand
    <3>1. share.reason = "manual" /\ ~share.isActive /\ ~Expired(share, now)
      BY <1>0, <2>2 DEF ReasonInv, ClosedInv
    <3> QED
      BY <1>1, <2>1, <3>1, ReasonChange
  <2> QED
    BY <2>1, <2>2
<1> QED
  BY <1>2, <1>3 DEF ReasonInv

\* What an unexcused update makes of the row: it had read the row it writes to.
LEMMA UpdateStep ==
    ASSUME HistoryInv, HistoryStep, ~excused', NEW e \in Expirations \cup {Unchanged},
           NEW m \in Limits \cup {None, Unchanged}, UpdateWrite(e, m), share' # share
    PROVE  /\ exists /\ exists' /\ Record
           /\ share'.expiration = Given(e, share.expiration)
           /\ share'.maxViews = Given(m, share.maxViews) /\ share'.views = share.views
           /\ share'.reason # "none" => share'.reason = share.reason
           /\ share'.isActive <=>
                share.isActive \/ (~Expired(share', now) /\ ~Maxed(share'))
<1> DEFINE r == [share EXCEPT !.expiration = Given(e, @), !.maxViews = Given(m, @),
                              !.warned = @ /\ ~Extends(e) /\ ~RaisesLimit(m)]
<1>1. /\ exists /\ exists' = exists /\ share' = Updated(e, m) /\ Record /\ ownerPc = "update"
      /\ UNCHANGED <<now, requests, sweep>> /\ share \in Row /\ share' \in Row
  BY LifecycleStep
  DEF UpdateWrite, OwnerWrites, HistoryStep, HistoryInv, LifecycleInv, TypeOK, vars
<1>2. ownerRead = share
  BY <1>1 DEF Record, OwnerWrote, Overtakes, requests, sweep
<1>3. share' = IF Revives(e, m) THEN Reactivated(r) ELSE r
  BY <1>1 DEF Updated
<1>4. /\ share'.expiration = Given(e, share.expiration)
      /\ share'.maxViews = Given(m, share.maxViews) /\ share'.views = share.views
      /\ share'.isActive = (share.isActive \/ Revives(e, m))
      /\ share'.reason = IF Revives(e, m) THEN "none" ELSE share.reason
  BY <1>1, <1>3 DEF Reactivated, Row
<1>5. Revives(e, m) <=> ~share.isActive /\ ~Expired(share', now) /\ ~Maxed(share')
  BY <1>1, <1>2, <1>4 DEF Revives, Expired, Maxed, Row
<1> QED
  BY <1>1, <1>4, <1>5

LEMMA EndedStep ==
    ASSUME HistoryInv, HistoryStep
    PROVE  EndedInv'
<1> SUFFICES ASSUME ~excused', share'.reason \in AutoDeletable
             PROVE  Expired(share', now') \/ Maxed(share')
  BY DEF EndedInv
<1>1. /\ EndedInv /\ SelectedInv /\ LastViewInv /\ ~excused /\ ~share'.isActive
      /\ share'.reason \notin {"manual", "none"}
  BY LifecycleStep, RowStep
  DEF HistoryInv, LifecycleInv, LifecycleFieldsAgree, AutoDeletable
\* Whoever ends the share has seen it over.
<1>2. Expired(share, now) \/ Maxed(share)
  BY <1>1, ReasonChange DEF EndedInv, SelectedInv, LastViewInv
\* It stays so, unless the owner changes its terms.
<1>3. CASE /\ share'.expiration = share.expiration /\ share'.maxViews = share.maxViews
           /\ share'.views \in {share.views, share.views + 1}
  BY <1>2, <1>3, TimeStep, Numbers DEF Expired, Maxed
<1>4. CASE UNCHANGED share
  BY <1>3, <1>4
<1>5. ASSUME NEW v \in Visitors, NEW to \in {"idle", "count", "reread", "close"},
             NEW limit \in Limits \cup {None}, VisitChange(v, to, limit)
      PROVE  Expired(share', now') \/ Maxed(share')
  BY <1>3, <1>5, VisitRow DEF HistoryInv
<1>6. CASE SweepStep \/ DayPasses \/ Restart
  BY <1>3, <1>6, SweepSteps
  DEF FindChange, HandleChange, SweepMoves, DayPasses, Restart, HistoryInv
<1>7. CASE OwnerStep /\ share' # share
  <2>1. ASSUME NEW e \in Expirations \cup {Unchanged},
               NEW m \in Limits \cup {None, Unchanged}, UpdateWrite(e, m)
        PROVE  Expired(share', now') \/ Maxed(share')
    <3>1. Expired(share', now) \/ Maxed(share')
      BY <1>1, <1>7, <2>1, UpdateStep
    <3>2. now' = now
      BY <2>1 DEF UpdateWrite, OwnerWrites
    <3> QED
      BY <3>1, <3>2
  <2>2. ResumeWrite => share'.reason = "none"
    BY ReactivatedRow, Numbers DEF ResumeWrite, OwnerWrites
  <2>3. Pause => share'.reason = "manual"
    BY Numbers DEF Pause, OwnerWrites, Deactivated, Row
  <2> QED
    BY <1>1, <1>7, <2>1, <2>2, <2>3
    DEF OwnerStep, OwnerRead, OwnerGone, ResumeRefused, OwnerGivesUp, Delete
<1> QED
  BY <1>4, <1>5, <1>6, <1>7, VisitSteps
  DEF HistoryStep, Next, HistoryInv, vars

LEMMA SelectedStep ==
    ASSUME HistoryInv, HistoryStep
    PROVE  SelectedInv'
<1> SUFFICES ASSUME ~excused'
             PROVE  SelectedInv'
  BY DEF SelectedInv
<1>0. SelectedInv /\ ~excused /\ (\/ Record \/ UNCHANGED <<vars, history>>)
  BY RowStep DEF HistoryInv, HistoryStep
<1>1. CASE OwnerChange
  <2>1. CASE share' = share
    BY <1>0, <1>1, <2>1 DEF OwnerChange, sweep, SelectedInv, Expired, Maxed
  <2>2. CASE share' # share
    BY <1>0, <1>1, <2>2, OwnerUnexcused DEF OwnerChange, sweep, SelectedInv, vars
  <2> QED
    BY <2>1, <2>2
<1>2. ASSUME NEW v \in Visitors, NEW to \in {"idle", "count", "reread", "close"},
             NEW limit \in Limits \cup {None}, VisitChange(v, to, limit)
      PROVE  SelectedInv'
  <2>1. /\ share'.expiration = share.expiration /\ share'.maxViews = share.maxViews
        /\ share'.views \in {share.views, share.views + 1}
        /\ \/ /\ share'.isActive = share.isActive /\ share'.reason = share.reason
              /\ share'.deactivatedAt = share.deactivatedAt
           \/ share.isActive
    BY <1>2, VisitRow DEF HistoryInv
  <2>2. UNCHANGED <<now, sweepPc, sweepDate>>
    BY <1>2 DEF VisitChange, sweep
  <2> QED
    BY <1>0, <2>1, <2>2, Numbers DEF SelectedInv, Expired, Maxed
<1>3. CASE FindChange
  <2>1. sweepNow' <= now /\ sweepNow' \in Nat
    BY <1>3, Numbers DEF FindChange, HistoryInv, SweepInv
  <2>2. share' = share /\ now' = now /\ sweepDate' = share.expiration
    BY <1>3 DEF FindChange
  <2>3. CASE sweepPc' = "expire" /\ ExpiredActive(share, sweepNow')
    BY <2>1, <2>2, <2>3, Numbers DEF SelectedInv, ExpiredActive, Expired
  <2>4. CASE sweepPc' = "max" /\ MaxedActive(share, sweepNow')
    BY <2>2, <2>4 DEF SelectedInv, MaxedActive, Maxed
  <2>5. CASE sweepPc' = "upgrade" /\ PausedExpired(share, sweepNow')
    BY <2>1, <2>2, <2>5, Numbers DEF SelectedInv, PausedExpired, Expired
  <2>6. CASE sweepPc' = "warning"
    BY <2>6 DEF SelectedInv
  <2>7. CASE sweepPc' = "deleting" /\ ToDelete(share, sweepNow')
    BY <2>1, <2>2, <2>7, Numbers DEF SelectedInv, ToDelete
  <2> QED
    BY <1>3, <2>3, <2>4, <2>5, <2>6, <2>7 DEF FindChange
<1>4. CASE HandleChange \/ SweepMoves \/ Restart
  BY <1>4 DEF HandleChange, SweepMoves, Restart, Phases, SelectedInv
<1>5. CASE DayPasses
  BY <1>0, <1>5, Numbers DEF DayPasses, sweep, SelectedInv, Expired, Maxed
<1>6. CASE UNCHANGED vars
  BY <1>0, <1>6 DEF vars, sweep, SelectedInv, Expired, Maxed
<1> QED
  BY <1>1, <1>2, <1>3, <1>4, <1>5, <1>6, LifecycleStep, StepKinds DEF LifecycleInv

LEMMA LastViewStep ==
    ASSUME HistoryInv, HistoryStep
    PROVE  LastViewInv'
<1> SUFFICES ASSUME ~excused'
             PROVE  LastViewInv'
  BY DEF LastViewInv
<1>0. LastViewInv /\ RequestInv /\ ~excused /\ (\/ Record \/ UNCHANGED <<vars, history>>)
  BY RowStep DEF HistoryInv, HistoryStep
<1>1. CASE UNCHANGED requests /\ share'.maxViews = share.maxViews /\ share'.views = share.views
  BY <1>0, <1>1 DEF requests, LastViewInv, Maxed
<1>2. CASE OwnerChange
  <2>1. CASE share' = share
    BY <1>1, <1>2, <2>1 DEF OwnerChange
  <2>2. CASE share' # share
    BY <1>0, <1>2, <2>2, OwnerUnexcused DEF OwnerChange, requests, LastViewInv, vars
  <2> QED
    BY <2>1, <2>2
<1>3. ASSUME NEW v \in Visitors, NEW to \in {"idle", "count", "reread", "close"},
             NEW limit \in Limits \cup {None}, VisitChange(v, to, limit)
      PROVE  LastViewInv'
  <2>1. share'.maxViews = share.maxViews /\ share'.views \in {share.views, share.views + 1}
    BY <1>3, VisitRow DEF HistoryInv
  <2>2. ASSUME NEW w \in Visitors \ {v}
        PROVE  /\ visitPc'[w] \in {"count", "reread"} => visitLimit'[w] = share'.maxViews
               /\ visitPc'[w] = "close" => Maxed(share')
    <3>1. visitPc'[w] = visitPc[w] /\ visitLimit'[w] = visitLimit[w]
      BY <1>3 DEF VisitChange, HistoryInv, TypeOK
    <3> QED
      BY <1>0, <2>1, <3>1, Numbers DEF LastViewInv, Maxed
  <2>3. visitPc'[v] = to /\ visitLimit'[v] = limit
    BY <1>3 DEF VisitChange, HistoryInv, TypeOK
  <2>4. to \in {"count", "reread"} => limit = share'.maxViews
    BY <1>0, <1>3, <2>1 DEF VisitChange, LastViewInv
  <2>5. to = "close" => Maxed(share')
    BY <1>0, <1>3, <2>1, Numbers DEF VisitChange, LastViewInv, RequestInv, Maxed
  <2> QED
    BY <2>2, <2>3, <2>4, <2>5 DEF LastViewInv
<1>4. CASE FindChange \/ HandleChange \/ SweepMoves \/ DayPasses \/ UNCHANGED vars
  BY <1>1, <1>4 DEF FindChange, HandleChange, SweepMoves, DayPasses, vars
<1>5. CASE Restart
  BY <1>5 DEF Restart, LastViewInv
<1> QED
  BY <1>2, <1>3, <1>4, <1>5, LifecycleStep, StepKinds DEF LifecycleInv

-----------------------------------------------------------------------------
(* The theorems about a share's past.                                      *)

\* The inductive invariant with the histories.
THEOREM HistoryInvariant == HistorySpec => []HistoryInv
<1>1. HistoryInv /\ HistoryStep => HistoryInv'
  <2> SUFFICES ASSUME HistoryInv, HistoryStep
               PROVE  HistoryInv'
    OBVIOUS
  <2> QED
    BY LifecycleStep, HistoryTypeStep, LimitStep, ClosedStep, DateStep, ReasonStep,
       EndedStep, SelectedStep, LastViewStep
    DEF HistoryInv, LifecycleInv
<1> QED
  BY <1>1, HistoryInitially, PTL DEF HistorySpec, HistoryStep

\* However many visitors race for the last views, and whatever limits the
\* owner sets meanwhile, no more views are counted than the highest limit.
THEOREM ViewLimitKept == HistorySpec => []ViewsWithinLimit
<1>1. HistoryInv => ViewsWithinLimit
  BY DEF HistoryInv, LimitInv, ViewsWithinLimit
<1> QED
  BY <1>1, HistoryInvariant, PTL

\* The run deletes no share that was not closed for the whole grace period.
THEOREM GraceKept == HistorySpec => DeletedOnlyAfterGrace
<1>1. HistoryInv => (SweepDeletes /\ ~excused => closedSince # None /\ now - closedSince > Grace)
  <2> SUFFICES ASSUME HistoryInv, SweepDeletes, ~excused
               PROVE  closedSince # None /\ now - closedSince > Grace
    OBVIOUS
  <2>1. /\ ~share.isActive /\ share.reason \in AutoDeletable
        /\ share.deactivatedAt < now - Grace
    BY DEF HistoryInv, SelectedInv, SweepDeletes
  <2>2. closedSince <= share.deactivatedAt
    BY <2>1 DEF HistoryInv, ReasonInv
  <2>3. closedSince # None
    BY <2>1 DEF HistoryInv, ClosedInv, Accessible
  <2> QED
    BY <2>1, <2>2, <2>3, Numbers
<1> QED
  BY <1>1, HistoryInvariant, PTL DEF DeletedOnlyAfterGrace

\* The run deletes no share its owner paused before it ended.
THEOREM PauseKept == HistorySpec => PausedIsKept
<1>1. HistoryInv => (SweepDeletes /\ ~excused => ~pausedByHand)
  BY DEF HistoryInv, SelectedInv, ReasonInv, SweepDeletes, AutoDeletable
<1> QED
  BY <1>1, HistoryInvariant, PTL DEF PausedIsKept

\* Neither a visitor nor the run closes a share that has not ended.
THEOREM ClosedAtItsEnd == HistorySpec => DeactivatedOnlyAtItsEnd
<1>1. HistoryInv /\ [Next /\ Record]_<<vars, history>> =>
        (share.isActive /\ share'.reason \in AutoDeletable /\ ~excused
            => Expired(share, now) \/ Maxed(share))
  <2> SUFFICES ASSUME HistoryInv, HistoryStep, share.isActive, share'.reason \in AutoDeletable,
                      ~excused
               PROVE  Expired(share, now) \/ Maxed(share)
    BY DEF HistoryStep
  <2>1. share.reason = "none" /\ ~share'.isActive
    BY LifecycleStep DEF LifecycleInv, LifecycleFieldsAgree, AutoDeletable
  <2>2. \/ sweepPc \in {"expire", "upgrade", "max"}
        \/ \E v \in Visitors : visitPc[v] = "close"
    BY <2>1, ReasonChange DEF AutoDeletable
  <2> QED
    BY <2>2 DEF HistoryInv, SelectedInv, LastViewInv
<1> QED
  BY <1>1, HistoryInvariant, PTL DEF HistorySpec, DeactivatedOnlyAtItsEnd

-----------------------------------------------------------------------------
(* The refinement of TwoPhases, as long as nothing is excused.             *)

\* What TwoPhases sees of a share, apart from the day since which it is refused.
Seen == <<now, Phase, share.expiration, share.maxViews, share.views, Guests>>

\* That day follows from the rest.
LEMMA SeenSteps ==
    ASSUME HistoryInv, HistoryStep, Lifecycle!Step \/ UNCHANGED Seen
    PROVE  [Lifecycle!Next]_Lifecycle!vars
<1>1. closedSince = None <=> exists /\ Accessible(share, now)
  BY DEF HistoryInv, ClosedInv
<1>2. /\ Lifecycle!Served <=> exists /\ Accessible(share, now)
      /\ Lifecycle!Served' <=> exists' /\ Accessible(share', now')
  BY DEF Lifecycle!Served, Lifecycle!Over, Lifecycle!None, None, Phase, Accessible, Expired, Maxed
<1>3. CASE UNCHANGED <<vars, history>>
  BY <1>3 DEF vars, history, requests, Lifecycle!vars, Lifecycle!terms, Phase, Guests
<1>4. CASE Next /\ Record
  <2>1. Lifecycle!Refused
    BY <1>2, <1>4 DEF Record, Lifecycle!Refused, Lifecycle!None, None
  <2>2. CASE Lifecycle!Step
    BY <2>1, <2>2 DEF Lifecycle!Next
  <2>3. CASE UNCHANGED Seen
    <3>1. Lifecycle!Served' <=> Lifecycle!Served
      BY <2>3 DEF Seen, Lifecycle!Served, Lifecycle!Over
    <3>2. closedSince' = closedSince
      BY <1>1, <1>2, <2>1, <3>1 DEF Lifecycle!Refused, Lifecycle!None, None
    <3> QED
      BY <2>3, <3>2 DEF Seen, Lifecycle!vars, Lifecycle!terms
  <2> QED
    BY <2>2, <2>3
<1> QED
  BY <1>3, <1>4 DEF HistoryStep

\* Only a deletion by the run changes "removed".
LEMMA RemovedStep ==
    ASSUME HistoryInv, HistoryStep
    PROVE  /\ removed => ~exists
           /\ exists /\ ~exists' => (removed' <=> SweepDeletes)
           /\ /\ exists' = exists /\ share'.isActive = share.isActive
              /\ share'.reason = share.reason
              => Phase' = Phase
<1>1. removed \in BOOLEAN /\ removed' \in BOOLEAN
  BY HistoryTypeStep DEF HistoryInv, HistoryTypeOK
<1>2. removed => ~exists
  BY DEF HistoryInv, ClosedInv
<1>3. CASE Record
  <2>1. removed' <=> removed \/ SweepDeletes
    BY <1>3 DEF Record
  <2>2. exists /\ ~exists' => (removed' <=> SweepDeletes)
    BY <1>2, <2>1
  <2>3. exists' = exists => ~SweepDeletes
    BY DEF SweepDeletes
  <2>4. exists' = exists => removed' = removed
    BY <1>1, <2>1, <2>3
  <2> QED
    BY <1>2, <2>2, <2>4 DEF Phase
<1>4. CASE UNCHANGED <<vars, history>>
  BY <1>2, <1>4 DEF vars, history, Phase
<1> QED
  BY <1>3, <1>4 DEF HistoryStep

\* A visitor's request enters, is counted or leaves, or closes what is over.
LEMMA VisitorPhases ==
    ASSUME HistoryInv, HistoryStep, ~excused', NEW v \in Visitors, VisitStep(v)
    PROVE  Lifecycle!Step \/ UNCHANGED Seen
<1>1. /\ ~excused /\ share \in Row /\ now \in Nat
      /\ visitPc \in [Visitors -> {"idle", "count", "reread", "close"}]
  BY RowStep, DatesAssumption DEF HistoryInv, TypeOK
<1>2. CASE VisitRead(v)
  <2>1. Lifecycle!Enter(v)
    BY <1>1, <1>2 DEF VisitRead, Visit, Lifecycle!Enter, Lifecycle!Served, Lifecycle!Over,
       Lifecycle!None, None, Lifecycle!terms, Phase, Guests, Accessible, Expired, Maxed
  <2> QED
    BY <2>1 DEF Lifecycle!Step
<1>3. CASE VisitCount(v) /\ Counted(v)
  <2>1. share' = [share EXCEPT !.views = @ + 1] /\ UNCHANGED <<now, exists>> /\ exists
    BY <1>3 DEF VisitCount, Visit, Counted
  <2>2. /\ share'.views = share.views + 1 /\ share'.expiration = share.expiration
        /\ share'.maxViews = share.maxViews /\ Phase' = Phase /\ Lifecycle!Exists
    BY <1>1, <2>1 DEF Row, Phase, Lifecycle!Exists
  <2>3. v \in Guests /\ Guests' = Guests \ {v}
    BY <1>1, <1>3 DEF VisitCount, Visit, Guests
  <2>4. share.maxViews # None => share.views < share.maxViews
    BY <1>1, <1>3 DEF VisitCount, Visit, Counted, HistoryInv, LastViewInv
  <2>5. Lifecycle!Count(v)
    BY <2>1, <2>2, <2>3, <2>4 DEF Lifecycle!Count, Lifecycle!None, None, Lifecycle!terms
  <2> QED
    BY <2>5 DEF Lifecycle!Step
<1>4. CASE VisitCount(v) /\ ~Counted(v)
  <2>1. Lifecycle!Leave({v})
    BY <1>1, <1>4, RemovedStep DEF VisitCount, Visit, Lifecycle!Leave, Lifecycle!terms, Guests
  <2> QED
    BY <2>1 DEF Lifecycle!Step
<1>5. CASE VisitClose(v) /\ exists /\ share.isActive
  <2>1. /\ visitPc[v] = "close" /\ visitPc' = [visitPc EXCEPT ![v] = "idle"]
        /\ share' = Deactivated(share, "max_views", now) /\ UNCHANGED <<now, exists>>
    BY <1>5 DEF VisitClose, Visit
  <2>2. Maxed(share)
    BY <1>1, <2>1 DEF HistoryInv, LastViewInv
  <2>3. /\ share'.views = share.views /\ share'.expiration = share.expiration
        /\ share'.maxViews = share.maxViews /\ ~share'.isActive /\ share'.reason = "max_views"
    BY <1>1, <2>1, DeactivatedRow
  <2>4. Guests' = Guests
    BY <1>1, <2>1 DEF Guests
  <2>5. Lifecycle!End
    BY <1>5, <2>1, <2>2, <2>3, <2>4 DEF Lifecycle!End, Lifecycle!Over, Lifecycle!Goes,
       Lifecycle!None, None, Lifecycle!terms, Phase, Maxed
  <2> QED
    BY <2>5 DEF Lifecycle!Step
<1>6. CASE VisitReread(v) \/ VisitCloseFails(v)
  BY <1>1, <1>6, RemovedStep DEF VisitReread, VisitCloseFails, Visit, Seen, Guests
<1>7. CASE VisitClose(v) /\ ~(exists /\ share.isActive)
  BY <1>1, <1>7, RemovedStep DEF VisitClose, Visit, Seen, Guests
<1>8. CASE VisitCount(v)
  BY <1>3, <1>4, <1>8
<1>9. CASE VisitClose(v)
  BY <1>5, <1>7, <1>9
<1> QED
  BY <1>2, <1>6, <1>8, <1>9 DEF VisitStep

\* The run ends what is over and removes what has ended.
LEMMA RunPhases ==
    ASSUME HistoryInv, HistoryStep, ~excused', SweepStep
    PROVE  Lifecycle!Step \/ UNCHANGED Seen
<1>1. ~excused /\ TypeOK
  BY RowStep DEF HistoryInv
<1>2. UNCHANGED <<now, requests>>
  BY <1>1, SweepSteps DEF FindChange, HandleChange, SweepMoves
<1>3. Guests' = Guests
  BY <1>2 DEF Guests, requests
<1>4. CASE FindChange \/ (SweepMoves /\ exists' = exists)
  BY <1>3, <1>4, RemovedStep DEF FindChange, SweepMoves, Seen
<1>5. CASE SweepMoves /\ exists' # exists
  <2>1. /\ sweepPc = "deleting" /\ exists /\ ~exists' /\ UNCHANGED <<now, share>>
        /\ removed'
    BY <1>1, <1>5, RemovedStep DEF SweepMoves, SweepDeletes, TypeOK
  <2>2. /\ ~share.isActive /\ share.reason \in AutoDeletable
        /\ share.deactivatedAt < now - Grace
    BY <1>1, <2>1 DEF HistoryInv, SelectedInv
  <2>3. closedSince <= share.deactivatedAt /\ closedSince # None
    BY <1>1, <2>2 DEF HistoryInv, ReasonInv, ClosedInv, Accessible
  <2>4. now - closedSince > Grace
    BY <2>2, <2>3, Numbers
  <2>5. Lifecycle!Remove
    BY <1>3, <2>1, <2>2, <2>3, <2>4 DEF Lifecycle!Remove, Lifecycle!Goes, Lifecycle!None, None,
       Lifecycle!terms, Phase, AutoDeletable
  <2> QED
    BY <2>5 DEF Lifecycle!Step
<1>6. CASE HandleChange
  <2>1. /\ UNCHANGED <<now, exists>>
        /\ share'.views = share.views /\ share'.expiration = share.expiration
        /\ share'.maxViews = share.maxViews
    BY <1>6 DEF HandleChange
  <2>2. CASE share'.isActive = share.isActive /\ share'.reason = share.reason
    BY <1>3, <2>1, <2>2, RemovedStep DEF Seen
  <2>3. CASE /\ sweepPc \in {"expire", "max", "upgrade"} /\ exists
             /\ ~share'.isActive /\ share'.reason \in AutoDeletable
    <3>1. Lifecycle!Over
      BY <1>1, <2>3 DEF HistoryInv, SelectedInv, Expired, Maxed, Lifecycle!Over,
         Lifecycle!None, None
    <3>2. Phase' = "ended" /\ Phase \in {"open", "paused", "ended"}
      BY <2>1, <2>3 DEF Phase, AutoDeletable
    <3>3. CASE Phase = "ended"
      BY <1>3, <2>1, <3>2, <3>3 DEF Seen
    <3>4. CASE Phase # "ended"
      BY <1>3, <2>1, <3>1, <3>2, <3>4 DEF Lifecycle!Step, Lifecycle!End, Lifecycle!Goes,
         Lifecycle!terms
    <3> QED
      BY <3>3, <3>4
  <2> QED
    BY <1>6, <2>2, <2>3 DEF HandleChange, AutoDeletable
<1> QED
  BY <1>1, <1>4, <1>5, <1>6, SweepSteps

\* The owner revises, resumes, pauses or discards what nobody else is at.
LEMMA OwnerPhases ==
    ASSUME HistoryInv, HistoryStep, ~excused', ~reopened', OwnerStep
    PROVE  Lifecycle!Step \/ UNCHANGED Seen
<1>1. /\ ~excused /\ share \in Row /\ now \in Nat /\ exists \in BOOLEAN /\ share' \in Row
      /\ share.isActive <=> share.reason = "none"
      /\ share'.isActive <=> share'.reason = "none"
  BY RowStep, LifecycleStep, DatesAssumption
  DEF HistoryInv, TypeOK, LifecycleInv, LifecycleFieldsAgree
<1>2. UNCHANGED <<now, requests, sweep>> /\ Guests' = Guests
  BY OwnerSteps DEF OwnerChange, HistoryInv, Guests, requests
<1>3. share' # share => /\ Record /\ (ownerPc # "idle" => ownerRead = share)
                        /\ share'.expiration = share.expiration \/ ~Expired(share', now)
  BY <1>2 DEF HistoryStep, Record, OwnerWrote, Overtakes, PastDateSet, vars, history,
     requests, sweep
<1>4. CASE \/ \E op \in {"update", "resume"} : OwnerRead(op)
           \/ OwnerGone \/ ResumeRefused
  BY <1>2, <1>4, RemovedStep DEF OwnerRead, OwnerGone, ResumeRefused, OwnerGivesUp, Seen
<1>5. ASSUME NEW e \in Expirations \cup {Unchanged},
             NEW m \in Limits \cup {None, Unchanged}, UpdateWrite(e, m), share' # share
      PROVE  Lifecycle!Step
  <2> DEFINE d == share'.expiration
             n == share'.maxViews
             Lengthened == Longer(share.expiration, d) \/ Longer(share.maxViews, n)
  <2>1. /\ exists /\ exists' /\ Record /\ share'.views = share.views
        /\ share'.reason # "none" => share'.reason = share.reason
        /\ share'.isActive <=> share.isActive \/ (~Expired(share', now) /\ ~Maxed(share'))
    BY <1>5, UpdateStep
  <2>2. d \in Expirations \cup {None} /\ n \in Limits \cup {None}
    BY <1>1 DEF Row
  <2>3. /\ d \in Int /\ n \in Int /\ share.expiration \in Int /\ share.maxViews \in Int
        /\ share.views \in Int
    <3>1. /\ share.expiration \in Int /\ share.maxViews \in Int /\ share.views \in Int
          /\ None \in Int
      BY Numbers
    <3> HIDE DEF d, n
    <3>2. d \in Int /\ n \in Int
      BY <2>2, <3>1, DatesAssumption, LimitsAssumption
    <3> QED
      BY <3>1, <3>2
  <2>4. Lifecycle!Over' <=> Expired(share', now) \/ Maxed(share')
    BY <1>2 DEF Lifecycle!Over, Lifecycle!None, None, Expired, Maxed
  \* A paused share is opened by an extension only (else reopened), and one
  \* that had ended was over before.
  <2>5. ~share.isActive /\ share'.isActive => Lengthened
    <3>1. CASE share.reason = "manual"
      BY <1>5, <2>1, <3>1 DEF Record, Reopens, UpdateWrite
    <3>2. CASE share.reason \in AutoDeletable /\ ~share.isActive /\ share'.isActive
      <4>1. ~Expired(share', now) /\ ~Maxed(share')
        BY <2>1, <3>2
      <4>2. Expired(share, now) \/ Maxed(share)
        BY <1>1, <3>2 DEF HistoryInv, EndedInv
      <4> QED
        BY <1>1, <2>1, <2>3, <4>1, <4>2 DEF Expired, Maxed, Longer
    <3> QED
      BY <1>1, <3>1, <3>2 DEF Row
  <2>6. Phase' = IF Lengthened /\ ~Lifecycle!Over' THEN "open" ELSE Phase
    <3>1. CASE share'.isActive
      BY <2>1, <2>4, <2>5, <3>1 DEF Phase
    <3>2. CASE ~share'.isActive
      BY <1>1, <2>1, <2>4, <3>2 DEF Phase
    <3> QED
      BY <3>1, <3>2
  <2>7. d # share.expiration => d = None \/ now <= d
    BY <1>1, <1>3, <1>5, <2>3 DEF Expired
  <2>8. Lengthened <=> \/ Lifecycle!Longer(share.expiration, d)
                       \/ Lifecycle!Longer(share.maxViews, n)
    BY DEF Longer, Lifecycle!Longer, Lifecycle!None, None
  <2>9. Lifecycle!Revise(d, n)
    BY <1>2, <2>1, <2>6, <2>7, <2>8 DEF Lifecycle!Revise, Lifecycle!None, None,
       Lifecycle!Exists, Phase
  <2> QED
    BY <2>2, <2>9 DEF Lifecycle!Step, Lifecycle!None, None
<1>6. CASE ResumeWrite /\ share' # share
  <2>1. /\ exists /\ exists' = exists /\ share' = Reactivated(share)
        /\ ~Expired(share, now) /\ ~Maxed(share)
    BY <1>3, <1>6 DEF ResumeWrite, OwnerWrites
  <2>2. /\ share'.isActive /\ share'.expiration = share.expiration
        /\ share'.maxViews = share.maxViews /\ share'.views = share.views
    BY <1>1, <2>1, ReactivatedRow
  <2>3. CASE share.isActive
    BY <1>2, <2>1, <2>2, <2>3 DEF Seen, Phase
  <2>4. CASE ~share.isActive
    <3>1. share.reason = "manual"
      BY <1>1, <2>1, <2>4 DEF HistoryInv, EndedInv, Row
    <3>2. ~Lifecycle!Over /\ Phase = "paused" /\ Phase' = "open"
      BY <2>1, <2>2, <2>4, <3>1 DEF Lifecycle!Over, Lifecycle!None, None, Phase, Expired, Maxed
    <3>3. Lifecycle!Resume
      BY <1>2, <2>2, <3>2 DEF Lifecycle!Resume, Lifecycle!Goes, Lifecycle!terms
    <3> QED
      BY <3>3 DEF Lifecycle!Step
  <2> QED
    BY <2>3, <2>4
<1>7. CASE Pause
  <2>1. exists /\ exists' = exists /\ share' = Deactivated(share, "manual", now)
    BY <1>7 DEF Pause, OwnerWrites
  <2>2. /\ ~share'.isActive /\ share'.reason = "manual" /\ share'.views = share.views
        /\ share'.expiration = share.expiration /\ share'.maxViews = share.maxViews
    BY <1>1, <2>1, DeactivatedRow
  <2>3. Lifecycle!Pause
    BY <1>2, <2>1, <2>2 DEF Lifecycle!Pause, Lifecycle!Goes, Lifecycle!terms, Phase
  <2> QED
    BY <2>3 DEF Lifecycle!Step
<1>8. CASE Delete
  <2>1. Lifecycle!Discard
    BY <1>2, <1>8, RemovedStep DEF Delete, SweepDeletes, sweep, Lifecycle!Discard,
       Lifecycle!Goes, Lifecycle!terms, Phase
  <2> QED
    BY <2>1 DEF Lifecycle!Step
<1>9. CASE UNCHANGED share /\ exists' = exists
  BY <1>2, <1>9, RemovedStep DEF Seen
<1> QED
  <2>1. ASSUME NEW e \in Expirations \cup {Unchanged},
               NEW m \in Limits \cup {None, Unchanged}, UpdateWrite(e, m)
        PROVE  Lifecycle!Step \/ UNCHANGED Seen
    BY <1>5, <1>9, <2>1 DEF UpdateWrite, OwnerWrites
  <2>2. CASE ResumeWrite
    BY <1>6, <1>9, <2>2 DEF ResumeWrite, OwnerWrites
  <2> QED
    BY <1>4, <1>7, <1>8, <2>1, <2>2 DEF OwnerStep

\* Until it is excused, and but for updates that reopen a paused share without
\* extending it, the share has the two-phase lifecycle that the documentation
\* describes (automatic-cleanup.mdx), however its writers interleave and fail.
THEOREM ShareHasTwoPhases == HistorySpec => HasTwoPhases
<1>1. Init /\ HistoryInit => Lifecycle!Init
  BY DEF Init, HistoryInit, Blank, Lifecycle!Init, Lifecycle!Served, Lifecycle!Over,
     Lifecycle!None, None, Phase, Guests, Accessible, Expired, Maxed
<1>2. HistoryInv /\ HistoryStep => [Lifecycle!Next]_Lifecycle!vars
  <2> SUFFICES ASSUME HistoryInv, HistoryStep, ~excused', ~reopened'
               PROVE  Lifecycle!Step \/ UNCHANGED Seen
    BY SeenSteps DEF Lifecycle!Next
  <2>1. CASE OwnerStep
    BY <2>1, OwnerPhases
  <2>2. CASE SweepStep
    BY <2>2, RunPhases
  <2>3. CASE \E v \in Visitors : VisitStep(v)
    BY <2>3, VisitorPhases
  <2>4. CASE DayPasses
    BY <2>4, RemovedStep DEF DayPasses, Lifecycle!Step, Lifecycle!DayPasses, Lifecycle!terms,
       Guests, requests
  <2>5. CASE Restart
    <3>1. Guests \in SUBSET Visitors /\ Guests' = {}
      BY <2>5 DEF Restart, Guests
    <3>2. Lifecycle!Leave(Guests)
      BY <2>5, <3>1, RemovedStep DEF Restart, Lifecycle!Leave, Lifecycle!terms
    <3> QED
      BY <3>1, <3>2 DEF Lifecycle!Step
  <2>6. CASE UNCHANGED <<vars, history>>
    BY <2>6, RemovedStep DEF vars, requests, Seen, Guests
  <2> QED
    BY <2>1, <2>2, <2>3, <2>4, <2>5, <2>6 DEF HistoryStep, Next
<1> QED
  BY <1>1, <1>2, HistoryInvariant, PTL DEF HistorySpec, HistoryStep, HasTwoPhases, Lifecycle!Spec
=============================================================================
