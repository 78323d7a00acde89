---------------------------- MODULE AccountProofs ----------------------------
(***************************************************************************)
(* Proofs about the table of accounts, for any number of accounts and of   *)
(* concurrent requests, and, at the end, about the second factor of an     *)
(* account, for any number of attempts, devices, lists and steps.          *)
(***************************************************************************)
EXTENDS AccountHistory, TwoFactorHistory, TLAPS

-----------------------------------------------------------------------------
(* The kinds of steps.                                                     *)

Rows == <<now, user, invite, directory>>

\* The operations that can take an administrator away.
GuardedOps == {"demote", "disable"} \cup Removals

\* A request goes on as "new" and leaves the table alone.
CallMoves(c, new) ==
    /\ UNCHANGED <<Rows, sync, listed>>
    /\ call' = [call EXCEPT ![c] = new]
    /\ new.pc = "idle" => new = Idle
    /\ new.pc # "idle" => new.target \in Users
    /\ new.pc \in {"guard", "count", "write"} =>
            new.op \in Updates \cup Removals /\ user[new.target].exists
    /\ new.pc \in {"guard", "count"} => new.op \in GuardedOps
    /\ new.pc = "write" /\ new.op \in GuardedOps /\ new.target \in Admins =>
            Admins \ {new.target} # {}

\* Steps of the synchronisation, and a restart, that leave the table alone.
SyncMoves ==
    \/ SyncStart \/ SyncLogged \/ SyncLogFails \/ SyncFetch \/ SyncLocal
    \/ \E u \in Users : SyncMemberFails(u)
    \/ SyncFails \/ \E completed \in BOOLEAN : SyncEnd(completed)
    \/ \E recovered \in BOOLEAN : Restart(recovered)

\* Steps that write the table.
TableStep ==
    \/ \E c \in Calls : WriteRow(c) \/ DeleteRow(c) \/ RegisterCreate(c) \/ InviteClaim(c)
    \/ \E u \in Users : Activate(u) \/ SyncMember(u)
    \/ SyncBatch

OtherStep ==
    \/ CleanupList \/ \E u \in Users : PurgeAccount(u) \/ DirectoryChanges(u)
    \/ DayPasses

LEMMA CallKinds ==
    ASSUME TypeOK, CallInv, NEW c \in Calls, CallStep(c)
    PROVE  \/ \E new \in Request : CallMoves(c, new)
           \/ WriteRow(c) \/ DeleteRow(c) \/ RegisterCreate(c) \/ InviteClaim(c)
<1> USE DEF Rows, GuardedOps
<1>1. ASSUME NEW t \in Users, NEW self \in BOOLEAN, NEW op \in Updates, UpdateRead(c, op, t, self)
      PROVE  \E new \in Request : CallMoves(c, new)
  <2> DEFINE Begun(pc, me) == [pc |-> pc, op |-> op, target |-> t, self |-> me,
                               saw |-> user[t].active]
  <2>1. user[t].active \in BOOLEAN
    BY DEF TypeOK, Row
  <2>2. Begun("guard", self) \in Request /\ Begun("write", FALSE) \in Request
    BY <2>1 DEF Request, CallPcs, Operations
  <2>3. CASE Guarded(op, user[t])
    <3>1. op \in GuardedOps
      BY <2>3 DEF Guarded
    <3> QED
      BY <1>1, <2>2, <2>3, <3>1 DEF UpdateRead, Suspends, CallMoves
  <2>4. CASE ~Guarded(op, user[t])
    <3>1. op \in GuardedOps => t \notin Admins
      BY <2>4 DEF Guarded, Admins, Updates, Removals
    <3> QED
      BY <1>1, <2>2, <2>4, <3>1 DEF UpdateRead, Suspends, CallMoves
  <2> QED
    BY <2>3, <2>4
<1>2. ASSUME NEW t \in Users, NEW self \in BOOLEAN, NEW op \in Removals,
             RemovalBegins(c, op, t, self)
      PROVE  \E new \in Request : CallMoves(c, new)
  <2> DEFINE new == [pc |-> "guard", op |-> op, target |-> t, self |-> self, saw |-> TRUE]
  <2>1. new \in Request
    BY DEF Request, CallPcs, Operations
  <2> QED
    BY <1>2, <2>1 DEF RemovalBegins, Suspends, CallMoves
<1>3. ASSUME NEW t \in Users, RegisterCount(c, t) \/ InviteRead(c, t)
      PROVE  \E new \in Request : CallMoves(c, new)
  <2> DEFINE Begun(pc, op, saw) == [pc |-> pc, op |-> op, target |-> t, self |-> FALSE,
                                    saw |-> saw]
  <2>1. Begun("create", "register", NobodyYet) \in Request /\ Begun("claim", "invite", FALSE) \in Request
    BY DEF Request, CallPcs, Operations, NobodyYet
  <2> QED
    BY <1>3, <2>1 DEF RegisterCount, InviteRead, Suspends, CallMoves
<1>4. Idle \in Request
  BY DEF Idle, Request, CallPcs, Operations
<1>5. ASSUME GuardTarget(c)
      PROVE  \E new \in Request : CallMoves(c, new)
  <2>1. call[c].target \in Users /\ call[c].op \in GuardedOps /\ user[call[c].target].exists
    BY <1>5 DEF GuardTarget, CallInv
  <2>2. call[c] \in Request
    BY DEF TypeOK
  <2>3. [call[c] EXCEPT !.pc = "write"] \in Request /\ [call[c] EXCEPT !.pc = "count"] \in Request
    BY <2>2 DEF Request, CallPcs
  <2>4. CASE call' = [call EXCEPT ![c] = Idle]
    BY <1>4, <1>5, <2>4 DEF GuardTarget, CallMoves, Idle
  <2>5. CASE call' = [call EXCEPT ![c] = [@ EXCEPT !.pc = "count"]]
    <3>1. CallMoves(c, [call[c] EXCEPT !.pc = "count"])
      BY <1>5, <2>1, <2>2, <2>5 DEF GuardTarget, CallMoves, Request, Updates, Removals
    <3> QED
      BY <2>3, <3>1
  <2>6. CASE call' = [call EXCEPT ![c] = [@ EXCEPT !.pc = "write"]] /\ call[c].target \notin Admins
    <3>1. CallMoves(c, [call[c] EXCEPT !.pc = "write"])
      BY <1>5, <2>1, <2>2, <2>6 DEF GuardTarget, CallMoves, Request, Updates, Removals
    <3> QED
      BY <2>3, <3>1
  <2> QED
    BY <1>5, <2>4, <2>5, <2>6 DEF GuardTarget, Continues, Admins
<1>6. ASSUME GuardCount(c)
      PROVE  \E new \in Request : CallMoves(c, new)
  <2>1. call[c].target \in Users /\ call[c].op \in GuardedOps /\ user[call[c].target].exists
    BY <1>6 DEF GuardCount, CallInv
  <2>2. call[c] \in Request
    BY DEF TypeOK
  <2>3. [call[c] EXCEPT !.pc = "write"] \in Request
    BY <2>2 DEF Request, CallPcs
  <2>4. CASE call' = [call EXCEPT ![c] = Idle]
    BY <1>4, <1>6, <2>4 DEF GuardCount, CallMoves, Idle
  <2>5. CASE call' = [call EXCEPT ![c] = [@ EXCEPT !.pc = "write"]] /\ Others(c) # {}
    <3>1. CallMoves(c, [call[c] EXCEPT !.pc = "write"])
      BY <1>6, <2>1, <2>2, <2>5 DEF GuardCount, CallMoves, Request, Updates, Removals, Others
    <3> QED
      BY <2>3, <3>1
  <2> QED
    BY <1>6, <2>4, <2>5 DEF GuardCount, Continues
<1>7. ASSUME CallFails(c)
      PROVE  \E new \in Request : CallMoves(c, new)
  <2>1. CallMoves(c, Idle)
    BY <1>7 DEF CallFails, Continues, CallMoves, Idle
  <2> QED
    BY <1>4, <2>1
<1> QED
  BY <1>1, <1>2, <1>3, <1>5, <1>6, <1>7 DEF CallStep

\* Every step is of one of these kinds.
LEMMA Kinds ==
    ASSUME TypeOK, CallInv, Next
    PROVE  \/ \E c \in Calls, new \in Request : CallMoves(c, new)
           \/ SyncMoves \/ TableStep \/ OtherStep
BY CallKinds DEF Next, SyncStep, SyncMoves, TableStep, OtherStep

\* What a step does to one row of the table.
RowStep(u) ==
    \/ user'[u] = user[u]
    \/ \* created
       /\ ~user[u].exists /\ user'[u].exists /\ user'[u].active /\ user'[u].since = None
    \/ \* updated
       /\ user[u].exists /\ user'[u].exists /\ user'[u].ldap = user[u].ldap
       /\ \/ user'[u].since = user[u].since
             /\ (user'[u].active => user[u].active \/ user[u].since = None \/ KeepsDate(u))
          \/ user'[u].since = now /\ ~user'[u].active
          \/ user'[u].since = None
    \/ \* deleted
       /\ user'[u] = Absent

LEMMA RowSteps ==
    ASSUME TypeOK, CallInv, SyncInv, DateInv, TableStep
    PROVE  /\ UNCHANGED now
           /\ user' \in [Users -> Row]
           /\ \A u \in Users : RowStep(u)
           /\ \A u \in Users : user[u].exists /\ ~user'[u].exists =>
                    /\ local'[u] \in {"none", "gone"} /\ u \notin listed'
                    /\ \A c \in Calls : call'[c].target = u =>
                            call'[c].pc \notin {"guard", "count", "write"}
<1>1. ASSUME NEW c \in Calls, WriteRow(c)
      PROVE  /\ UNCHANGED now
             /\ user' \in [Users -> Row]
             /\ \A u \in Users : RowStep(u)
             /\ \A u \in Users : user[u].exists => user'[u].exists
  <2> DEFINE t == call[c].target
             op == call[c].op
  <2>1. t \in Users /\ user[t].exists /\ user[t] \in Row /\ op \in Updates \cup Removals
    BY <1>1 DEF WriteRow, CallInv, TypeOK
  <2>2. user' = [user EXCEPT ![t] = Written(user[t], op, call[c].saw)] /\ now' = now
    BY <1>1 DEF WriteRow
  <2>3. op # "delete"
    BY <1>1 DEF WriteRow
  <2>4. Written(user[t], op, call[c].saw) \in Row
    BY <2>1, <2>3 DEF Written, Row, Updates, Removals, TypeOK
  <2>5. user' \in [Users -> Row] /\ user'[t] = Written(user[t], op, call[c].saw)
    BY <2>1, <2>2, <2>4 DEF TypeOK
  <2>6. \A u \in Users : u # t => user'[u] = user[u]
    BY <2>2 DEF TypeOK
  <2>7. op = "enable" /\ call[c].saw => KeepsDate(t)
    BY <1>1 DEF KeepsDate
  <2>8. user'[t].exists /\ user'[t].ldap = user[t].ldap
    BY <2>1, <2>3, <2>5 DEF Written, Row, Updates, Removals
  <2>9. RowStep(t)
    BY <2>1, <2>3, <2>5, <2>7, <2>8 DEF Written, Row, Updates, Removals, RowStep
  <2> QED
    BY <2>1, <2>2, <2>5, <2>6, <2>8, <2>9 DEF RowStep
<1>2. ASSUME NEW c \in Calls, DeleteRow(c)
      PROVE  /\ UNCHANGED now
             /\ user' \in [Users -> Row]
             /\ \A u \in Users : RowStep(u)
             /\ \A u \in Users : user[u].exists /\ ~user'[u].exists =>
                    /\ local'[u] \in {"none", "gone"} /\ u \notin listed'
                    /\ \A d \in Calls : call'[d].target = u =>
                            call'[d].pc \notin {"guard", "count", "write"}
  <2> DEFINE t == call[c].target
  <2>1. t \in Users /\ user' = [user EXCEPT ![t] = Absent] /\ now' = now
    BY <1>2 DEF DeleteRow, CallInv
  <2>2. Absent \in Row
    BY DEF Absent, Row
  <2>3. \A u \in Users : u # t => user'[u] = user[u]
    BY <2>1 DEF TypeOK
  <2>4. user'[t] = Absent /\ user' \in [Users -> Row]
    BY <2>1, <2>2 DEF TypeOK
  <2>5. local'[t] \in {"none", "gone"} /\ t \notin listed'
    BY <1>2, <2>1 DEF DeleteRow, HoldersLose, TypeOK
  <2>6. ASSUME NEW d \in Calls, call'[d].target = t
        PROVE  call'[d].pc \notin {"guard", "count", "write"}
    <3>1. call[d] \in Request
      BY DEF TypeOK
    <3> QED
      BY <1>2, <2>6, <3>1 DEF DeleteRow, HoldersLose, Idle, Request
  <2> QED
    BY <2>1, <2>3, <2>4, <2>5, <2>6 DEF RowStep
<1>3. ASSUME NEW c \in Calls, RegisterCreate(c) \/ InviteClaim(c)
      PROVE  /\ UNCHANGED now
             /\ user' \in [Users -> Row]
             /\ \A u \in Users : RowStep(u)
             /\ \A u \in Users : user[u].exists => user'[u].exists
  <2> DEFINE t == call[c].target
  <2>1. PICK a \in BOOLEAN : user' = [user EXCEPT ![t] = NewUser(a, FALSE)]
    BY <1>3 DEF RegisterCreate, InviteClaim, TypeOK, Request
  <2>2. t \in Users /\ ~user[t].exists /\ now' = now
    BY <1>3 DEF RegisterCreate, InviteClaim, CallInv
  <2>3. NewUser(a, FALSE) \in Row
    BY DEF NewUser, Row
  <2>4. user'[t] = NewUser(a, FALSE) /\ \A u \in Users : u # t => user'[u] = user[u]
    BY <2>1, <2>2 DEF TypeOK
  <2> QED
    BY <2>1, <2>2, <2>3, <2>4 DEF RowStep, NewUser, TypeOK
<1>4. ASSUME NEW t \in Users, Activate(t)
      PROVE  /\ UNCHANGED now
             /\ user' \in [Users -> Row]
             /\ \A u \in Users : RowStep(u)
             /\ \A u \in Users : user[u].exists => user'[u].exists
  <2>1. user' = [user EXCEPT ![t] = [user[t] EXCEPT !.active = TRUE, !.since = None]] /\ now' = now
    BY <1>4 DEF Activate, TypeOK, Row
  <2>2. user[t] \in Row /\ user[t].exists
    BY <1>4 DEF Activate, TypeOK
  <2>3. user'[t] = [user[t] EXCEPT !.active = TRUE, !.since = None]
        /\ \A u \in Users : u # t => user'[u] = user[u]
    BY <2>1 DEF TypeOK
  <2>4. user'[t] \in Row /\ user'[t].exists /\ user'[t].since = None
        /\ user'[t].ldap = user[t].ldap
    BY <2>2, <2>3 DEF Row
  <2> QED
    BY <2>1, <2>2, <2>3, <2>4 DEF RowStep, TypeOK
<1>5. ASSUME NEW t \in Users, SyncMember(t)
      PROVE  /\ UNCHANGED now
             /\ user' \in [Users -> Row]
             /\ \A u \in Users : RowStep(u)
             /\ \A u \in Users : user[u].exists => user'[u].exists
  <2>1. user' = [user EXCEPT ![t] = Member(t)] /\ now' = now
    BY <1>5 DEF SyncMember
  <2>2. user[t] \in Row
    BY DEF TypeOK
  <2>3. user'[t] = Member(t) /\ \A u \in Users : u # t => user'[u] = user[u]
    BY <2>1 DEF TypeOK
  <2>4. local[t] = "inactive" => user[t].exists
    BY DEF SyncInv
  <2>5. KeepsDate(t)
    BY <1>5 DEF KeepsDate
  <2>6. user'[t] \in Row /\ RowStep(t) /\ (user[t].exists => user'[t].exists)
    <3>1. CASE local[t] = "inactive"
      BY <2>2, <2>3, <2>4, <2>5, <3>1 DEF Member, Row, RowStep
    <3>2. CASE local[t] = "none" /\ ~user[t].exists
      <4>1. user'[t] = NewUser(FALSE, TRUE)
        BY <2>3, <3>2 DEF Member
      <4>2. NewUser(FALSE, TRUE) \in Row
        BY DEF NewUser, Row
      <4>3. user'[t].exists /\ user'[t].active /\ user'[t].since = None
        BY <4>1 DEF NewUser
      <4> QED
        BY <3>2, <4>1, <4>2, <4>3 DEF RowStep
    <3>3. CASE local[t] # "inactive" /\ ~(local[t] = "none" /\ ~user[t].exists)
      BY <2>2, <2>3, <3>3 DEF Member, RowStep
    <3> QED
      BY <3>1, <3>2, <3>3
  <2> QED
    BY <2>1, <2>3, <2>6 DEF RowStep, TypeOK
<1>6. ASSUME SyncBatch
      PROVE  /\ UNCHANGED now
             /\ user' \in [Users -> Row]
             /\ \A u \in Users : RowStep(u)
             /\ \A u \in Users : user[u].exists => user'[u].exists
  <2>1. ASSUME NEW u \in Users
        PROVE  user'[u] \in Row /\ RowStep(u) /\ (user[u].exists => user'[u].exists)
    <3>1. user[u] \in Row /\ (u \in Leavers => user[u].exists)
      BY DEF TypeOK, Leavers, SyncInv
    <3>2. user'[u] = IF u \in Leavers THEN [user[u] EXCEPT !.active = FALSE] ELSE user[u]
      BY <1>6 DEF SyncBatch
    <3> QED
      BY <3>1, <3>2 DEF Row, RowStep
  <2> QED
    BY <1>6, <2>1 DEF SyncBatch
<1> QED
  BY <1>1, <1>2, <1>3, <1>4, <1>5, <1>6 DEF TableStep

-----------------------------------------------------------------------------
(* Each part of the invariant is kept.                                     *)

\* Outside of a table step no row changes.
LEMMA RowsKept ==
    ASSUME TypeOK, CallInv, Next, ~TableStep
    PROVE  user' = user /\ invite' = invite
BY Kinds DEF CallMoves, Rows, SyncMoves, SyncStart, SyncLogged, SyncLogFails, SyncFetch,
   SyncLocal, SyncMemberFails, SyncFails, SyncEnd, Restart, OtherStep, CleanupList,
   PurgeAccount, DirectoryChanges, DayPasses

LEMMA EveryRowSteps ==
    ASSUME TypeOK, CallInv, SyncInv, DateInv, Next
    PROVE  user' \in [Users -> Row] /\ \A u \in Users : RowStep(u)
<1>1. CASE TableStep
  BY <1>1, RowSteps
<1>2. CASE ~TableStep
  BY <1>2, RowsKept DEF RowStep, TypeOK
<1> QED
  BY <1>1, <1>2

LEMMA Clock ==
    ASSUME TypeOK, CallInv, SyncInv, DateInv, Next
    PROVE  /\ now' \in Days0 /\ now <= now'
           /\ TableStep => now' = now
<1>1. CASE TableStep
  BY <1>1, RowSteps, DaysAssumption DEF TypeOK, Days0
<1>2. CASE ~TableStep
  <2>1. now' = now \/ DayPasses
    BY <1>2, Kinds DEF CallMoves, Rows, SyncMoves, SyncStart, SyncLogged, SyncLogFails,
       SyncFetch, SyncLocal, SyncMemberFails, SyncFails, SyncEnd, Restart, OtherStep,
       CleanupList, PurgeAccount, DirectoryChanges
  <2> QED
    BY <1>2, <2>1, DaysAssumption DEF TypeOK, Days0, DayPasses
<1> QED
  BY <1>1, <1>2

LEMMA DateStep ==
    ASSUME TypeOK, HistoryTypeOK, CallInv, SyncInv, DateInv, Next, Record
    PROVE  /\ DateInv'
           /\ inactiveSince' \in [Users -> Days0 \cup {None}]
           /\ stale' \in [Users -> BOOLEAN]
<1>1. ASSUME NEW u \in Users
      PROVE  /\ user'[u].since <= now' /\ inactiveSince'[u] <= now'
             /\ inactiveSince'[u] # None <=> Inactive(user'[u])
             /\ ~user'[u].exists => user'[u] = Absent
             /\ stale'[u] => user'[u].exists /\ user'[u].since # None
             /\ user'[u].active /\ user'[u].since # None => stale'[u]
             /\ Inactive(user'[u]) /\ user'[u].since # None /\ ~stale'[u] =>
                    inactiveSince'[u] <= user'[u].since
             /\ inactiveSince'[u] \in Days0 \cup {None}
             /\ stale'[u] \in BOOLEAN
  <2>1. /\ user[u] \in Row /\ user'[u] \in Row /\ RowStep(u)
        /\ inactiveSince[u] \in Days0 \cup {None} /\ stale[u] \in BOOLEAN
    BY EveryRowSteps DEF TypeOK, HistoryTypeOK
  <2>2. now \in Days0 /\ now' \in Days0 /\ now <= now'
    BY Clock DEF TypeOK
  <2>3. /\ user[u].since \in Int /\ user'[u].since \in Int /\ inactiveSince[u] \in Int
        /\ now \in Nat /\ now' \in Nat
    BY <2>1, <2>2, DaysAssumption DEF Row, Days0, None
  <2>4. inactiveSince'[u] = IF ~Inactive(user'[u]) THEN None
                            ELSE IF inactiveSince[u] = None THEN now ELSE inactiveSince[u]
    BY DEF Record
  <2>5. stale'[u] = Stale(u)
    BY DEF Record
  <2>6. /\ user[u].since <= now /\ inactiveSince[u] <= now
        /\ inactiveSince[u] # None <=> Inactive(user[u])
        /\ ~user[u].exists => user[u] = Absent
        /\ stale[u] => user[u].exists /\ user[u].since # None
        /\ user[u].active /\ user[u].since # None => stale[u]
        /\ Inactive(user[u]) /\ user[u].since # None /\ ~stale[u] =>
               inactiveSince[u] <= user[u].since
    BY DEF DateInv
  <2>7. user'[u].since <= now'
    BY <2>1, <2>2, <2>3, <2>6 DEF RowStep, Absent, None
  <2>8. inactiveSince'[u] <= now' /\ inactiveSince'[u] \in Days0 \cup {None}
        /\ (inactiveSince'[u] # None <=> Inactive(user'[u]))
    BY <2>1, <2>2, <2>3, <2>4, <2>6 DEF None, Days0
  <2>9. ~user'[u].exists => user'[u] = Absent
    BY <2>1, <2>6 DEF RowStep
  <2>10. stale'[u] \in BOOLEAN /\ (stale'[u] => user'[u].exists /\ user'[u].since # None)
    BY <2>1, <2>5 DEF Stale
  <2>11. user'[u].active /\ user'[u].since # None => stale'[u]
    <3>1. SUFFICES ASSUME user'[u].active, user'[u].since # None
                   PROVE  stale[u] \/ KeepsDate(u)
      BY <2>5, <2>9 DEF Stale, Absent
    <3> QED
      BY <2>1, <2>6, <3>1 DEF RowStep, Absent, None, Row
  <2>12. Inactive(user'[u]) /\ user'[u].since # None /\ ~stale'[u] =>
              inactiveSince'[u] <= user'[u].since
    <3>1. SUFFICES ASSUME Inactive(user'[u]), user'[u].since # None, ~stale'[u]
                   PROVE  inactiveSince'[u] <= user'[u].since
      OBVIOUS
    <3>2. CASE user'[u].since = user[u].since /\ user[u].exists
      <4>1. ~stale[u]
        BY <2>5, <3>1, <3>2 DEF Stale, Inactive
      <4>2. Inactive(user[u])
        BY <2>1, <2>6, <3>1, <3>2, <4>1 DEF Inactive, Row
      <4> QED
        BY <2>3, <2>4, <2>6, <3>1, <3>2, <4>1, <4>2
    <3>3. CASE user'[u].since = now
      BY <2>3, <2>4, <2>6, <3>1, <3>3
    <3> QED
      BY <2>1, <2>6, <3>1, <3>2, <3>3 DEF RowStep, Absent, Inactive
  <2> QED
    BY <2>7, <2>8, <2>9, <2>10, <2>11, <2>12
<1>2. inactiveSince' = [u \in Users |-> inactiveSince'[u]] /\ stale' = [u \in Users |-> stale'[u]]
  BY DEF Record
<1> QED
  BY <1>1, <1>2 DEF DateInv, Inactive

\* A table step ends the request that makes it; only a deletion touches others.
LEMMA TableCalls ==
    ASSUME TypeOK, CallInv, TableStep
    PROVE  /\ call' = [d \in Calls |-> call'[d]]
           /\ \A d \in Calls :
                \/ call'[d] = call[d]
                \/ call'[d] = Idle
                \/ call'[d] = [call[d] EXCEPT !.pc = "gone"] /\ call[d].pc # "idle"
<1>1. ASSUME NEW c \in Calls, WriteRow(c) \/ RegisterCreate(c) \/ InviteClaim(c)
      PROVE  call' = [call EXCEPT ![c] = Idle]
  BY <1>1 DEF WriteRow, RegisterCreate, InviteClaim, Continues
<1>2. ASSUME NEW c \in Calls, DeleteRow(c), NEW d \in Calls
      PROVE  \/ call'[d] = call[d]
             \/ call'[d] = Idle
             \/ call'[d] = [call[d] EXCEPT !.pc = "gone"] /\ call[d].pc # "idle"
  BY <1>2 DEF DeleteRow, HoldersLose
<1>3. ASSUME NEW c \in Calls, DeleteRow(c)
      PROVE  call' = [d \in Calls |-> call'[d]]
  BY <1>3 DEF DeleteRow, HoldersLose
<1>4. ASSUME NEW u \in Users, Activate(u) \/ SyncMember(u)
      PROVE  call' = call
  BY <1>4 DEF Activate, SyncMember
<1>5. SyncBatch => call' = call
  BY DEF SyncBatch
<1> QED
  BY <1>1, <1>2, <1>3, <1>4, <1>5 DEF TableStep, TypeOK

LEMMA CallsStep ==
    ASSUME TypeOK, CallInv, SyncInv, DateInv, Next
    PROVE  call' \in [Calls -> Request] /\ CallInv'
<1>1. Idle \in Request /\ \A r \in Request : r.pc \in CallPcs
  BY DEF Idle, Request, CallPcs, Operations
<1>2. ASSUME NEW c \in Calls, NEW new \in Request, CallMoves(c, new)
      PROVE  call' \in [Calls -> Request] /\ CallInv'
  BY <1>2 DEF CallMoves, Rows, CallInv, TypeOK, GuardedOps
<1>3. CASE UNCHANGED <<call, user>>
  BY <1>3 DEF CallInv, TypeOK
<1>4. ASSUME NEW recovered \in BOOLEAN, Restart(recovered)
      PROVE  call' \in [Calls -> Request] /\ CallInv'
  BY <1>1, <1>4 DEF Restart, CallInv, Idle
<1>5. CASE TableStep
  <2>1. \A u \in Users : user[u].exists /\ ~user'[u].exists =>
            \A d \in Calls : call'[d].target = u => call'[d].pc \notin {"guard", "count", "write"}
    BY <1>5, RowSteps
  <2>2. ASSUME NEW d \in Calls
        PROVE  call'[d] \in Request
    <3>1. call[d] \in Request
      BY DEF TypeOK
    <3>2. [call[d] EXCEPT !.pc = "gone"] \in Request
      BY <3>1 DEF Request, CallPcs
    <3> QED
      BY <1>1, <1>5, <3>1, <3>2, TableCalls
  <2>3. call' = [d \in Calls |-> call'[d]]
    BY <1>5, TableCalls
  <2>4. ASSUME NEW d \in Calls
        PROVE  /\ call'[d].pc = "idle" => call'[d] = Idle
               /\ call'[d].pc # "idle" => call'[d].target \in Users
               /\ call'[d].pc \in {"guard", "count", "write"} =>
                        call'[d].op \in Updates \cup Removals
               /\ call'[d].pc \in {"guard", "count"} => call'[d].op \in GuardedOps
               /\ call'[d].pc \in {"guard", "count", "write"} => user'[call'[d].target].exists
    <3>1. call[d] \in Request
      BY DEF TypeOK
    <3>2. CASE call'[d] = call[d]
      BY <2>1, <3>2 DEF CallInv, GuardedOps
    <3>3. CASE call'[d] = Idle
      BY <3>3 DEF Idle
    <3>4. CASE call'[d] = [call[d] EXCEPT !.pc = "gone"] /\ call[d].pc # "idle"
      BY <3>1, <3>4 DEF Request, CallInv
    <3> QED
      BY <1>5, <3>2, <3>3, <3>4, TableCalls
  <2> QED
    BY <2>2, <2>3, <2>4 DEF CallInv, GuardedOps
<1>6. CASE SyncMoves \/ OtherStep
  BY <1>3, <1>4, <1>6 DEF SyncMoves, SyncStart, SyncLogged, SyncLogFails, SyncFetch, SyncLocal,
     SyncMemberFails, SyncFails, SyncEnd, OtherStep, CleanupList, PurgeAccount,
     DirectoryChanges, DayPasses
<1> QED
  BY <1>2, <1>5, <1>6, Kinds

\* Who administers matters to a guarded request only while it is in flight.
LEMMA GuardStep ==
    ASSUME TypeOK, CallInv, SyncInv, DateInv, GuardInv, Next, Record
    PROVE  GuardInv' /\ overtaken' \subseteq Calls
<1>1. overtaken' \subseteq Calls
  BY DEF Record
<1>2. SUFFICES ASSUME NEW c \in Calls, c \notin overtaken', call'[c].pc = "write",
                      call'[c].op \in GuardedOps, call'[c].target \in Admins'
               PROVE  Admins' \ {call'[c].target} # {}
  BY <1>1 DEF GuardInv, Others, GuardedOps
<1>3. CASE call'[c] = call[c]
  <2>1. c \notin overtaken /\ Admins' = Admins
    BY <1>2, <1>3 DEF Record, GuardedOps
  <2> QED
    BY <1>2, <1>3, <2>1 DEF GuardInv, Others, GuardedOps
<1>4. CASE call'[c] # call[c]
  <2>1. PICK d \in Calls, new \in Request : CallMoves(d, new)
    <3>1. ~TableStep
      <4>1. call[c] \in Request
        BY DEF TypeOK
      <4>2. Idle.pc # "write" /\ [call[c] EXCEPT !.pc = "gone"].pc # "write"
        BY <4>1 DEF Idle, Request
      <4> QED
        BY <1>2, <1>4, <4>2, TableCalls
    <3>2. ~SyncMoves /\ ~OtherStep
      BY <1>2, <1>4 DEF SyncMoves, SyncStart, SyncLogged, SyncLogFails, SyncFetch, SyncLocal,
         SyncMemberFails, SyncFails, SyncEnd, OtherStep, CleanupList, PurgeAccount,
         DirectoryChanges, DayPasses, Restart, Idle
    <3> QED
      BY <3>1, <3>2, Kinds
  <2>2. d = c /\ call'[c] = new
    BY <1>4, <2>1 DEF CallMoves, TypeOK
  <2>3. Admins' = Admins
    BY <2>1 DEF CallMoves, Rows, Admins
  <2> QED
    BY <1>2, <2>1, <2>2, <2>3 DEF CallMoves
<1> QED
  BY <1>3, <1>4

LEMMA ListStep ==
    ASSUME TypeOK, HistoryTypeOK, CallInv, SyncInv, DateInv, ListInv, Next, Record, DateInv'
    PROVE  ListInv' /\ listed' \subseteq Users /\ doubtful' \subseteq listed'
<1>1. doubtful' \subseteq listed'
  BY DEF Record
<1>2. listed' \subseteq listed \/ CleanupList
  BY Kinds DEF CallMoves, SyncMoves, SyncStart, SyncLogged, SyncLogFails, SyncFetch,
     SyncLocal, SyncMemberFails, SyncFails, SyncEnd, Restart, OtherStep, PurgeAccount,
     DirectoryChanges, DayPasses, TableStep, WriteRow, DeleteRow, HoldersLose,
     RegisterCreate, InviteClaim, Activate, SyncMember, SyncBatch
<1>3. listed' \subseteq Users
  BY <1>2 DEF CleanupList, TypeOK
<1>4. ASSUME NEW u \in listed' \ doubtful'
      PROVE  inactiveSince'[u] # None /\ inactiveSince'[u] < now' - Days
  <2>1. u \in Users /\ Inactive(user'[u]) /\ ~stale'[u] /\ u \notin doubtful
    BY <1>3, <1>4 DEF Record
  <2>2. inactiveSince'[u] = IF inactiveSince[u] = None THEN now ELSE inactiveSince[u]
    BY <2>1 DEF Record
  <2>3. now \in Int /\ now' \in Int /\ Days \in Int /\ now <= now' /\ inactiveSince[u] \in Int
    BY <2>1, Clock, DaysAssumption DEF TypeOK, HistoryTypeOK, Days0, None
  <2>4. CASE u \in listed
    BY <2>1, <2>2, <2>3, <2>4 DEF ListInv
  <2>5. CASE CleanupList
    <3>1. user' = user /\ now' = now /\ Overdue(user[u])
      BY <1>4, <2>5 DEF CleanupList
    <3>2. inactiveSince'[u] # None /\ inactiveSince'[u] <= user[u].since
      BY <2>1, <3>1 DEF DateInv, Overdue
    <3>3. user[u].since \in Int /\ inactiveSince'[u] \in Int
      BY <2>1, <2>2, <2>3, DaysAssumption DEF TypeOK, Row, Days0, None
    <3> QED
      BY <2>3, <3>1, <3>2, <3>3 DEF Overdue
  <2> QED
    BY <1>2, <1>4, <2>4, <2>5
<1> QED
  BY <1>1, <1>3, <1>4 DEF ListInv

\* The run's snapshots: a deletion, which alone removes a row, also removes the
\* id from the snapshot.
LEMMA SyncsStep ==
    ASSUME TypeOK, CallInv, SyncInv, DateInv, MutexReleased, Next, Record
    PROVE  SyncInv'
<1>1. /\ \A u \in Users : local[u] \in {"active", "inactive"} => user[u].exists /\ user[u].ldap
      /\ syncPc # "users" => left = {} /\ local = [u \in Users |-> "none"]
      /\ syncPc \in {"local", "users"} => \A u \in Users \ moved : u \in seen <=> u \in directory
  BY DEF SyncInv
<1>2. \A u \in Users : RowStep(u)
  BY EveryRowSteps
<1>3. ASSUME NEW u \in Users, local'[u] = local[u], local[u] \in {"active", "inactive"}
      PROVE  user'[u].exists /\ user'[u].ldap
  <2>1. user[u].exists /\ user[u].ldap
    BY <1>1, <1>3
  <2>2. user'[u].exists
    BY <1>3, <2>1, RowSteps, RowsKept
  <2> QED
    BY <1>2, <2>1, <2>2 DEF RowStep, Absent
<1>4. CASE SyncLocal
  <2>1. user' = user /\ local' = [u \in Users |-> Found(user[u])] /\ syncPc' = "users"
        /\ syncPc = "local" /\ seen' = seen /\ directory' = directory
    BY <1>4 DEF SyncLocal
  <2>2. moved \subseteq moved'
    BY <2>1 DEF Record
  <2>3. ASSUME NEW u \in Users, local'[u] \in {"active", "inactive"}
        PROVE  user'[u].exists /\ user'[u].ldap
    BY <2>1, <2>3 DEF Found, TypeOK, Row
  <2> QED
    BY <1>1, <2>1, <2>2, <2>3 DEF SyncInv
<1>5. CASE syncPc' # "users" /\ left' = {} /\ local' = [u \in Users |-> "none"]
  <2>1. CASE syncPc' = "local"
    <3>1. \/ SyncFetch
          \/ syncPc = "local" /\ seen' = seen
      BY <2>1, Kinds DEF CallMoves, sync, SyncMoves, SyncStart, SyncLogged, SyncLogFails,
         SyncLocal, SyncMemberFails, SyncFails, SyncEnd, Restart, OtherStep, CleanupList,
         PurgeAccount, DirectoryChanges, DayPasses, TableStep, WriteRow, DeleteRow,
         RegisterCreate, InviteClaim, Activate, SyncMember, SyncBatch
    <3>2. CASE SyncFetch
      BY <1>5, <2>1, <3>2 DEF SyncFetch, SyncInv
    <3>3. CASE syncPc = "local" /\ seen' = seen
      <4>1. \A u \in Users \ moved' : u \notin moved /\ (u \in directory <=> u \in directory')
        BY <2>1 DEF Record
      <4> QED
        BY <1>1, <1>5, <2>1, <3>3, <4>1 DEF SyncInv
    <3> QED
      BY <3>1, <3>2, <3>3
  <2> QED
    BY <1>5, <2>1 DEF SyncInv
<1>6. CASE syncPc' = "users" /\ syncPc = "users" /\ seen' = seen
           /\ \A u \in Users : local'[u] = local[u] \/ local'[u] = "gone"
  <2>1. \A u \in Users \ moved' : u \notin moved /\ (u \in directory <=> u \in directory')
    BY <1>6 DEF Record
  <2>2. ASSUME NEW u \in Users, local'[u] \in {"active", "inactive"}
        PROVE  user'[u].exists /\ user'[u].ldap
    BY <1>3, <1>6, <2>2
  <2> QED
    BY <1>1, <1>6, <2>1, <2>2 DEF SyncInv
<1>7. ASSUME UNCHANGED sync
      PROVE  \/ syncPc' # "users" /\ left' = {} /\ local' = [u \in Users |-> "none"]
             \/ /\ syncPc' = "users" /\ syncPc = "users" /\ seen' = seen
                /\ \A u \in Users : local'[u] = local[u] \/ local'[u] = "gone"
  BY <1>1, <1>7 DEF sync
<1>8. ASSUME NEW c \in Calls, DeleteRow(c)
      PROVE  \/ syncPc' # "users" /\ left' = {} /\ local' = [u \in Users |-> "none"]
             \/ /\ syncPc' = "users" /\ syncPc = "users" /\ seen' = seen
                /\ \A u \in Users : local'[u] = local[u] \/ local'[u] = "gone"
  BY <1>1, <1>8 DEF DeleteRow, HoldersLose, TypeOK
<1>9. CASE TableStep
  <2>1. ASSUME NEW c \in Calls, WriteRow(c) \/ RegisterCreate(c) \/ InviteClaim(c)
        PROVE  UNCHANGED sync
    BY <2>1 DEF WriteRow, RegisterCreate, InviteClaim
  <2>2. ASSUME NEW u \in Users, Activate(u)
        PROVE  UNCHANGED sync
    BY <2>2 DEF Activate
  <2>3. ASSUME NEW u \in Users, SyncMember(u)
        PROVE  syncPc' = "users" /\ syncPc = "users" /\ seen' = seen /\ local' = local
    BY <2>3 DEF SyncMember
  <2>4. CASE SyncBatch
    BY <1>5, <2>4 DEF SyncBatch, Forgets
  <2> QED
    BY <1>5, <1>6, <1>7, <1>8, <1>9, <2>1, <2>2, <2>3, <2>4 DEF TableStep
<1>10. CASE SyncMoves
  <2>1. CASE SyncStart \/ SyncLogged \/ SyncLogFails \/ SyncFetch
             \/ \E completed \in BOOLEAN : SyncEnd(completed)
    <3>1. syncPc # "users" /\ syncPc' # "users" /\ left' = left /\ local' = local
      BY <2>1 DEF SyncStart, SyncLogged, SyncLogFails, SyncFetch, SyncEnd, MutexReleased
    <3> QED
      BY <1>1, <1>5, <3>1
  <2>2. CASE \E u \in Users : SyncMemberFails(u)
    BY <1>6, <2>2 DEF SyncMemberFails
  <2>3. CASE SyncFails \/ \E recovered \in BOOLEAN : Restart(recovered)
    BY <1>5, <2>3 DEF SyncFails, Restart, Forgets
  <2> QED
    BY <1>4, <1>10, <2>1, <2>2, <2>3 DEF SyncMoves
<1>11. CASE OtherStep \/ \E c \in Calls, new \in Request : CallMoves(c, new)
  <2>1. UNCHANGED sync
    BY <1>11 DEF OtherStep, CleanupList, PurgeAccount, DirectoryChanges, DayPasses, CallMoves
  <2> QED
    BY <1>5, <1>6, <1>7, <2>1
<1> QED
  BY <1>9, <1>10, <1>11, Kinds

LEMMA InviteStep ==
    ASSUME TypeOK, HistoryTypeOK, CallInv, SyncInv, DateInv, OneAccountPerInvite, Next, Record
    PROVE  /\ OneAccountPerInvite'
           /\ invite' \in {"open", "used"} /\ byInvite' \subseteq Users
<1>1. byInvite' \subseteq Users
  BY DEF Record, HistoryTypeOK
<1>2. CASE invite' = invite
  <2>1. \A c \in Calls : ~InviteClaim(c)
    BY <1>2 DEF InviteClaim, Claimable
  <2>2. byInvite' = byInvite
    BY <2>1 DEF Record
  <2>3. invite' \in {"open", "used"}
    BY <1>2 DEF TypeOK
  <2> QED
    BY <1>2, <2>2, <2>3, <1>1 DEF OneAccountPerInvite
<1>3. ASSUME NEW c \in Calls, InviteClaim(c)
      PROVE  /\ OneAccountPerInvite'
             /\ invite' \in {"open", "used"}
  <2> DEFINE t == call[c].target
  <2>1. t \in Users /\ ~user[t].exists
    BY <1>3 DEF InviteClaim, CallInv
  <2>2. user' = [user EXCEPT ![t] = NewUser(FALSE, FALSE)] /\ invite = "open" /\ invite' = "used"
    BY <1>3 DEF InviteClaim, Claimable
  <2>3. \A u \in Users : ~user[u].exists /\ user'[u].exists <=> u = t
    BY <2>1, <2>2 DEF TypeOK, NewUser
  <2>4. byInvite = {}
    BY <2>2 DEF OneAccountPerInvite
  <2>5. byInvite' = {t}
    BY <1>3, <2>1, <2>3, <2>4 DEF Record
  <2> QED
    BY <2>2, <2>5 DEF OneAccountPerInvite
<1>4. invite' = invite \/ \E c \in Calls : InviteClaim(c)
  <2>1. CASE TableStep
    BY <2>1 DEF TableStep, WriteRow, DeleteRow, RegisterCreate, Activate, SyncMember, SyncBatch
  <2> QED
    BY <2>1, RowsKept
<1> QED
  BY <1>2, <1>3, <1>4, <1>1

LEMMA MutexStep ==
    ASSUME TypeOK, HistoryTypeOK, CallInv, MutexReleased, Next, Record
    PROVE  /\ MutexReleased'
           /\ syncInProgress' \in BOOLEAN /\ syncPc' \in SyncPcs /\ runningLogs' \in Nat
           /\ unlogged' \in BOOLEAN /\ unclosed' \in BOOLEAN
<1> DEFINE Unfinished(pc) == IF pc \in {"idle", "log"} THEN 0 ELSE 1
<1>1. /\ syncInProgress <=> syncPc # "idle" \/ unlogged
      /\ unlogged => syncPc = "idle"
      /\ IF unclosed THEN runningLogs > Unfinished(syncPc) ELSE runningLogs = Unfinished(syncPc)
      /\ syncInProgress \in BOOLEAN /\ syncPc \in SyncPcs /\ runningLogs \in Nat
      /\ unlogged \in BOOLEAN /\ unclosed \in BOOLEAN
  BY DEF MutexReleased, TypeOK, HistoryTypeOK
<1>2. /\ unlogged' <=> syncInProgress' /\ (unlogged \/ SyncLogFails)
      /\ unclosed' <=> runningLogs' # 0 /\ (unclosed \/ SyncEnd(FALSE) \/ Restart(FALSE))
      /\ unlogged' \in BOOLEAN /\ unclosed' \in BOOLEAN
  BY DEF Record
<1>3. SUFFICES /\ syncInProgress' <=> syncPc' # "idle" \/ unlogged'
               /\ unlogged' => syncPc' = "idle"
               /\ IF unclosed' THEN runningLogs' > Unfinished(syncPc')
                               ELSE runningLogs' = Unfinished(syncPc')
               /\ syncInProgress' \in BOOLEAN /\ syncPc' \in SyncPcs /\ runningLogs' \in Nat
  BY <1>2 DEF MutexReleased
<1> USE DEF SyncPcs
\* The steps that make the histories what they are, by their places.
<1>4. /\ SyncLogFails => syncPc = "log" /\ syncPc' = "idle"
      /\ SyncEnd(FALSE) => syncPc = "end" /\ syncPc' = "idle" /\ runningLogs' = runningLogs
      /\ Restart(FALSE) => /\ syncPc' = "idle" /\ syncInProgress' = FALSE
                           /\ runningLogs > 0 /\ runningLogs' = runningLogs
  BY DEF SyncLogFails, SyncEnd, Restart
<1>5. CASE UNCHANGED <<syncInProgress, syncPc, runningLogs>>
  <2>1. syncInProgress' <=> syncPc' # "idle" \/ unlogged'
    BY <1>1, <1>2, <1>5, <1>4
  <2>2. unlogged' => syncPc' = "idle"
    BY <1>1, <1>2, <1>5, <1>4
  <2>3. unclosed' <=> unclosed
    <3>1. ~SyncEnd(FALSE)
      BY <1>5, <1>4
    <3>2. Restart(FALSE) => unclosed
      BY <1>1, <1>5, <1>4
    <3>3. unclosed => runningLogs' # 0
      BY <1>1, <1>5
    <3> QED
      BY <1>2, <3>1, <3>2, <3>3
  <2>4. IF unclosed' THEN runningLogs' > Unfinished(syncPc')
                               ELSE runningLogs' = Unfinished(syncPc')
    BY <1>1, <1>5, <2>3
  <2> QED
    BY <1>1, <1>2, <1>5, <1>4, <2>1, <2>2, <2>4
<1>6. CASE /\ syncPc' \in SyncPcs \ {"idle"} /\ syncInProgress' = TRUE /\ ~unlogged
           /\ runningLogs' = runningLogs + Unfinished(syncPc') - Unfinished(syncPc)
  <2>1. ~SyncLogFails /\ ~SyncEnd(FALSE) /\ ~Restart(FALSE)
    BY <1>6, <1>4
  <2>2. unlogged' = FALSE /\ (unclosed' <=> unclosed /\ runningLogs' # 0)
    BY <1>2, <1>6, <2>1
  <2>3. CASE unclosed
    BY <1>1, <1>6, <2>2, <2>3
  <2>4. CASE ~unclosed
    BY <1>1, <1>6, <2>2, <2>4
  <2> QED
    BY <2>3, <2>4
<1>7. CASE SyncStart \/ SyncLogged \/ SyncFetch \/ SyncLocal \/ SyncFails \/ SyncBatch
  <2>1. CASE SyncStart
    BY <1>1, <1>6, <2>1 DEF SyncStart
  <2>2. CASE SyncLogged
    BY <1>1, <1>6, <2>2 DEF SyncLogged
  <2>3. CASE SyncFetch \/ SyncLocal \/ SyncFails \/ SyncBatch
    <3>1. /\ syncInProgress' = syncInProgress /\ runningLogs' = runningLogs
          /\ syncPc \in {"fetch", "local", "users"} /\ syncPc' \in {"local", "users", "end"}
      BY <2>3 DEF SyncFetch, SyncLocal, SyncFails, SyncBatch
    <3>2. ~unlogged /\ syncInProgress' = TRUE
      BY <1>1, <3>1
    <3> QED
      BY <1>1, <1>6, <3>1, <3>2
  <2> QED
    BY <1>7, <2>1, <2>2, <2>3
<1>8. CASE SyncLogFails
  <2>1. syncInProgress' = syncInProgress /\ syncPc = "log" /\ syncPc' = "idle" /\ runningLogs' = runningLogs
    BY <1>8 DEF SyncLogFails
  <2>2. ~SyncEnd(FALSE) /\ (Restart(FALSE) => syncInProgress' = FALSE)
    BY <1>4, <2>1
  <2>3. syncInProgress /\ ~Restart(FALSE) /\ unlogged' = TRUE
    BY <1>1, <1>2, <1>8, <2>1, <2>2
  <2>4. unclosed' <=> unclosed /\ runningLogs' # 0
    BY <1>2, <2>2, <2>3
  <2> QED
    BY <1>1, <2>1, <2>3, <2>4
<1>9. CASE SyncEnd(TRUE) \/ SyncEnd(FALSE)
  <2>1. /\ syncInProgress' = FALSE /\ syncPc = "end" /\ syncPc' = "idle"
        /\ SyncEnd(TRUE) => runningLogs' = runningLogs - 1
        /\ SyncEnd(FALSE) => runningLogs' = runningLogs
    BY <1>9 DEF SyncEnd, Released
  <2>2. unlogged' = FALSE /\ runningLogs > 0
    BY <1>1, <1>2, <2>1
  <2>3. Unfinished(syncPc) = 1 /\ Unfinished(syncPc') = 0
    BY <2>1
  <2>4. IF unclosed THEN runningLogs > 1 ELSE runningLogs = 1
    BY <1>1, <2>3
  <2>5. CASE SyncEnd(FALSE)
    <3>1. runningLogs' # 0
      BY <2>1, <2>2, <2>5
    <3>2. unclosed'
      BY <1>2, <2>5, <3>1
    <3>3. runningLogs' > Unfinished(syncPc') /\ runningLogs' \in Nat
      BY <1>1, <2>1, <2>2, <2>3, <2>5
    <3> QED
      BY <2>1, <2>2, <3>2, <3>3
  <2>6. CASE SyncEnd(TRUE) /\ ~SyncEnd(FALSE)
    <3>1. runningLogs' = runningLogs - 1 /\ runningLogs \in Nat
      BY <1>1, <2>1, <2>6
    <3>2. runningLogs' # runningLogs /\ runningLogs' \in Nat
      BY <2>2, <3>1
    <3>3. ~Restart(FALSE)
      BY <1>4, <3>2, Zenon
    <3>4. unclosed' <=> unclosed /\ runningLogs' # 0
      BY <1>2, <2>6, <3>3, Zenon
    <3>5. CASE unclosed
      <4>1. runningLogs' # 0 /\ runningLogs' > 0
        BY <2>4, <3>1, <3>5
      <4>2. unclosed'
        BY <3>4, <3>5, <4>1, Zenon
      <4>3. IF unclosed' THEN runningLogs' > Unfinished(syncPc')
                         ELSE runningLogs' = Unfinished(syncPc')
        BY <2>3, <4>1, <4>2
      <4> QED
        BY <2>1, <2>2, <3>2, <4>3
    <3>6. CASE ~unclosed
      <4>1. runningLogs' = 0
        BY <2>4, <3>1, <3>6
      <4>2. ~unclosed'
        BY <3>4, <4>1, Zenon
      <4>3. IF unclosed' THEN runningLogs' > Unfinished(syncPc')
                         ELSE runningLogs' = Unfinished(syncPc')
        BY <2>3, <4>1, <4>2
      <4> QED
        BY <2>1, <2>2, <3>2, <4>3
    <3> QED
      BY <3>5, <3>6
  <2> QED
    BY <1>9, <2>5, <2>6
<1>10. CASE Restart(TRUE)
  <2>1. syncInProgress' = FALSE /\ syncPc' = "idle" /\ runningLogs' = 0
    BY <1>10 DEF Restart
  <2>2. unlogged' = FALSE /\ unclosed' = FALSE
    BY <1>2, <2>1
  <2> QED
    BY <1>1, <2>1, <2>2
<1>11. CASE Restart(FALSE)
  <2>1. /\ syncPc' = "idle" /\ syncInProgress' = FALSE
        /\ runningLogs > 0 /\ runningLogs' = runningLogs
    BY <1>11, <1>4
  <2>2. runningLogs' # 0
    BY <1>1, <2>1
  <2>3. unlogged' = FALSE /\ unclosed'
    BY <1>2, <1>11, <2>1, <2>2
  <2> QED
    BY <1>1, <2>1, <2>3
<1>12. CASE TableStep \/ OtherStep \/ (\E u \in Users : SyncMemberFails(u))
            \/ \E c \in Calls, new \in Request : CallMoves(c, new)
  <2>1. UNCHANGED <<syncInProgress, syncPc, runningLogs>> \/ SyncBatch
    BY <1>12 DEF OtherStep, CleanupList, PurgeAccount, DirectoryChanges, DayPasses, CallMoves,
       SyncMemberFails, TableStep, WriteRow, DeleteRow, RegisterCreate, InviteClaim, Activate,
       SyncMember, sync
  <2> QED
    BY <1>5, <1>7, <2>1
<1> QED
  BY <1>5, <1>7, <1>8, <1>9, <1>10, <1>11, <1>12, Kinds DEF SyncMoves

\* The types the lemmas above have not covered.
LEMMA OtherTypes ==
    ASSUME TypeOK, HistoryTypeOK, CallInv, Next, Record
    PROVE  /\ directory' \subseteq Users /\ seen' \subseteq Users /\ left' \subseteq Users
           /\ local' \in [Users -> {"none", "active", "inactive", "gone"}]
           /\ started' \in 0 .. MaxStarted
           /\ moved' \subseteq Users
<1>1. moved' \subseteq Users
  BY DEF Record, HistoryTypeOK
<1>2. started' \in {started} \/ Begins
  <2>1. CASE \E c \in Calls : CallStep(c)
    <3>1. PICK c \in Calls : CallStep(c)
      BY <2>1
    <3>2. CASE \/ \E t \in Users, self \in BOOLEAN :
                    \/ \E op \in Updates : UpdateRead(c, op, t, self)
                    \/ \E op \in Removals : RemovalBegins(c, op, t, self)
               \/ \E t \in Users : RegisterCount(c, t) \/ InviteRead(c, t)
      BY <3>2 DEF UpdateRead, RemovalBegins, RegisterCount, InviteRead
    <3>3. CASE \/ GuardTarget(c) \/ GuardCount(c) \/ WriteRow(c) \/ DeleteRow(c)
               \/ RegisterCreate(c) \/ InviteClaim(c) \/ CallFails(c)
      BY <3>3 DEF GuardTarget, GuardCount, WriteRow, DeleteRow, RegisterCreate, InviteClaim,
         CallFails
    <3> QED
      BY <3>1, <3>2, <3>3 DEF CallStep
  <2>2. CASE SyncStep
    BY <2>2 DEF SyncStep, SyncStart, SyncLogged, SyncLogFails, SyncFetch, SyncLocal, SyncMember,
       SyncMemberFails, SyncBatch, SyncFails, SyncEnd
  <2>3. CASE \/ CleanupList
             \/ \E u \in Users : PurgeAccount(u) \/ Activate(u) \/ DirectoryChanges(u)
             \/ DayPasses \/ \E recovered \in BOOLEAN : Restart(recovered)
    BY <2>3 DEF CleanupList, PurgeAccount, Activate, DirectoryChanges, DayPasses, Restart
  <2> QED
    BY <2>1, <2>2, <2>3 DEF Next
<1>3. started' \in 0 .. MaxStarted
  BY <1>2, DaysAssumption DEF Begins, TypeOK
<1>4. directory' \subseteq Users
  <2>1. directory' = directory \/ \E u \in Users : DirectoryChanges(u)
    BY Kinds DEF CallMoves, Rows, SyncMoves, SyncStart, SyncLogged, SyncLogFails, SyncFetch,
       SyncLocal, SyncMemberFails, SyncFails, SyncEnd, Restart, OtherStep, CleanupList,
       PurgeAccount, DayPasses, TableStep, WriteRow, DeleteRow, RegisterCreate, InviteClaim,
       Activate, SyncMember, SyncBatch
  <2> QED
    BY <2>1 DEF DirectoryChanges, TypeOK
<1>5. seen' \subseteq Users /\ left' \subseteq Users
      /\ local' \in [Users -> {"none", "active", "inactive", "gone"}]
  <2>1. CASE UNCHANGED <<seen, left, local>>
    BY <2>1 DEF TypeOK
  <2>2. CASE Forgets
    BY <2>2 DEF Forgets
  <2>3. CASE SyncLocal
    BY <2>3 DEF SyncLocal, Found, TypeOK, Row
  <2>4. CASE SyncFetch
    BY <2>4 DEF SyncFetch, TypeOK
  <2>5. CASE (\E u \in Users : SyncMember(u) \/ SyncMemberFails(u))
    BY <2>5 DEF SyncMember, SyncMemberFails, TypeOK
  <2>6. ASSUME NEW c \in Calls, DeleteRow(c)
        PROVE  seen' \subseteq Users /\ left' \subseteq Users
               /\ local' \in [Users -> {"none", "active", "inactive", "gone"}]
    <3>1. PICK t : local' = [local EXCEPT ![t] = IF @ = "none" THEN @ ELSE "gone"]
      BY <2>6 DEF DeleteRow, HoldersLose
    <3>2. UNCHANGED <<seen, left>>
      BY <2>6 DEF DeleteRow
    <3> QED
      BY <3>1, <3>2 DEF TypeOK
  <2> QED
    BY <2>1, <2>2, <2>3, <2>4, <2>5, <2>6, Kinds DEF CallMoves, sync, SyncMoves, SyncStart,
       SyncLogged, SyncLogFails, SyncFails, SyncEnd, Restart, OtherStep, CleanupList,
       PurgeAccount, DirectoryChanges, DayPasses, TableStep, WriteRow, RegisterCreate,
       InviteClaim, Activate, SyncBatch
<1> QED
  BY <1>1, <1>3, <1>4, <1>5

-----------------------------------------------------------------------------
(* The theorems.                                                           *)

LEMMA AccountsInvInit == Init /\ HistoryInit => AccountsInv
<1>1. SUFFICES ASSUME Init, HistoryInit
               PROVE  AccountsInv
  OBVIOUS
<1>2. ASSUME NEW u \in Users
      PROVE  /\ user[u] \in Row
             /\ user[u].since \in {None, 0}
             /\ ~user[u].exists => user[u] = Absent
             /\ user[u].since # None <=> Inactive(user[u])
             /\ user[u].active => user[u].since = None
  <2>1. user[u] \in {Absent, NewUser(TRUE, FALSE), NewUser(FALSE, TRUE), Dormant}
    BY <1>1 DEF Init
  <2>2. 0 \in Days0
    BY DaysAssumption DEF Days0
  <2>3. CASE user[u] = Absent
    BY <2>2, <2>3 DEF Absent, Row, Inactive, None
  <2>4. ASSUME NEW a \in BOOLEAN, NEW l \in BOOLEAN, user[u] = NewUser(a, l)
        PROVE  /\ user[u] \in Row /\ user[u].since = None
               /\ user[u].exists = TRUE /\ user[u].active = TRUE
    BY <2>4 DEF NewUser, Row
  <2>5. CASE user[u] = Dormant
    <3>1. /\ user[u] \in Row /\ user[u].since = 0
          /\ user[u].exists = TRUE /\ user[u].active = FALSE
      BY <2>2, <2>5 DEF Dormant, Row
    <3> QED
      BY <3>1 DEF Inactive, None
  <2> QED
    BY <2>1, <2>3, <2>4, <2>5 DEF Inactive
<1>3. TypeOK
  <2>1. user \in [Users -> Row]
    BY <1>1, <1>2 DEF Init
  <2>2. call \in [Calls -> Request]
    BY <1>1 DEF Init, Idle, Request, CallPcs, Operations
  <2>3. now \in Days0 /\ started \in 0 .. MaxStarted
    BY <1>1, DaysAssumption DEF Init, Days0
  <2> QED
    BY <1>1, <2>1, <2>2, <2>3 DEF Init, TypeOK, SyncPcs
<1>4. HistoryTypeOK
  <2>1. inactiveSince \in [Users -> Days0 \cup {None}]
    BY <1>1, <1>2, DaysAssumption DEF HistoryInit, Days0, None
  <2> QED
    BY <1>1, <2>1 DEF Init, HistoryInit, HistoryTypeOK
<1>5. DateInv
  <2>1. now = 0 /\ \A u \in Users : inactiveSince[u] = user[u].since /\ stale[u] = FALSE
    BY <1>1 DEF Init, HistoryInit
  <2> QED
    BY <1>2, <2>1 DEF DateInv, None
<1> QED
  BY <1>1, <1>3, <1>4, <1>5 DEF Init, HistoryInit, AccountsInv, CallInv, GuardInv, ListInv,
     SyncInv, OneAccountPerInvite, MutexReleased, Idle

LEMMA AccountsInvNext ==
    ASSUME AccountsInv, [Next /\ Record]_<<vars, history>>
    PROVE  AccountsInv'
<1>1. CASE Next /\ Record
  <2>1. TypeOK /\ HistoryTypeOK /\ CallInv /\ GuardInv /\ DateInv /\ ListInv /\ SyncInv
        /\ OneAccountPerInvite /\ MutexReleased
    BY DEF AccountsInv
  <2>2. DateInv' /\ inactiveSince' \in [Users -> Days0 \cup {None}] /\ stale' \in [Users -> BOOLEAN]
    BY <1>1, <2>1, DateStep
  <2>3. TypeOK'
    BY <1>1, <2>1, <2>2, Clock, EveryRowSteps, CallsStep, ListStep, InviteStep, MutexStep,
       OtherTypes DEF TypeOK
  <2>4. HistoryTypeOK'
    BY <1>1, <2>1, <2>2, GuardStep, ListStep, InviteStep, MutexStep, OtherTypes DEF HistoryTypeOK
  <2>5. CallInv' /\ GuardInv' /\ ListInv' /\ SyncInv' /\ OneAccountPerInvite' /\ MutexReleased'
    BY <1>1, <2>1, <2>2, CallsStep, GuardStep, ListStep, SyncsStep, InviteStep, MutexStep
  <2> QED
    BY <2>2, <2>3, <2>4, <2>5 DEF AccountsInv
<1>2. CASE UNCHANGED <<vars, history>>
  BY <1>2 DEF vars, sync, history, AccountsInv, TypeOK, HistoryTypeOK, CallInv, GuardInv,
     DateInv, ListInv, SyncInv, OneAccountPerInvite, MutexReleased, Others, Admins, Inactive
<1> QED
  BY <1>1, <1>2

\* The invariant of the accounts: the guard leaves an administrator, the dates
\* are those of the deactivations, an invite makes one account, and only a
\* failure keeps the synchronisation locked.
THEOREM AccountsInvariant == HistorySpec => []AccountsInv
  BY AccountsInvInit, AccountsInvNext, PTL DEF HistorySpec

\* An invite makes one account, however its requests interleave.
THEOREM SingleUseInvite == HistorySpec => []OneAccountPerInvite
<1>1. AccountsInv => OneAccountPerInvite
  BY DEF AccountsInv
<1> QED
  BY <1>1, AccountsInvariant, PTL

\* An account is purged after its period, unless it is doubtful.
THEOREM PurgesAreDue == HistorySpec => PurgedAfterGrace
<1>1. ASSUME AccountsInv, NEW u \in Users, PurgeAccount(u), u \notin doubtful
      PROVE  inactiveSince[u] # None /\ now - inactiveSince[u] > Days
  <2>1. inactiveSince[u] # None /\ inactiveSince[u] < now - Days
    BY <1>1 DEF AccountsInv, ListInv, PurgeAccount
  <2>2. now \in Int /\ Days \in Int /\ inactiveSince[u] \in Int
    BY <1>1, DaysAssumption DEF AccountsInv, TypeOK, HistoryTypeOK, Days0, None
  <2> QED
    BY <2>1, <2>2
<1>2. AccountsInv /\ [Next /\ Record]_<<vars, history>> =>
        [\A u \in Users : PurgeAccount(u) /\ u \notin doubtful =>
            inactiveSince[u] # None /\ now - inactiveSince[u] > Days]_<<vars, history>>
  BY <1>1
<1> QED
  BY <1>2, AccountsInvariant, PTL DEF HistorySpec, PurgedAfterGrace

\* The synchronisation deactivates those who have left the directory.
THEOREM BatchHitsLeavers == HistorySpec => LeaversOnly
<1>1. ASSUME AccountsInv, NEW u \in Users, SyncBatch, user[u].active, ~user'[u].active
      PROVE  user[u].ldap /\ (u \notin directory \/ u \in moved)
  <2>1. user'[u] = IF u \in Leavers THEN [user[u] EXCEPT !.active = FALSE] ELSE user[u]
    BY <1>1 DEF SyncBatch
  <2>2. u \in Leavers
    BY <1>1, <2>1
  <2> QED
    BY <1>1, <2>2 DEF Leavers, SyncBatch, AccountsInv, SyncInv
<1>2. AccountsInv /\ [Next /\ Record]_<<vars, history>> =>
        [\A u \in Users : SyncBatch /\ user[u].active /\ ~user'[u].active =>
            user[u].ldap /\ (u \notin directory \/ u \in moved)]_<<vars, history>>
  BY <1>1
<1> QED
  BY <1>2, AccountsInvariant, PTL DEF HistorySpec, LeaversOnly

\* The last administrator is lost to the synchronisation, or to a request that
\* another party overtook, and to nothing else.
THEOREM LastAdminGuarded == HistorySpec => LastAdminStays
<1>1. ASSUME AccountsInv, Next, Record, Admins # {}, Admins' = {}, ~SyncBatch
      PROVE  \E c \in overtaken : call'[c] # call[c]
  <2>1. TypeOK /\ CallInv /\ GuardInv /\ DateInv /\ SyncInv
    BY <1>1 DEF AccountsInv
  <2>2. PICK u \in Users : user[u].exists /\ user[u].admin /\ user[u].active
    BY <1>1 DEF Admins
  <2>3. ~(user'[u].exists /\ user'[u].admin /\ user'[u].active)
    BY <1>1 DEF Admins
  <2>4. TableStep
    BY <1>1, <2>1, <2>2, <2>3, RowsKept
  <2>5. ASSUME NEW t \in Users, Activate(t) \/ SyncMember(t)
        PROVE  FALSE
    <3>1. user[u] \in Row /\ (user'[u] = user[u] \/ user'[u] = [user[u] EXCEPT !.active = TRUE]
            \/ user'[u] = [user[u] EXCEPT !.active = TRUE, !.since = None])
      BY <2>1, <2>2, <2>5 DEF TypeOK, Activate, SyncMember, Member
    <3> QED
      BY <2>2, <2>3, <3>1 DEF Row
  <2>6. ASSUME NEW c \in Calls, RegisterCreate(c) \/ InviteClaim(c)
        PROVE  FALSE
    <3>1. user'[u] = user[u]
      BY <2>1, <2>2, <2>6 DEF TypeOK, RegisterCreate, InviteClaim
    <3> QED
      BY <2>2, <2>3, <3>1
  <2>7. ASSUME NEW c \in Calls, WriteRow(c) \/ DeleteRow(c), c \notin overtaken
        PROVE  FALSE
    <3>1. call[c].pc = "write" /\ call[c].target \in Users /\ call[c].op \in Updates \cup Removals
      BY <2>1, <2>7 DEF WriteRow, DeleteRow, CallInv
    <3>2. \A v \in Users : v # call[c].target => user'[v] = user[v]
      BY <2>1, <2>7 DEF WriteRow, DeleteRow, TypeOK
    <3>3. u = call[c].target /\ Others(c) = {}
      BY <1>1, <2>2, <2>3, <3>2 DEF Admins, Others
    <3>4. call[c].op \notin GuardedOps
      BY <2>1, <2>2, <2>7, <3>1, <3>3 DEF GuardInv, Admins, GuardedOps
    <3>5. call[c].op \in {"promote", "enable"} /\ WriteRow(c)
      BY <2>7, <3>1, <3>4 DEF GuardedOps, Updates, Removals, DeleteRow
    <3>6. user'[u] = Written(user[u], call[c].op, call[c].saw) /\ user[u] \in Row
      BY <2>1, <3>3, <3>5 DEF WriteRow, TypeOK
    <3> QED
      BY <2>2, <2>3, <3>5, <3>6 DEF Written, Row
  <2>8. ASSUME NEW c \in Calls, WriteRow(c) \/ DeleteRow(c)
        PROVE  call'[c] # call[c]
    <3>1. call[c].pc = "write" /\ call'[c] = Idle
      BY <2>1, <2>8 DEF WriteRow, DeleteRow, HoldersLose, Continues, TypeOK
    <3> QED
      BY <3>1 DEF Idle
  <2> QED
    BY <1>1, <2>4, <2>5, <2>6, <2>7, <2>8 DEF TableStep
<1>2. AccountsInv /\ [Next /\ Record]_<<vars, history>> =>
        [Admins # {} /\ Admins' = {} =>
            SyncBatch \/ \E c \in overtaken : call'[c] # call[c]]_<<vars, history>>
  BY <1>1
<1> QED
  BY <1>2, AccountsInvariant, PTL DEF HistorySpec, LastAdminStays

-----------------------------------------------------------------------------
(* The second factor.                                                      *)

\* A step in which one attempt, and no other, goes from one place to another.
AttemptMoves(p, q) ==
    \E a \in Attempts :
        /\ attempt[a].pc = p /\ attempt'[a].pc = q
        /\ \A b \in Attempts \ {a} : attempt'[b] = attempt[b]

Consuming == \E a \in Attempts : ConsumeStep(a)

Marking == \E a \in Attempts : MarkCode(a)

\* The places tell which operation a step belongs to.
LEMMA OneMoves ==
    ASSUME NEW p, NEW q, NEW u, NEW v, p # q, u # v, AttemptMoves(p, q), AttemptMoves(u, v)
    PROVE  p = u /\ q = v
  BY DEF AttemptMoves

\* An attempt at rest is an attempt.
LEMMA WaitingTyped == Waiting \in AttemptType /\ Waiting.pc = "idle"
  BY DEF Waiting, AttemptType, AttemptPcs, NoStep

\* Where each operation goes.
LEMMA OperationMoves ==
    ASSUME FactorTypeOK
    PROVE  /\ Enrolling => AttemptMoves("setup", "idle")
           /\ Disabling => AttemptMoves("disable", "devices")
           /\ Renewing => AttemptMoves("regenerate", "idle")
           /\ Removing => AttemptMoves("devices", "idle")
           /\ Consuming => AttemptMoves("step", "verified")
           /\ Marking => AttemptMoves("code", "verified")
<1> attempt \in [Attempts -> AttemptType]
  BY DEF FactorTypeOK
<1>1. ASSUME NEW a \in Attempts, NEW p, NEW q, attempt[a].pc = p,
             Proceed(a, q) \/ (Finish(a) /\ q = "idle")
      PROVE  AttemptMoves(p, q)
  <2>1. CASE Proceed(a, q)
    BY <1>1, <2>1 DEF AttemptMoves, Proceed, AttemptType
  <2>2. CASE Finish(a) /\ q = "idle"
    BY <1>1, <2>2, WaitingTyped DEF AttemptMoves, Finish
  <2> QED
    BY <1>1, <2>1, <2>2
<1>2. Enrolling => AttemptMoves("setup", "idle")
  BY <1>1 DEF Enrolling, Enrols, WriteSetup
<1>3. Disabling => AttemptMoves("disable", "devices")
  BY <1>1 DEF Disabling, WriteDisable
<1>4. Renewing => AttemptMoves("regenerate", "idle")
  BY <1>1 DEF Renewing, WriteCodes
<1>5. Removing => AttemptMoves("devices", "idle")
  BY <1>1 DEF Removing, RemoveDevices
<1>6. Consuming => AttemptMoves("step", "verified")
  BY <1>1 DEF Consuming, ConsumeStep
<1>7. Marking => AttemptMoves("code", "verified")
  BY <1>1 DEF Marking, MarkCode
<1> QED
  BY <1>2, <1>3, <1>4, <1>5, <1>6, <1>7

\* The operations that write more than an attempt's own place are different steps ...
LEMMA Apart ==
    ASSUME FactorTypeOK
    PROVE  /\ Enrolling => ~Disabling /\ ~Renewing /\ ~Removing /\ ~Consuming /\ ~Marking
           /\ Disabling => ~Renewing /\ ~Removing /\ ~Consuming /\ ~Marking
           /\ Renewing => ~Removing /\ ~Consuming /\ ~Marking
           /\ Removing => ~Consuming /\ ~Marking
           /\ Consuming => ~Marking
<1>1. ASSUME NEW p, NEW q, NEW u, NEW v, AttemptMoves(p, q), AttemptMoves(u, v), p # q, u # v
      PROVE  p = u /\ q = v
  BY <1>1, OneMoves
<1> QED
  BY <1>1, OperationMoves

\* ... and one attempt takes them.
LEMMA OneCall ==
    ASSUME FactorTypeOK, NEW a \in Attempts, NEW b \in Attempts,
           \/ ConsumeStep(a) /\ ConsumeStep(b)
           \/ MarkCode(a) /\ MarkCode(b)
    PROVE  a = b
<1>1. attempt \in [Attempts -> AttemptType]
  BY DEF FactorTypeOK
<1>2. /\ Proceed(a, "verified") /\ Proceed(b, "verified")
      /\ attempt[a].pc # "verified" /\ attempt[b].pc # "verified"
  BY DEF ConsumeStep, MarkCode
<1> QED
  BY <1>1, <1>2 DEF Proceed, AttemptType

\* What the other steps leave alone.
LEMMA Untouched ==
    ASSUME FactorNext
    PROVE  /\ ~Enrolling /\ ~Renewing => lists' = lists
           /\ ~Enrolling /\ ~Renewing /\ ~Disabling /\ ~Marking =>
                unused' = unused
           /\ ~Enrolling /\ ~Disabling => enabled' = enabled
           /\ ~Enrolling /\ ~Disabling /\ ~Consuming =>
                lastTotpStep' = lastTotpStep
           /\ \A d \in trusted' \ trusted : d \in Devices /\ \E a \in Attempts : Remember(a, d)
<1>1. ASSUME NEW a \in Attempts, AttemptStep(a)
      PROVE  \/ \E m \in Window : WriteSetup(a, m)
             \/ WriteDisable(a) \/ WriteCodes(a) \/ RemoveDevices(a)
             \/ ConsumeStep(a) \/ MarkCode(a)
             \/ \E d \in Devices : Remember(a, d)
             \/ UNCHANGED <<enabled, unused, lastTotpStep, trusted, lists>>
  BY <1>1 DEF AttemptStep, MatchStep, MatchCode, StartSetup, StartChange, Leave
<1>2. ASSUME NEW gone, DropDevices(gone) \/ NextStep
      PROVE  UNCHANGED <<enabled, unused, lastTotpStep, lists>> /\ trusted' \subseteq trusted
  BY <1>2 DEF DropDevices, NextStep
<1>3. CASE \E a \in Attempts : AttemptStep(a)
  <2>0. PICK a \in Attempts : AttemptStep(a)
    BY <1>3
  <2>1. CASE \E m \in Window : WriteSetup(a, m)
    <3>1. Enrolling
      BY <2>1 DEF Enrolling, Enrols
    <3>2. trusted' = trusted
      BY <2>1 DEF WriteSetup
    <3> QED
      BY <3>1, <3>2
  <2>2. CASE WriteDisable(a)
    <3>1. Disabling
      BY <2>2 DEF Disabling
    <3>2. trusted' = trusted /\ lists' = lists
      BY <2>2 DEF WriteDisable
    <3> QED
      BY <3>1, <3>2
  <2>3. CASE WriteCodes(a)
    <3>1. Renewing
      BY <2>3 DEF Renewing
    <3>2. UNCHANGED <<enabled, lastTotpStep, trusted>>
      BY <2>3 DEF WriteCodes
    <3> QED
      BY <3>1, <3>2
  <2>4. CASE RemoveDevices(a)
    BY <2>4 DEF RemoveDevices, DevicesLeft
  <2>5. CASE ConsumeStep(a)
    BY <2>5 DEF ConsumeStep, Consuming
  <2>6. CASE MarkCode(a)
    BY <2>6 DEF MarkCode, Marking
  <2>7. CASE \E d \in Devices : Remember(a, d)
    BY <2>7 DEF Remember
  <2>8. CASE UNCHANGED <<enabled, unused, lastTotpStep, trusted, lists>>
    BY <2>8
  <2> QED
    BY <1>1, <2>0, <2>1, <2>2, <2>3, <2>4, <2>5, <2>6, <2>7, <2>8
<1>4. CASE (\E gone \in SUBSET trusted : DropDevices(gone)) \/ NextStep
  BY <1>2, <1>4
<1> QED
  BY <1>3, <1>4 DEF FactorNext

\* A new list has a number, and codes, that no list had before.
LEMMA ListsGrow ==
    ASSUME FactorTypeOK
    PROVE  /\ Enrolling \/ Renewing => lists' = lists + 1 /\ lists' \in 1 .. MaxLists
                                       /\ unused' = List(lists')
           /\ \A n \in Nat : \A k \in 0 .. n : CodesUpTo(k) \subseteq CodesUpTo(n)
           /\ \A n \in Nat : n > 0 => List(n) \subseteq CodesUpTo(n)
<1>1. Enrolling \/ Renewing => NewList
  BY DEF Enrolling, Enrols, Renewing, WriteSetup, WriteCodes
<1>2. lists \in 0 .. MaxLists /\ MaxLists \in Nat
  BY FactorAssumption DEF FactorTypeOK
<1> QED
  BY <1>1, <1>2 DEF NewList, CodesUpTo, List

\* Lists and the codes accepted of them.
LEMMA ListIsTrueStep ==
    ASSUME FactorTypeOK, AttemptInv, ListIsTrue, FactorNext, FactorRecord
    PROVE  /\ ListIsTrue'
           /\ lists' \in 0 .. MaxLists /\ lists <= lists'
           /\ unused' \subseteq CodesUpTo(lists')
           /\ inForce' \in 0 .. lists'
           /\ accepted' \subseteq List(inForce')
           /\ clashed' \in BOOLEAN
<1> DEFINE Marked == {attempt[a].code : a \in {b \in Attempts : MarkCode(b)}}
<1>t. /\ lists \in 0 .. MaxLists /\ MaxLists \in Nat /\ unused \subseteq CodesUpTo(lists)
      /\ inForce \in 0 .. lists /\ accepted \subseteq List(inForce) /\ clashed \in BOOLEAN
      /\ attempt \in [Attempts -> AttemptType]
  BY FactorAssumption DEF FactorTypeOK
<1>r. /\ inForce' = CASE Enrolling \/ Renewing -> lists'
                      [] Disabling             -> 0
                      [] OTHER                 -> inForce
      /\ accepted' = (accepted \cup Marked) \cap List(inForce')
      /\ clashed' = /\ ~(Enrolling \/ Renewing \/ Disabling)
                    /\ clashed \/ \E a \in Attempts : Clashes(a)
  BY DEF FactorRecord
<1>a. accepted' \subseteq List(inForce') /\ clashed' \in BOOLEAN
  BY <1>r, <1>t
<1>1. CASE Enrolling \/ Renewing
  <2>1. inForce' = lists' /\ Marked = {}
    BY <1>1, <1>r, Apart DEF Marking
  <2>2. lists' = lists + 1 /\ lists' \in 1 .. MaxLists /\ unused' = List(lists')
        /\ unused' \subseteq CodesUpTo(lists')
    BY <1>1, <1>t, ListsGrow
  <2>3. List(inForce) \cap List(lists') = {}
    BY <2>2, <1>t DEF List
  <2>4. accepted' = {}
    BY <2>1, <2>3, <1>r, <1>t
  <2> QED
    BY <2>1, <2>2, <2>4, <1>a, <1>t DEF ListIsTrue, Valid
<1>2. CASE Disabling
  <2>1. ~Enrolling /\ ~Renewing
    BY <1>2, Apart
  <2>2. inForce' = 0 /\ lists' = lists
    BY <1>2, <2>1, <1>r, Untouched
  <2>3. unused' = {}
    BY <1>2 DEF Disabling, WriteDisable
  <2> QED
    BY <2>2, <2>3, <1>a, <1>t DEF ListIsTrue, Valid
<1>3. ASSUME ~Enrolling, ~Renewing, ~Disabling, NEW a \in Attempts, MarkCode(a)
      PROVE  /\ ListIsTrue' /\ unused' \subseteq CodesUpTo(lists')
             /\ lists' = lists /\ inForce' = inForce
  <2>1. inForce' = inForce /\ lists' = lists
    BY <1>3, <1>r, Untouched
  <2>2. Marked = {attempt[a].code}
    BY <1>3, OneCall
  <2>3. unused' = attempt[a].list \ {attempt[a].code} /\ attempt[a].code \in attempt[a].list
        /\ attempt[a].list \subseteq CodesUpTo(lists)
    BY <1>3 DEF MarkCode, AttemptInv
  <2>4. CASE attempt[a].list # unused
    BY <1>3, <1>r, <2>1, <2>3, <2>4 DEF Clashes, ListIsTrue
  <2>5. CASE clashed
    BY <1>3, <1>r, <2>1, <2>3, <2>5 DEF ListIsTrue
  <2>6. CASE ~clashed /\ attempt[a].list = unused
    <3>1. unused = Valid
      BY <2>6 DEF ListIsTrue
    <3>2. inForce # 0
      BY <3>1, <2>3, <2>6 DEF Valid
    <3>3. Valid' = Valid \ {attempt[a].code}
      BY <3>1, <3>2, <2>1, <2>2, <1>r, <1>t DEF Valid
    <3> QED
      BY <3>1, <3>3, <2>1, <2>3, <2>6 DEF ListIsTrue
  <2> QED
    BY <2>1, <2>3, <2>4, <2>5, <2>6
<1>4. CASE ~Enrolling /\ ~Renewing /\ ~Disabling /\ ~Marking
  <2>1. inForce' = inForce /\ lists' = lists /\ unused' = unused /\ Marked = {}
    BY <1>4, <1>r, Untouched DEF Marking
  <2>2. accepted' = accepted /\ clashed' = clashed
    BY <1>4, <1>r, <1>t, <2>1 DEF Clashes, Marking
  <2> QED
    BY <2>1, <2>2, <1>t DEF ListIsTrue, Valid
<1> QED
  BY <1>1, <1>2, <1>3, <1>4, <1>a, <1>t DEF Marking

\* The last step and the steps accepted.
LEMMA StepStep ==
    ASSUME FactorTypeOK, AttemptInv, StepInv, FactorNext, FactorRecord
    PROVE  StepInv' /\ spent' \subseteq Nat /\ lastTotpStep' \in Nat \cup {NoStep}
<1> DEFINE Used == {attempt[a].step : a \in {b \in Attempts : ConsumeStep(b)}}
<1>t. /\ lastTotpStep \in Nat \cup {NoStep} /\ spent \subseteq Nat /\ enabled \in BOOLEAN
      /\ clock \in Nat /\ clock >= 1 /\ attempt \in [Attempts -> AttemptType]
  BY DEF FactorTypeOK
<1>r. spent' = CASE Enrolling -> {lastTotpStep'}
                 [] Disabling -> {}
                 [] OTHER     -> spent \cup Used
  BY DEF FactorRecord
<1>1. CASE Enrolling
  <2>1. spent' = {lastTotpStep'}
    BY <1>1, <1>r, Apart
  <2>2. lastTotpStep' \in Nat
    BY <1>1, <1>t DEF Enrolling, Enrols, WriteSetup, Window
  <2> QED
    BY <2>1, <2>2 DEF StepInv
<1>2. CASE Disabling
  <2>1. spent' = {}
    BY <1>2, <1>r, Apart
  <2>2. lastTotpStep' = NoStep
    BY <1>2 DEF Disabling, WriteDisable
  <2> QED
    BY <2>1, <2>2 DEF StepInv
<1>3. ASSUME NEW a \in Attempts, ConsumeStep(a)
      PROVE  StepInv' /\ spent' \subseteq Nat /\ lastTotpStep' \in Nat
  <2>1. Consuming
    BY <1>3 DEF Consuming
  <2>2. Used = {attempt[a].step}
    BY <1>3, OneCall
  <2>3. spent' = spent \cup {attempt[a].step}
    BY <1>r, <2>1, <2>2, Apart
  <2>4. lastTotpStep' = attempt[a].step /\ enabled' = enabled /\ Fresher(attempt[a].step)
        /\ attempt[a].pc = "step"
    BY <1>3 DEF ConsumeStep
  <2>5. attempt[a].step \in Nat
    BY <2>4, <1>t DEF AttemptInv, AttemptType
  <2>6. lastTotpStep < attempt[a].step
    BY <2>4, <2>5, <1>t DEF Fresher, NoStep
  <2>7. ASSUME enabled', NEW m \in spent'
        PROVE  m <= lastTotpStep'
    <3>1. CASE m = attempt[a].step
      BY <3>1, <2>4, <2>5
    <3>2. CASE m \in spent
      <4>1. m \in Nat /\ m <= lastTotpStep /\ lastTotpStep \in Int
        BY <3>2, <2>4, <2>7, <1>t DEF StepInv, NoStep
      <4> QED
        BY <4>1, <2>4, <2>5, <2>6
    <3> QED
      BY <2>7, <2>3, <3>1, <3>2
  <2>8. StepInv'
    BY <2>7 DEF StepInv
  <2> QED
    BY <2>3, <2>4, <2>5, <2>8, <1>t
<1>4. CASE ~Enrolling /\ ~Disabling /\ ~Consuming
  <2>1. lastTotpStep' = lastTotpStep /\ enabled' = enabled /\ Used = {}
    BY <1>4, Untouched DEF Consuming
  <2>2. spent' = spent
    BY <1>4, <1>r, <2>1
  <2> QED
    BY <2>1, <2>2, <1>t DEF StepInv
<1> QED
  BY <1>1, <1>2, <1>3, <1>4 DEF Consuming

\* The trusted devices and how they came to be trusted.
LEMMA DevicesStep ==
    ASSUME FactorTypeOK, AttemptInv, DevicesAreEarned, NoneLeft, FactorNext, FactorRecord
    PROVE  /\ DevicesAreEarned' /\ NoneLeft'
           /\ earned' \subseteq trusted' /\ astray' \subseteq trusted' /\ kept' \subseteq trusted'
<1>t. /\ enabled \in BOOLEAN
      /\ earned \subseteq trusted /\ astray \subseteq trusted /\ kept \subseteq trusted
  BY DEF FactorTypeOK
<1>r. /\ earned' = IF Enrolling \/ Disabling THEN {}
                   ELSE (earned \cup RememberedBy(Attempts \ outdated)) \cap trusted'
      /\ astray' = (astray \cup RememberedBy(outdated)) \cap trusted'
      /\ kept' = CASE Removing -> {}
                   [] Disabling \/ (Enrolling /\ enabled) -> trusted
                   [] OTHER -> kept \cap trusted'
  BY DEF FactorRecord
<1>1. CASE Enrolling
  <2>1. enabled' = TRUE /\ trusted' = trusted
    BY <1>1 DEF Enrolling, Enrols, WriteSetup
  <2>2. kept' = IF enabled THEN trusted ELSE kept
    BY <1>1, <1>r, <1>t, <2>1, Apart
  <2>3. earned' = {} /\ astray \subseteq astray' /\ astray' \subseteq trusted'
    BY <1>1, <1>r, <1>t, <2>1
  <2> QED
    BY <2>1, <2>2, <2>3, <1>t DEF DevicesAreEarned, NoneLeft
<1>2. CASE Disabling
  <2>1. enabled' = FALSE /\ trusted' = trusted
    BY <1>2 DEF Disabling, WriteDisable
  <2>2. kept' = trusted /\ earned' = {} /\ astray' \subseteq trusted'
    BY <1>2, <1>r, <2>1, Apart
  <2> QED
    BY <2>1, <2>2 DEF DevicesAreEarned, NoneLeft
<1>3. CASE Removing
  <2>1. trusted' = {}
    BY <1>3 DEF Removing, RemoveDevices, DevicesLeft
  <2>2. earned' = {} /\ astray' = {} /\ kept' = {}
    BY <1>3, <1>r, <2>1, Apart
  <2> QED
    BY <2>1, <2>2 DEF DevicesAreEarned, NoneLeft
<1>4. CASE ~Enrolling /\ ~Disabling /\ ~Removing
  <2>1. enabled' = enabled
    BY <1>4, Untouched
  <2>2. /\ earned' = (earned \cup RememberedBy(Attempts \ outdated)) \cap trusted'
        /\ astray' = (astray \cup RememberedBy(outdated)) \cap trusted'
        /\ kept' = kept \cap trusted'
    BY <1>4, <1>r
  <2>3. ASSUME NEW d \in trusted' \ trusted
        PROVE  /\ d \in RememberedBy(Attempts \ outdated) \/ d \in RememberedBy(outdated)
               /\ ~enabled => d \in RememberedBy(outdated)
    <3>1. PICK a \in Attempts : Remember(a, d)
      BY <2>3, Untouched
    <3>2. CASE a \in outdated
      BY <3>1, <3>2 DEF RememberedBy
    <3>3. CASE a \notin outdated
      <4>1. enabled
        BY <3>1, <3>3 DEF Remember, AttemptInv
      <4> QED
        BY <3>1, <3>3, <4>1 DEF RememberedBy
    <3> QED
      BY <3>2, <3>3
  <2>4. \A d \in trusted : d \in trusted' =>
            /\ enabled => d \in earned' \cup astray' \cup kept'
            /\ ~enabled => d \in astray' \cup kept'
    BY <2>2 DEF DevicesAreEarned, NoneLeft
  <2>5. \A d \in trusted' \ trusted :
            /\ enabled => d \in earned' \cup astray' \cup kept'
            /\ ~enabled => d \in astray' \cup kept'
    BY <2>2, <2>3
  <2> QED
    BY <2>1, <2>2, <2>4, <2>5 DEF DevicesAreEarned, NoneLeft
<1> QED
  BY <1>1, <1>2, <1>3, <1>4

\* What becomes of an attempt.
LEMMA AttemptChange ==
    ASSUME FactorTypeOK, AttemptInv, FactorNext, NEW b \in Attempts
    PROVE  \/ attempt'[b] = attempt[b]
           \/ attempt'[b] = Waiting
           \/ /\ attempt'[b].pc \in {"step", "code", "disable", "regenerate", "setup"}
              /\ attempt[b] = Waiting
              /\ IF attempt'[b].pc = "setup" THEN ~enabled ELSE enabled
              /\ attempt'[b] \in AttemptType
              /\ attempt'[b].list \subseteq CodesUpTo(lists)
              /\ attempt'[b].pc = "step" => attempt'[b].step # NoStep
              /\ attempt'[b].pc = "code" => attempt'[b].code \in attempt'[b].list
           \/ /\ attempt[b].pc \in {"step", "code", "disable"}
              /\ attempt'[b] = [Waiting EXCEPT !.pc = IF attempt[b].pc = "disable" THEN "devices"
                                              ELSE "verified"]
              /\ attempt[b].pc = "disable" => Disabling
<1>t. /\ attempt \in [Attempts -> AttemptType] /\ unused \subseteq CodesUpTo(lists)
      /\ lastTotpStep \in Nat \cup {NoStep} /\ clock \in Nat /\ clock >= 1
      /\ lists \in 0 .. MaxLists /\ MaxLists \in Nat
  BY FactorAssumption DEF FactorTypeOK
<1>1. CASE \E gone \in SUBSET trusted : DropDevices(gone) \/ NextStep
  BY <1>1 DEF DropDevices, NextStep
<1>2. ASSUME NEW a \in Attempts, AttemptStep(a), a # b
      PROVE  attempt'[b] = attempt[b]
  BY <1>2, <1>t DEF AttemptStep, MatchStep, MatchCode, ConsumeStep, MarkCode, Remember, StartSetup,
     WriteSetup, StartChange, WriteDisable, RemoveDevices, WriteCodes, Leave, Proceed, Finish
<1> DEFINE Reads == /\ attempt'[b].pc \in {"step", "code", "disable", "regenerate", "setup"}
                    /\ attempt[b] = Waiting
                    /\ IF attempt'[b].pc = "setup" THEN ~enabled ELSE enabled
                    /\ attempt'[b] \in AttemptType
                    /\ attempt'[b].list \subseteq CodesUpTo(lists)
                    /\ attempt'[b].pc = "step" => attempt'[b].step # NoStep
                    /\ attempt'[b].pc = "code" => attempt'[b].code \in attempt'[b].list
<1>3. CASE \E m \in Window : MatchStep(b, m)
  <2>1. PICK m \in Window : MatchStep(b, m)
    BY <1>3
  <2>2. m \in Nat
    BY <2>1, <1>t DEF Window, MatchStep, NoStep
  <2>3. attempt'[b] = [Waiting EXCEPT !.pc = "step", !.step = m]
    BY <2>1, <1>t DEF MatchStep
  <2>4. attempt'[b] = [pc |-> "step", step |-> m, code |-> <<0, 0>>, list |-> {}]
    BY <2>3 DEF Waiting
  <2>5. attempt'[b] \in AttemptType /\ attempt'[b].pc = "step" /\ attempt'[b].step # NoStep
        /\ attempt'[b].list = {}
    BY <2>2, <2>4 DEF AttemptType, AttemptPcs, NoStep
  <2> QED
    BY <2>1, <2>5 DEF MatchStep
<1>4. CASE \E c \in unused : MatchCode(b, c)
  <2>1. PICK c \in unused : MatchCode(b, c)
    BY <1>4
  <2>2. /\ c \in Nat \X Nat /\ unused \subseteq CodesUpTo(MaxLists)
    BY <1>t DEF CodesUpTo
  <2>3. attempt'[b] = [Waiting EXCEPT !.pc = "code", !.code = c, !.list = unused]
    BY <2>1, <1>t DEF MatchCode
  <2> QED
    BY <2>1, <2>2, <2>3, <1>t DEF MatchCode, Waiting, AttemptType, AttemptPcs, NoStep
<1>5. CASE \E pc \in {"disable", "regenerate"} : StartChange(b, pc)
  <2>1. PICK pc \in {"disable", "regenerate"} : StartChange(b, pc)
    BY <1>5
  <2>2. unused \subseteq CodesUpTo(MaxLists)
    BY <1>t DEF CodesUpTo
  <2>3. attempt'[b] = [Waiting EXCEPT !.pc = pc, !.step = lastTotpStep, !.list = unused]
    BY <2>1, <1>t DEF StartChange
  <2> QED
    BY <2>1, <2>2, <2>3, <1>t DEF StartChange, Waiting, AttemptType, AttemptPcs
<1>6. CASE StartSetup(b)
  <2>1. attempt'[b] = [Waiting EXCEPT !.pc = "setup"] /\ attempt[b] = Waiting /\ ~enabled
    BY <1>6, <1>t DEF StartSetup, Proceed
  <2> QED
    BY <2>1 DEF Waiting, AttemptType, AttemptPcs
<1>7. CASE ConsumeStep(b) \/ MarkCode(b)
  BY <1>7, <1>t DEF ConsumeStep, MarkCode, Proceed
<1>8. CASE WriteDisable(b)
  BY <1>8, <1>t DEF WriteDisable, Proceed, Disabling
<1>9. CASE \/ \E d \in Devices : Remember(b, d)
           \/ \E m \in Window : WriteSetup(b, m)
           \/ RemoveDevices(b) \/ WriteCodes(b) \/ Leave(b)
  BY <1>9, <1>t DEF Remember, WriteSetup, RemoveDevices, WriteCodes, Leave, Finish
<1>10. CASE AttemptStep(b)
  BY <1>10, <1>3, <1>4, <1>5, <1>6, <1>7, <1>8, <1>9 DEF AttemptStep
<1> QED
  BY <1>1, <1>2, <1>10 DEF FactorNext

\* What an attempt has read stays of the kind it was, and true until it is outdated.
LEMMA AttemptsStep ==
    ASSUME FactorTypeOK, AttemptInv, ListIsTrue, FactorNext, FactorRecord
    PROVE  AttemptInv' /\ attempt' \in [Attempts -> AttemptType]
<1>t. attempt \in [Attempts -> AttemptType] /\ lists \in 0 .. MaxLists /\ MaxLists \in Nat
      /\ lists' \in 0 .. MaxLists /\ lists <= lists'
  BY ListIsTrueStep, FactorAssumption DEF FactorTypeOK
<1>g. CodesUpTo(lists) \subseteq CodesUpTo(lists')
  BY <1>t DEF CodesUpTo
<1>c. attempt' = [b \in Attempts |-> attempt'[b]]
  BY <1>t DEF FactorNext, AttemptStep, MatchStep, MatchCode, ConsumeStep, MarkCode, Remember,
     StartSetup, WriteSetup, StartChange, WriteDisable, RemoveDevices, WriteCodes, Leave,
     Proceed, Finish, DropDevices, NextStep
<1>1. ASSUME NEW b \in Attempts
      PROVE  /\ attempt'[b] \in AttemptType
             /\ attempt'[b].list \subseteq CodesUpTo(lists')
             /\ attempt'[b].pc = "step" => attempt'[b].step # NoStep
             /\ attempt'[b].pc = "code" => attempt'[b].code \in attempt'[b].list
             /\ b \notin outdated' =>
                 /\ attempt'[b].pc \in {"step", "code", "verified", "disable", "regenerate"} => enabled'
                 /\ attempt'[b].pc = "setup" => ~enabled'
  <2> DEFINE Moved == /\ attempt[b].pc \in {"step", "code", "disable"}
                      /\ attempt'[b] = [Waiting EXCEPT !.pc = IF attempt[b].pc = "disable" THEN "devices"
                                                      ELSE "verified"]
             Typed == /\ attempt'[b] \in AttemptType
                      /\ attempt'[b].list \subseteq CodesUpTo(lists')
                      /\ attempt'[b].pc = "step" => attempt'[b].step # NoStep
                      /\ attempt'[b].pc = "code" => attempt'[b].code \in attempt'[b].list
  <2>1. CASE attempt'[b] = Waiting
    BY <2>1, WaitingTyped DEF Waiting
  <2>2. CASE attempt'[b] = attempt[b]
    <3>1. Typed
      BY <2>2, <1>t, <1>g DEF AttemptInv
    <3>2. ASSUME b \notin outdated', attempt'[b] # Waiting
          PROVE  b \notin outdated /\ enabled' = enabled
      BY <3>2, Untouched DEF FactorRecord
    <3> QED
      BY <2>1, <2>2, <3>1, <3>2 DEF AttemptInv
  <2>3. ASSUME attempt[b] = Waiting, attempt'[b].pc \in {"step", "code", "disable", "regenerate", "setup"},
               IF attempt'[b].pc = "setup" THEN ~enabled ELSE enabled, attempt'[b] \in AttemptType,
               attempt'[b].list \subseteq CodesUpTo(lists),
               attempt'[b].pc = "step" => attempt'[b].step # NoStep,
               attempt'[b].pc = "code" => attempt'[b].code \in attempt'[b].list
        PROVE  Typed /\ (b \notin outdated' => enabled' = enabled)
    <3>1. attempt'[b] # Waiting
      BY <2>3, WaitingTyped
    <3>2. b \notin outdated' => ~Enrolling /\ ~Disabling
      BY <3>1 DEF FactorRecord
    <3> QED
      BY <2>3, <3>2, <1>g, Untouched
  <2>4. CASE Moved
    <3>1. attempt'[b].list = {} /\ attempt'[b].pc \in {"verified", "devices"}
      BY <2>4 DEF Waiting
    <3>2. Typed
      BY <2>4, <3>1 DEF Waiting, NoStep, AttemptType, AttemptPcs
    <3>3. ASSUME b \notin outdated', attempt'[b].pc = "verified"
          PROVE  enabled'
      <4>1. b \notin outdated /\ enabled' = enabled
        BY <3>3, Untouched, WaitingTyped DEF FactorRecord
      <4> QED
        BY <2>4, <4>1 DEF AttemptInv
    <3> QED
      BY <3>1, <3>2, <3>3
  <2>5. \/ attempt'[b] = Waiting \/ attempt'[b] = attempt[b] \/ Moved
        \/ /\ attempt[b] = Waiting
           /\ attempt'[b].pc \in {"step", "code", "disable", "regenerate", "setup"}
           /\ IF attempt'[b].pc = "setup" THEN ~enabled ELSE enabled
           /\ attempt'[b] \in AttemptType
           /\ attempt'[b].list \subseteq CodesUpTo(lists)
           /\ attempt'[b].pc = "step" => attempt'[b].step # NoStep
           /\ attempt'[b].pc = "code" => attempt'[b].code \in attempt'[b].list
    BY AttemptChange
  <2> QED
    BY <2>1, <2>2, <2>3, <2>4, <2>5
<1> QED
  BY <1>1, <1>c DEF AttemptInv

\* The account starts without a second factor.
LEMMA FactorStarts == FactorInit /\ FactorHistoryInit => FactorInv
<1> SUFFICES ASSUME FactorInit, FactorHistoryInit
             PROVE  FactorInv
  OBVIOUS
<1> USE DEF FactorInit, FactorHistoryInit
<1>1. attempt \in [Attempts -> AttemptType] /\ \A a \in Attempts : attempt[a] = Waiting
  BY WaitingTyped
<1>2. FactorTypeOK
  <2>1. lists \in 0 .. MaxLists /\ inForce \in 0 .. lists /\ clock \in Nat /\ clock >= 1
        /\ lastTotpStep \in Nat \cup {NoStep}
    BY FactorAssumption
  <2>2. /\ unused \subseteq CodesUpTo(lists) /\ accepted \subseteq List(inForce)
        /\ trusted \subseteq Devices /\ spent \subseteq Nat /\ outdated \subseteq Attempts
        /\ earned \subseteq trusted /\ astray \subseteq trusted /\ kept \subseteq trusted
    OBVIOUS
  <2>3. enabled \in BOOLEAN /\ clashed \in BOOLEAN
    OBVIOUS
  <2> QED
    BY <1>1, <2>1, <2>2, <2>3 DEF FactorTypeOK
<1>3. AttemptInv
  BY <1>1 DEF AttemptInv, Waiting
<1>4. ListIsTrue /\ StepInv /\ DevicesAreEarned /\ NoneLeft
  BY DEF ListIsTrue, Valid, StepInv, DevicesAreEarned, NoneLeft
<1> QED
  BY <1>2, <1>3, <1>4 DEF FactorInv

\* Every step keeps the invariant.
LEMMA FactorKept ==
    FactorInv /\ [FactorNext /\ FactorRecord]_<<factorVars, factorHistory>> => FactorInv'
<1>1. ASSUME FactorInv, FactorNext, FactorRecord
      PROVE  FactorInv'
  <2>1. AttemptInv' /\ attempt' \in [Attempts -> AttemptType]
    BY <1>1, AttemptsStep DEF FactorInv
  <2>2. /\ ListIsTrue' /\ lists' \in 0 .. MaxLists /\ unused' \subseteq CodesUpTo(lists')
        /\ inForce' \in 0 .. lists' /\ accepted' \subseteq List(inForce') /\ clashed' \in BOOLEAN
    BY <1>1, ListIsTrueStep DEF FactorInv
  <2>3. StepInv' /\ spent' \subseteq Nat /\ lastTotpStep' \in Nat \cup {NoStep}
    BY <1>1, StepStep DEF FactorInv
  <2>4. /\ DevicesAreEarned' /\ NoneLeft'
        /\ earned' \subseteq trusted' /\ astray' \subseteq trusted' /\ kept' \subseteq trusted'
    BY <1>1, DevicesStep DEF FactorInv
  <2>5. enabled' \in BOOLEAN
    BY <1>1, Untouched DEF FactorInv, FactorTypeOK, Enrolling, Enrols, WriteSetup, Disabling,
       WriteDisable
  <2>6. clock' \in Nat /\ clock' >= 1
    <3>1. clock' = clock \/ clock' = clock + 1
      BY <1>1 DEF FactorNext, AttemptStep, MatchStep, MatchCode, ConsumeStep, MarkCode, Remember,
         StartSetup, WriteSetup, StartChange, WriteDisable, RemoveDevices, WriteCodes, Leave,
         DropDevices, NextStep
    <3> QED
      BY <1>1, <3>1 DEF FactorInv, FactorTypeOK
  <2>8. trusted' \subseteq Devices
    <3>1. ASSUME NEW d \in trusted' \ trusted
          PROVE  d \in Devices
      BY <1>1, <3>1, Untouched
    <3> QED
      BY <1>1, <3>1 DEF FactorInv, FactorTypeOK
  <2>7. outdated' \subseteq Attempts
    BY <1>1 DEF FactorInv, FactorTypeOK, FactorRecord
  <2> QED
    BY <2>1, <2>2, <2>3, <2>4, <2>5, <2>6, <2>7, <2>8 DEF FactorInv, FactorTypeOK
<1>2. ASSUME FactorInv, UNCHANGED <<factorVars, factorHistory>>
      PROVE  FactorInv'
  BY <1>2 DEF FactorInv, FactorTypeOK, AttemptInv, ListIsTrue, Valid, StepInv, DevicesAreEarned,
     NoneLeft, factorVars, factorHistory
<1> QED
  BY <1>1, <1>2

\* The inductive invariant of the second factor, for any number of requests,
\* devices, lists and steps.
THEOREM FactorInvariant == FactorHistorySpec => []FactorInv
  BY FactorStarts, FactorKept, PTL DEF FactorHistorySpec

\* As long as no write-back met another write, exactly the codes that were given out
\* last and not used are accepted.
THEOREM ListsAreTrue == FactorHistorySpec => []ListIsTrue
<1>1. FactorInv => ListIsTrue
  BY DEF FactorInv
<1> QED
  BY <1>1, FactorInvariant, PTL

\* A device that skips the second factor has shown one in the present enrolment, with
\* the exceptions that DevicesAreEarned names.
THEOREM DevicesEarned == FactorHistorySpec => []DevicesAreEarned
<1>1. FactorInv => DevicesAreEarned
  BY DEF FactorInv
<1> QED
  BY <1>1, FactorInvariant, PTL

\* Steps and backup codes work once, with the exceptions that FactorsWorkOnce names.
THEOREM OneUse == FactorHistorySpec => FactorsWorkOnce
<1>1. ASSUME FactorInv, FactorNext, NEW a \in Attempts
      PROVE  /\ ConsumeStep(a) => attempt[a].step \notin spent \/ a \in outdated
             /\ MarkCode(a) => attempt[a].code \in Valid \/ clashed \/ Clashes(a)
  <2>1. ASSUME ConsumeStep(a), a \notin outdated
        PROVE  attempt[a].step \notin spent
    <3>1. enabled /\ attempt[a].step \in Nat /\ lastTotpStep \in Nat \cup {NoStep} /\ spent \subseteq Nat
      BY <1>1, <2>1 DEF ConsumeStep, FactorInv, AttemptInv, FactorTypeOK, AttemptType
    <3>2. \A m \in spent : m <= lastTotpStep
      BY <1>1, <3>1 DEF FactorInv, StepInv
    <3>3. lastTotpStep < attempt[a].step
      BY <2>1, <3>1 DEF ConsumeStep, Fresher, NoStep
    <3> QED
      BY <3>1, <3>2, <3>3 DEF NoStep
  <2>2. ASSUME MarkCode(a), ~Clashes(a), ~clashed
        PROVE  attempt[a].code \in Valid
    <3>1. attempt[a].list = unused /\ attempt[a].code \in attempt[a].list
      BY <1>1, <2>2 DEF Clashes, MarkCode, FactorInv, AttemptInv
    <3> QED
      BY <1>1, <2>2, <3>1 DEF FactorInv, ListIsTrue
  <2> QED
    BY <2>1, <2>2
<1>2. FactorInv /\ [FactorNext /\ FactorRecord]_<<factorVars, factorHistory>> =>
        [\A a \in Attempts :
            /\ ConsumeStep(a) => attempt[a].step \notin spent \/ a \in outdated
            /\ MarkCode(a) => attempt[a].code \in Valid \/ clashed \/ Clashes(a)
          ]_<<factorVars, factorHistory>>
  BY <1>1
<1> QED
  BY <1>2, FactorInvariant, PTL DEF FactorHistorySpec, FactorsWorkOnce

=============================================================================
