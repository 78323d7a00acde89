------------------------------- MODULE Quota -------------------------------
(***************************************************************************)
(* The storage quota of the owner of Files: uploads, copies and files that *)
(* reverse shares receive measure the usage, await, and add a row; an      *)
(* evaluation that nobody awaits keeps the grace clock quotaExceededSince  *)
(* (quota/service.ts); and a cleanup run deletes files of an owner whose   *)
(* clock has run for longer than the grace period (cleanup/service.ts).    *)
(*                                                                         *)
(* A file has the size 1.  Time counts days.  Which of several candidates  *)
(* is the oldest is left open.                                             *)
(***************************************************************************)
EXTENDS Files

CONSTANTS
    Reqs,       \* concurrent requests and cleanup runs
    Limit,      \* maxTotalStorage of the owner, not 0, which is "no limit"
    Factor,     \* reverseShareMaxOverageFactor
    GraceDays,  \* quotaGracePeriodDays
    MaxDay,     \* bound: the last day
    MaxReceived \* bound: received files at a time

ASSUME QuotaAssumption ==
    /\ Limit \in Nat \ {0} /\ Factor \in Nat \ {0} /\ GraceDays \in Nat
    /\ MaxDay \in Nat /\ MaxReceived \in Nat

None == -1

VARIABLES
    received,   \* files received through reverse shares
    since,      \* quotaExceededSince
    day,
    req         \* requests and cleanup runs in flight

quota == <<received, since, day, req>>
vars == <<parent, place, share, move, started, received, since, day, req>>

\* "used": what the request measured, then what it evaluates; "saw": the
\* clock its evaluation has read; "picked": files the run has selected.
Idle == [op |-> "none", pc |-> "idle", used |-> 0, saw |-> None, picked |-> {}]

\* calculateStorageUsed
Used == Cardinality(Stored) + received

\* The clock runs since day 0 if the limit is reached.
Init ==
    /\ parent \in [Folders -> Places \cup {Unborn}] /\ Acyclic(parent)
    /\ \A d \in Dirs : parent[d] \in Dirs \cup {Root}
    /\ place \in [Files -> Places \cup {Unborn}]
    /\ \A f \in Stored : place[f] \in Dirs \cup {Root}
    /\ share \in [Shares -> [kept : BOOLEAN, files : SUBSET Stored, folders : SUBSET Dirs,
                             recent : BOOLEAN]]
    /\ \A s \in Shares : share[s].kept \/ share[s] = NoShare
    /\ Cardinality(Dirs) + Cardinality(Stored) + Cardinality(Kept) <= MaxRows
    /\ received \in 0 .. MaxReceived
    /\ since = IF Used >= Limit THEN 0 ELSE None
    /\ day = 0
    /\ move = [m \in Moves |-> Still]
    /\ req = [r \in Reqs |-> Idle]
    /\ started = 0

-----------------------------------------------------------------------------
(* What adds to the usage.                                                 *)

\* Mutant: a full storage takes one more.
FitsOneMore(op) == IF op = "receive" THEN Used + 1 <= Limit * Factor ELSE Used <= Limit

\* The hard limit for the owner, the soft one for reverse shares.
Fits(op) == Used + 1 <= (IF op = "receive" THEN Limit * Factor ELSE Limit)

\* The usage is measured long before the row is created; a copy transfers the
\* object in between.
Start(r, op) ==
    /\ req[r] = Idle
    /\ op = "copy" => received > 0
    /\ Fits(op)
    /\ req' = [req EXCEPT ![r] = [Idle EXCEPT !.op = op, !.pc = "create", !.used = Used]]
    /\ Begins
    /\ UNCHANGED <<rows, move, received, since, day>>

\* The new usage is the measured one and the size of the file.  A copy does
\* not evaluate it.
Registered(r) ==
    IF req[r].op = "copy" THEN Idle
    ELSE [req[r] EXCEPT !.pc = "read", !.used = @ + 1]

CreateFile(r, f, p) ==
    /\ req[r].op \in {"upload", "copy"} /\ req[r].pc = "create"
    /\ place[f] = Unborn /\ p \in Dirs \cup {Root} /\ (req[r].op = "copy" => p = Root)
    /\ Room
    /\ place' = [place EXCEPT ![f] = p]
    /\ req' = [req EXCEPT ![r] = Registered(r)]
    /\ UNCHANGED <<parent, share, move, started, received, since, day>>

Receive(r) ==
    /\ req[r].op = "receive" /\ req[r].pc = "create"
    /\ received < MaxReceived
    /\ received' = received + 1
    /\ req' = [req EXCEPT ![r] = Registered(r)]
    /\ UNCHANGED <<rows, move, started, since, day>>

\* The owner, or the cleanup of reverse shares, removes a received file.
DropReceived ==
    /\ received > 0
    /\ received' = received - 1
    /\ UNCHANGED <<rows, move, started, since, day, req>>

-----------------------------------------------------------------------------
(* evaluateAndNotifyQuota.                                                 *)

EvalRead(r) ==
    /\ req[r].pc = "read"
    /\ req' = [req EXCEPT ![r].pc = "write", ![r].saw = since]
    /\ UNCHANGED <<rows, move, started, received, since, day>>

\* Mutant: the limit counts as reached when it is passed.
ClockBeyond(used, saw) ==
    IF used < Limit /\ saw # None THEN None
    ELSE IF used > Limit /\ saw = None THEN day
    ELSE since

\* Set on the transition, cleared below the limit, otherwise not written.
Clock(used, saw) ==
    IF used < Limit /\ saw # None THEN None
    ELSE IF used >= Limit /\ saw = None THEN day
    ELSE since

EvalWrite(r) ==
    /\ req[r].pc = "write"
    /\ since' = Clock(req[r].used, req[r].saw)
    /\ req' = [req EXCEPT ![r] = Idle]
    /\ UNCHANGED <<rows, move, started, received, day>>

-----------------------------------------------------------------------------
(* enforceQuotaOverage.                                                    *)

\* Mutant: the last day of the period counts as its end.
OverdueEarly == since # None /\ since + GraceDays <= day

Overdue == since # None /\ since + GraceDays < day

\* The run lists the owners that are overdue; there is one run at a time.
StartSweep(r) ==
    /\ req[r] = Idle /\ \A q \in Reqs : req[q].op # "sweep"
    /\ Overdue
    /\ req' = [req EXCEPT ![r] = [Idle EXCEPT !.op = "sweep", !.pc = "measure"]]
    /\ Begins
    /\ UNCHANGED <<rows, move, received, since, day>>

\* Within the limit: evaluate.  "used" is then what has to be freed.
Measure(r) ==
    /\ req[r].pc = "measure"
    /\ req' = [req EXCEPT ![r] = IF Used <= Limit
                                 THEN [@ EXCEPT !.pc = "read", !.used = Used]
                                 ELSE [@ EXCEPT !.pc = "orphans", !.used = Used - Limit]]
    /\ UNCHANGED <<rows, move, started, received, since, day>>

\* The shares that list the file or its own folder.
Listing(f) == {s \in Kept : f \in share[s].files \/ place[f] \in share[s].folders}

Orphans == {f \in Stored : Listing(f) = {}}

\* Mutant: a recent share protects the files it lists, not its folders.
InactiveButInFolder == {f \in Stored : /\ Listing(f) # {}
                                       /\ \A s \in Kept : share[s].recent => f \notin share[s].files}

Inactive == {f \in Stored : Listing(f) # {} /\ \A s \in Listing(f) : ~share[s].recent}

\* The first n of S in the order of their creation.
Takes(S, n, T) == T \subseteq S /\ IF Cardinality(S) <= n THEN T = S ELSE Cardinality(T) = n

\* Files that no share lists come first ...
PickOrphans(r, T) ==
    /\ req[r].pc = "orphans"
    /\ Takes(Orphans, req[r].used, T)
    /\ req' = [req EXCEPT ![r] = [@ EXCEPT !.picked = T,
                   !.pc = IF Cardinality(T) >= req[r].used THEN "delete" ELSE "inactive"]]
    /\ UNCHANGED <<rows, move, started, received, since, day>>

\* ... then those of shares nobody uses.  Without a candidate nothing is deleted.
PickInactive(r, T) ==
    /\ req[r].pc = "inactive"
    /\ Takes(Inactive, req[r].used - Cardinality(req[r].picked), T)
    /\ req' = [req EXCEPT ![r] = IF req[r].picked \cup T = {} THEN Idle
                                 ELSE [req[r] EXCEPT !.pc = "delete", !.picked = @ \cup T]]
    /\ UNCHANGED <<rows, move, started, received, since, day>>

\* One after the other by id; a row that is gone ends the work on the owner.
DeletePicked(r, f) ==
    /\ req[r].pc = "delete" /\ f \in req[r].picked
    /\ Removed(f)
    /\ req' = [req EXCEPT ![r].picked = @ \ {f}]
    /\ UNCHANGED <<parent, move, started, received, since, day>>

Remeasure(r) ==
    /\ req[r].pc = "delete" /\ req[r].picked = {}
    /\ req' = [req EXCEPT ![r] = [@ EXCEPT !.pc = "read", !.used = Used]]
    /\ UNCHANGED <<rows, move, started, received, since, day>>

-----------------------------------------------------------------------------

\* A query throws, or the transfer of a copy fails.
RequestFails(r) ==
    /\ req[r] # Idle
    /\ req' = [req EXCEPT ![r] = Idle]
    /\ UNCHANGED <<rows, move, started, received, since, day>>

Restart ==
    /\ req' = [r \in Reqs |-> Idle]
    /\ move' = [m \in Moves |-> Still]
    /\ UNCHANGED <<rows, started, received, since, day>>

NextDay ==
    /\ day < MaxDay
    /\ day' = day + 1
    /\ UNCHANGED <<rows, move, started, received, since, req>>

Request(r) ==
    \/ \E op \in {"upload", "copy", "receive"} : Start(r, op)
    \/ \E f \in Files, p \in Places : CreateFile(r, f, p)
    \/ Receive(r)
    \/ EvalRead(r)
    \/ EvalWrite(r)

Sweep(r) ==
    \/ StartSweep(r)
    \/ Measure(r)
    \/ \E T \in SUBSET Files : PickOrphans(r, T) \/ PickInactive(r, T)
    \/ \E f \in Files : DeletePicked(r, f)
    \/ Remeasure(r)

Works ==
    \/ FilesNext /\ UNCHANGED quota
    \/ \E r \in Reqs : Request(r) \/ Sweep(r)
    \/ DropReceived
    \/ NextDay

Breaks ==
    \/ \E r \in Reqs : RequestFails(r)
    \/ Restart

Next == Works \/ Breaks

Spec == Init /\ [][Next]_vars

=============================================================================
