-------------------------- MODULE EmailQueueProofs --------------------------
(***************************************************************************)
(* Proofs about EmailQueue, for any set of jobs, any number of overlapping *)
(* ticks, any batch size, retry limits and periods.                        *)
(***************************************************************************)
EXTENDS EmailHistory, TLAPS

-----------------------------------------------------------------------------
(* Type correctness.                                                       *)

\* The tick counter's residue is a number.
LEMMA WrapNat == ASSUME NEW n \in Nat, NEW N \in Nat PROVE Wrap(n, N) \in Nat
BY DEF Wrap

\* Retry limits, and the 0 of an unrendered mail, are numbers.
LEMMA LimitNat == ASSUME NEW n \in RetryLimits \cup {0} PROVE n \in Nat
BY LimitsAssumption

\* Where a tick goes after its batch and after its recovery.
LEMMA AfterBatchStep ==
    ASSUME NEW r, NEW c
    PROVE  /\ AfterBatch(r, c) \in {"recover", "cleanup", "idle"}
           /\ AfterRecover(c) \in {"cleanup", "idle"}
BY DEF AfterBatch, AfterRecover

\* A snapshot of attempts has the type of seen.
LEMMA ReadType ==
    ASSUME TypeOK, NEW S PROVE Read(S) \in [Jobs -> Nat]
BY DEF Read, TypeOK

\* Charging an attempt keeps the types of the row.
LEMMA ChargeType ==
    ASSUME TypeOK, NEW j \in Jobs, NEW n \in Nat, ChargeAttempt(j, n)
    PROVE  /\ status' \in [Jobs -> {"absent", "pending", "processing", "sent", "failed", "pruned"}]
           /\ attempts' \in [Jobs -> Nat]
           /\ maxAttempts' \in [Jobs -> RetryLimits \cup {0}]
           /\ priority' \in [Jobs -> {0, 1}]
           /\ due' \in [Jobs -> BOOLEAN]
           /\ lockStale' \in [Jobs -> BOOLEAN]
<1>1. maxAttempts[j] \in Nat
    <2>1. maxAttempts[j] \in RetryLimits \cup {0}
        BY DEF TypeOK
    <2>2. QED
        BY <2>1, LimitNat
<1>2. due' \in [Jobs -> BOOLEAN]
    BY <1>1 DEF TypeOK, ChargeAttempt, Exhausted
<1>3. QED
    BY <1>1, <1>2 DEF TypeOK, ChargeAttempt, Exhausted

\* Every step of the queue keeps every variable in its type.
LEMMA TypeStep == TypeOK /\ [Next]_vars => TypeOK'
<1> SUFFICES ASSUME TypeOK, [Next]_vars PROVE TypeOK'
    OBVIOUS
<1> USE DEF rows, process, ticks
<1>1. CASE UNCHANGED vars
    BY <1>1 DEF TypeOK, vars
<1>2. ASSUME NEW j \in Jobs, NEW urgent \in {0, 1}, NEW limit \in RetryLimits,
             Enqueue(j, urgent, limit)
      PROVE  TypeOK'
    BY <1>2 DEF TypeOK, Enqueue
<1>3. ASSUME NEW j \in Jobs, NEW urgent \in {0, 1}, EnqueueUnrendered(j, urgent)
      PROVE  TypeOK'
    BY <1>3 DEF TypeOK, EnqueueUnrendered
<1>4. ASSUME NEW j \in Jobs, BackoffElapses(j) PROVE TypeOK'
    BY <1>4 DEF TypeOK, BackoffElapses
<1>5. ASSUME NEW j \in Jobs, LockAges(j) PROVE TypeOK'
    BY <1>5 DEF TypeOK, LockAges
<1>6. ASSUME NEW t \in Ticks, Restart(t) PROVE TypeOK'
    <2>1. restarts' \in 0 .. MaxRestarts
        BY <1>6, SizesAssumption DEF TypeOK, Restart
    <2>2. pc' \in [Ticks -> Steps] /\ todo' \in [Ticks -> SUBSET Jobs]
        BY <1>6 DEF Restart, Steps
    <2>3. seen' \in [Ticks -> [Jobs -> Nat]]
        BY <1>6 DEF Restart, NoAttempts
    <2>4. QED
        BY <1>6, <2>1, <2>2, <2>3 DEF TypeOK, Restart
<1>7. ASSUME NEW t \in Ticks, Tick(t) PROVE TypeOK'
    <2>1. CASE StartTick(t)
        <3>1. recoverPhase' \in Nat /\ cleanupPhase' \in Nat
            BY <2>1, WrapNat, SizesAssumption DEF TypeOK, StartTick
        <3>2. pc' \in [Ticks -> Steps]
            BY <2>1, AfterBatchStep DEF TypeOK, StartTick, Steps
        <3>3. QED
            BY <2>1, <3>1, <3>2 DEF TypeOK, StartTick
    <2>2. CASE Fetch(t)
        BY <2>2, ReadType DEF TypeOK, Fetch, Steps, DueJobs
    <2>3. CASE FetchFails(t)
        BY <2>3 DEF TypeOK, FetchFails, Steps
    <2>4. ASSUME NEW j \in Jobs, Lock(t, j) PROVE TypeOK'
        BY <2>4 DEF TypeOK, Lock, Steps
    <2>5. ASSUME NEW j \in Jobs, SkipLock(t, j) PROVE TypeOK'
        BY <2>5 DEF TypeOK, SkipLock, NextJob, Steps
    <2>6. ASSUME NEW j \in Jobs, NEW accepted \in BOOLEAN, NEW resolved \in BOOLEAN,
                 Send(t, j, accepted, resolved)
          PROVE  TypeOK'
        <3>1. delivered' \in [Jobs -> 0 .. DeliveryCap]
            BY <2>6, SizesAssumption DEF TypeOK, Send
        <3>2. QED
            BY <2>6, <3>1 DEF TypeOK, Send, Steps
    <2>7. ASSUME NEW j \in Jobs, MarkSent(t, j) PROVE TypeOK'
        BY <2>7 DEF TypeOK, MarkSent, NextJob, Steps
    <2>8. ASSUME NEW j \in Jobs, MarkFailed(t, j) PROVE TypeOK'
        <3>1. seen[t][j] + 1 \in Nat
            BY DEF TypeOK
        <3>2. QED
            BY <2>8, <3>1, ChargeType DEF TypeOK, MarkFailed, NextJob, Steps
    <2>9. ASSUME NEW j \in Jobs, MarkLost(t, j) PROVE TypeOK'
        BY <2>9 DEF TypeOK, MarkLost, NextJob, Steps
    <2>10. CASE EndBatch(t)
        <3>1. pc' \in [Ticks -> Steps]
            BY <2>10, AfterBatchStep DEF TypeOK, EndBatch, Steps
        <3>2. seen' \in [Ticks -> [Jobs -> Nat]]
            BY <2>10 DEF TypeOK, EndBatch, NoAttempts
        <3>3. QED
            BY <2>10, <3>1, <3>2 DEF TypeOK, EndBatch
    <2>11. CASE RecoverFind(t)
        BY <2>11, ReadType DEF TypeOK, RecoverFind, Stuck, Steps
    <2>12. ASSUME NEW j \in Jobs, RecoverUpdate(t, j) PROVE TypeOK'
        <3>1. seen[t][j] + 1 \in Nat
            BY DEF TypeOK
        <3>2. QED
            BY <2>12, <3>1, ChargeType DEF TypeOK, RecoverUpdate
    <2>13. CASE RecoverDone(t) \/ RecoverFails(t)
        <3>1. RecoverEnds(t)
            BY <2>13 DEF RecoverDone, RecoverFails
        <3>2. pc' \in [Ticks -> Steps]
            BY <3>1, AfterBatchStep DEF TypeOK, RecoverEnds, Steps
        <3>3. todo' \in [Ticks -> SUBSET Jobs] /\ seen' \in [Ticks -> [Jobs -> Nat]]
            BY <3>1 DEF TypeOK, RecoverEnds, NoAttempts
        <3>4. QED
            BY <3>1, <3>2, <3>3 DEF TypeOK, RecoverEnds
    <2>14. CASE Cleanup(t)
        BY <2>14 DEF TypeOK, Cleanup, Steps
    <2>15. QED
        BY <1>7, <2>1, <2>2, <2>3, <2>4, <2>5, <2>6, <2>7, <2>8, <2>9, <2>10,
           <2>11, <2>12, <2>13, <2>14 DEF Tick
<1>8. QED
    BY <1>1, <1>2, <1>3, <1>4, <1>5, <1>6, <1>7 DEF Next

\* The queue starts well typed.
LEMMA TypeInit == Init => TypeOK
<1> SUFFICES ASSUME Init PROVE TypeOK
    OBVIOUS
<1>1. NoAttempts \in [Jobs -> Nat] /\ NoAttempts \in [Jobs -> RetryLimits \cup {0}]
    BY DEF NoAttempts
<1>2. NoAttempts \in [Jobs -> {0, 1}] /\ NoAttempts \in [Jobs -> 0 .. DeliveryCap]
    BY SizesAssumption DEF NoAttempts
<1>3. recoverPhase \in Nat /\ cleanupPhase \in Nat /\ restarts \in 0 .. MaxRestarts
    BY SizesAssumption DEF Init
<1>4. pc \in [Ticks -> Steps] /\ seen \in [Ticks -> [Jobs -> Nat]]
    BY <1>1 DEF Init, Steps
<1>5. QED
    BY <1>1, <1>2, <1>3, <1>4 DEF Init, TypeOK

\* Every variable of the queue always has its type: statuses, attempts, the
\* flag and the places where the ticks are suspended.
THEOREM TypeCorrect == Spec => []TypeOK
<1>1. Init => TypeOK
    BY TypeInit
<1>2. TypeOK /\ [Next]_vars => TypeOK'
    BY TypeStep
<1>3. QED
    BY <1>1, <1>2, PTL DEF Spec

-----------------------------------------------------------------------------
(* The safety of the queue.                                                *)

\* Two rows cannot both be the next one: Before is a strict order.
LEMMA OneNext ==
    ASSUME TypeOK, NEW t \in Ticks, NEW j \in Jobs, NEW k \in Jobs,
           IsNext(t, j), IsNext(t, k)
    PROVE  j = k
<1> SUFFICES ASSUME j # k PROVE FALSE
    OBVIOUS
<1>1. Before(j, k) /\ Before(k, j)
    BY DEF IsNext
<1>2. priority[j] \in {0, 1} /\ priority[k] \in {0, 1}
    BY DEF TypeOK
<1>3. j \in Nat /\ k \in Nat
    BY JobsAssumption
<1>4. QED
    BY <1>1, <1>2, <1>3 DEF Before

\* Snapshots stay affordable while ticks only drop rows from theirs.
LEMMA ReadsKept ==
    ASSUME QueueInv,
           \A t \in Ticks : \A j \in todo'[t] : j \in todo[t] /\ seen'[t][j] = seen[t][j],
           \A j \in Jobs : status[j] # "absent" =>
                status'[j] # "absent" /\ maxAttempts'[j] = maxAttempts[j]
    PROVE  ReadsLeaveAnAttempt'
<1> SUFFICES ASSUME NEW t \in Ticks, NEW j \in todo'[t]
             PROVE  status'[j] # "absent" /\ seen'[t][j] < Budget(j)'
    BY DEF ReadsLeaveAnAttempt
<1>1. j \in todo[t] /\ j \in Jobs /\ seen'[t][j] = seen[t][j]
    BY DEF QueueInv, TypeOK
<1>2. status[j] # "absent" /\ seen[t][j] < Budget(j)
    BY <1>1 DEF QueueInv, ReadsLeaveAnAttempt
<1>3. Budget(j)' = Budget(j)
    BY <1>1, <1>2 DEF Budget
<1>4. QED
    BY <1>1, <1>2, <1>3

\* A tick keeps the row it is about to mark while no step moves its loop.
LEMMA MarksKept ==
    ASSUME QueueInv,
           \A t \in Ticks : pc'[t] = "markSent" => pc[t] = "markSent" /\ todo'[t] = todo[t],
           \A j \in Jobs : delivered[j] > 0 => delivered'[j] > 0,
           \A j \in Jobs : status[j] # "absent" => priority'[j] = priority[j]
    PROVE  MarksWhatItDelivered'
<1> SUFFICES ASSUME NEW t \in Ticks, NEW j \in Jobs, pc'[t] = "markSent", IsNext(t, j)'
             PROVE  delivered'[j] > 0
    BY DEF MarksWhatItDelivered
<1>1. pc[t] = "markSent" /\ todo'[t] = todo[t]
    OBVIOUS
<1>2. \A k \in todo[t] : k \in Jobs /\ priority'[k] = priority[k]
    BY DEF QueueInv, ReadsLeaveAnAttempt, TypeOK
<1>3. IsNext(t, j)
    BY <1>1, <1>2 DEF IsNext, Before
<1>4. delivered[j] > 0
    BY <1>1, <1>3 DEF QueueInv, MarksWhatItDelivered
<1>5. QED
    BY <1>4

\* One more charged attempt, counted from a snapshot, keeps the rows sound.
LEMMA ChargeKept ==
    ASSUME QueueInv, NEW t \in Ticks, NEW j \in todo[t], Exists(j),
           ChargeAttempt(j, seen[t][j] + 1), UNCHANGED delivered
    PROVE  /\ UnusedRowsAreBlank' /\ AttemptsWithinBudget'
           /\ FailedOnlyWhenExhausted' /\ SentWasDelivered'
           /\ \A k \in Jobs : status[k] # "absent" => status'[k] # "absent"
<1> DEFINE n == seen[t][j] + 1
<1>1. j \in Jobs /\ seen[t][j] \in Nat /\ seen[t][j] < Budget(j)
    BY DEF QueueInv, TypeOK, ReadsLeaveAnAttempt
<1>2. maxAttempts[j] \in Nat
    <2>1. maxAttempts[j] \in RetryLimits \cup {0}
        BY <1>1 DEF QueueInv, TypeOK
    <2>2. QED
        BY <2>1, LimitNat
<1>3. /\ attempts'[j] = n
      /\ status'[j] = IF n >= maxAttempts[j] THEN "failed" ELSE "pending"
      /\ Budget(j)' = Budget(j)
    BY <1>1 DEF QueueInv, TypeOK, ChargeAttempt, Exhausted, Budget
<1>4. \A k \in Jobs \ {j} : /\ attempts'[k] = attempts[k] /\ status'[k] = status[k]
                            /\ Budget(k)' = Budget(k) /\ delivered'[k] = delivered[k]
    BY <1>1 DEF QueueInv, TypeOK, ChargeAttempt, Exhausted, Budget
<1>5. n <= Budget(j) /\ (n < maxAttempts[j] => n < Budget(j))
    BY <1>1, <1>2 DEF Budget
<1>6. AttemptsWithinBudget'
    BY <1>1, <1>2, <1>3, <1>4, <1>5 DEF QueueInv, AttemptsWithinBudget
<1>7. FailedOnlyWhenExhausted' /\ SentWasDelivered' /\ UnusedRowsAreBlank'
    BY <1>1, <1>2, <1>3, <1>4
    DEF QueueInv, FailedOnlyWhenExhausted, SentWasDelivered, UnusedRowsAreBlank, ChargeAttempt, Exhausted
<1>8. QED
    BY <1>3, <1>4, <1>6, <1>7

\* One tick keeps the invariant: one case for each of its actions.
LEMMA TickKeeps ==
    ASSUME QueueInv, TypeOK', NEW t \in Ticks, Tick(t) PROVE QueueInv'
<1> USE DEF rows, process, ticks
<1> DEFINE RowsSound == /\ UnusedRowsAreBlank /\ AttemptsWithinBudget
                        /\ FailedOnlyWhenExhausted /\ SentWasDelivered
           FlagSound == FlagCoversBatch /\ OneBatchAtATime
<1>1. TypeOK /\ RowsSound /\ FlagSound
    BY DEF QueueInv
<1>2. ASSUME RowsSound', FlagSound', ReadsLeaveAnAttempt', MarksWhatItDelivered'
      PROVE  QueueInv'
    BY <1>2 DEF QueueInv
<1>3. ASSUME UNCHANGED <<rows, delivered>> PROVE RowsSound'
    BY <1>1, <1>3 DEF UnusedRowsAreBlank, AttemptsWithinBudget, FailedOnlyWhenExhausted,
                      SentWasDelivered, Budget
<1>4. ASSUME UNCHANGED isProcessing, \A u \in Ticks : InBatch(u)' => InBatch(u)
      PROVE  FlagSound'
    BY <1>1, <1>4 DEF FlagCoversBatch, OneBatchAtATime
<1>5. CASE StartTick(t)
    <2>1. RowsSound'
        BY <1>3, <1>5 DEF StartTick
    <2>2. FlagSound'
        <3>1. \A u \in Ticks \ {t} : InBatch(u)' = InBatch(u)
            BY <1>1, <1>5 DEF StartTick, TypeOK, InBatch
        <3>2. isProcessing => ~InBatch(t)'
            BY <1>1, <1>5, AfterBatchStep DEF StartTick, TypeOK, InBatch
        <3>3. isProcessing'
            BY <1>5 DEF StartTick
        <3>4. QED
            BY <1>1, <3>1, <3>2, <3>3 DEF FlagCoversBatch, OneBatchAtATime
    <2>3. ReadsLeaveAnAttempt'
        BY <1>5, ReadsKept DEF StartTick
    <2>4. \A u \in Ticks : pc'[u] = "markSent" => pc[u] = "markSent"
        BY <1>1, <1>5, AfterBatchStep DEF StartTick, TypeOK
    <2>5. MarksWhatItDelivered'
        BY <1>5, <2>4, MarksKept DEF StartTick
    <2>6. QED
        BY <1>2, <2>1, <2>2, <2>3, <2>5
<1>6. CASE Fetch(t)
    <2>1. PICK B \in SUBSET DueJobs : /\ todo' = [todo EXCEPT ![t] = B]
                                     /\ seen' = [seen EXCEPT ![t] = Read(B)]
        BY <1>6 DEF Fetch
    <2>2. RowsSound'
        BY <1>3, <1>6 DEF Fetch
    <2>3. FlagSound'
        BY <1>1, <1>4, <1>6 DEF Fetch, TypeOK, InBatch
    <2>4. ReadsLeaveAnAttempt'
        <3> SUFFICES ASSUME NEW u \in Ticks, NEW j \in todo'[u]
                     PROVE  status'[j] # "absent" /\ seen'[u][j] < Budget(j)'
            BY DEF ReadsLeaveAnAttempt
        <3>1. status' = status /\ maxAttempts' = maxAttempts
            BY <1>6 DEF Fetch
        <3>2. CASE u = t
            <4>1. j \in B /\ j \in Jobs /\ status[j] = "pending"
                BY <1>1, <2>1, <3>2 DEF TypeOK, DueJobs
            <4>2. seen'[u][j] = attempts[j]
                BY <1>1, <2>1, <3>2, <4>1 DEF TypeOK, Read
            <4>3. attempts[j] < Budget(j)
                BY <1>1, <4>1 DEF AttemptsWithinBudget
            <4>4. QED
                BY <3>1, <4>1, <4>2, <4>3 DEF Budget
        <3>3. CASE u # t
            BY <1>1, <2>1, <3>1, <3>3 DEF TypeOK, QueueInv, ReadsLeaveAnAttempt, Budget
        <3>4. QED
            BY <3>2, <3>3
    <2>5. \A u \in Ticks : pc'[u] = "markSent" => pc[u] = "markSent" /\ todo'[u] = todo[u]
        BY <1>1, <1>6 DEF Fetch, TypeOK
    <2>6. MarksWhatItDelivered'
        BY <1>6, <2>5, MarksKept DEF Fetch
    <2>7. QED
        BY <1>2, <2>2, <2>3, <2>4, <2>6
<1>7. CASE FetchFails(t)
    <2>1. RowsSound' /\ ReadsLeaveAnAttempt'
        BY <1>3, <1>7, ReadsKept DEF FetchFails
    <2>2. FlagSound'
        BY <1>1, <1>4, <1>7 DEF FetchFails, TypeOK, InBatch
    <2>3. \A u \in Ticks : pc'[u] = "markSent" => pc[u] = "markSent"
        BY <1>1, <1>7 DEF FetchFails, TypeOK
    <2>4. MarksWhatItDelivered'
        BY <1>7, <2>3, MarksKept DEF FetchFails
    <2>5. QED
        BY <1>2, <2>1, <2>2, <2>4
<1>8. ASSUME NEW j \in Jobs, NextJob(t, j), pc[t] \in {"lock", "markSent", "markFailed"}
      PROVE  /\ FlagSound' /\ UNCHANGED <<delivered, seen>>
             /\ \A u \in Ticks : todo'[u] \subseteq todo[u]
             /\ \A u \in Ticks : pc'[u] = "markSent" =>
                    pc[u] = "markSent" /\ todo'[u] = todo[u]
    <2>1. FlagSound'
        BY <1>1, <1>4, <1>8 DEF NextJob, TypeOK, InBatch
    <2>2. QED
        BY <1>1, <1>8, <2>1 DEF NextJob, TypeOK
<1>9. ASSUME NEW j \in Jobs, NextJob(t, j), pc[t] \in {"lock", "markSent", "markFailed"},
             UNCHANGED rows
      PROVE  QueueInv'
    <2>1. RowsSound'
        BY <1>3, <1>8, <1>9
    <2>2. ReadsLeaveAnAttempt'
        BY <1>8, <1>9, ReadsKept
    <2>3. MarksWhatItDelivered'
        BY <1>8, <1>9, MarksKept
    <2>4. QED
        BY <1>2, <1>8, <1>9, <2>1, <2>2, <2>3
<1>10. ASSUME NEW j \in Jobs, Lock(t, j) PROVE QueueInv'
    <2>1. RowsSound'
        BY <1>1, <1>10 DEF Lock, TypeOK, UnusedRowsAreBlank, AttemptsWithinBudget,
                           FailedOnlyWhenExhausted, SentWasDelivered, Budget
    <2>2. FlagSound'
        BY <1>1, <1>4, <1>10 DEF Lock, TypeOK, InBatch
    <2>3. \A k \in Jobs : status[k] # "absent" => status'[k] # "absent"
        BY <1>1, <1>10 DEF Lock, TypeOK
    <2>4. ReadsLeaveAnAttempt'
        BY <1>10, <2>3, ReadsKept DEF Lock
    <2>5. \A u \in Ticks : pc'[u] = "markSent" => pc[u] = "markSent"
        BY <1>1, <1>10 DEF Lock, TypeOK
    <2>6. MarksWhatItDelivered'
        BY <1>10, <2>5, MarksKept DEF Lock
    <2>7. QED
        BY <1>2, <2>1, <2>2, <2>4, <2>6
<1>11. ASSUME NEW j \in Jobs, SkipLock(t, j) PROVE QueueInv'
    BY <1>9, <1>11 DEF SkipLock
<1>12. ASSUME NEW j \in Jobs, NEW accepted \in BOOLEAN, NEW resolved \in BOOLEAN,
              Send(t, j, accepted, resolved)
       PROVE  QueueInv'
    <2>1. \A k \in Jobs : delivered[k] > 0 => delivered'[k] > 0
        BY <1>1, <1>12, SizesAssumption DEF Send, TypeOK
    <2>2. RowsSound'
        BY <1>1, <1>12, <2>1 DEF Send, UnusedRowsAreBlank, AttemptsWithinBudget,
                                 FailedOnlyWhenExhausted, SentWasDelivered, Budget
    <2>3. FlagSound'
        BY <1>1, <1>4, <1>12 DEF Send, TypeOK, InBatch
    <2>4. ReadsLeaveAnAttempt'
        BY <1>12, ReadsKept DEF Send
    <2>5. MarksWhatItDelivered'
        <3> SUFFICES ASSUME NEW u \in Ticks, NEW k \in Jobs, pc'[u] = "markSent", IsNext(u, k)'
                     PROVE  delivered'[k] > 0
            BY DEF MarksWhatItDelivered
        <3>1. IsNext(u, k)
            BY <1>12 DEF Send, IsNext, Before
        <3>2. CASE u # t
            <4>1. pc[u] = "markSent"
                BY <1>1, <1>12, <3>2 DEF Send, TypeOK
            <4>2. QED
                BY <2>1, <3>1, <4>1 DEF QueueInv, MarksWhatItDelivered
        <3>3. CASE u = t
            <4>1. k = j
                BY <1>1, <1>12, <3>1, <3>3, OneNext DEF Send
            <4>2. resolved
                BY <1>1, <1>12, <3>3 DEF Send, TypeOK
            <4>3. delivered[j] \in Nat
                BY <1>1, SizesAssumption DEF TypeOK
            <4>4. QED
                BY <1>1, <1>12, <4>1, <4>2, <4>3, SizesAssumption DEF Send, TypeOK
        <3>4. QED
            BY <3>2, <3>3
    <2>6. QED
        BY <1>2, <2>2, <2>3, <2>4, <2>5
<1>13. ASSUME NEW j \in Jobs, MarkSent(t, j) PROVE QueueInv'
    <2>1. delivered[j] > 0
        BY <1>13 DEF MarkSent, QueueInv, MarksWhatItDelivered
    <2>2. NextJob(t, j) /\ pc[t] \in {"lock", "markSent", "markFailed"}
        BY <1>13 DEF MarkSent
    <2>3. RowsSound'
        BY <1>1, <1>8, <1>13, <2>1, <2>2
        DEF MarkSent, TypeOK, Exists, UnusedRowsAreBlank, AttemptsWithinBudget,
            FailedOnlyWhenExhausted, SentWasDelivered, Budget
    <2>4. \A k \in Jobs : status[k] # "absent" => status'[k] # "absent"
        BY <1>1, <1>13 DEF MarkSent, TypeOK
    <2>5. ReadsLeaveAnAttempt'
        BY <1>8, <1>13, <2>2, <2>4, ReadsKept DEF MarkSent
    <2>6. MarksWhatItDelivered'
        BY <1>8, <1>13, <2>2, MarksKept DEF MarkSent
    <2>7. QED
        BY <1>2, <1>8, <2>2, <2>3, <2>5, <2>6
<1>14. ASSUME NEW j \in Jobs, MarkFailed(t, j) PROVE QueueInv'
    <2>1. NextJob(t, j) /\ pc[t] \in {"lock", "markSent", "markFailed"}
        BY <1>14 DEF MarkFailed
    <2>2. j \in todo[t] /\ Exists(j) /\ ChargeAttempt(j, seen[t][j] + 1) /\ UNCHANGED delivered
        BY <1>8, <1>14, <2>1 DEF MarkFailed, IsNext
    <2>3. RowsSound' /\ \A k \in Jobs : status[k] # "absent" => status'[k] # "absent"
        BY <2>2, ChargeKept
    <2>4. UNCHANGED <<maxAttempts, priority>>
        BY <2>2 DEF ChargeAttempt, Exhausted
    <2>5. ReadsLeaveAnAttempt'
        BY <1>8, <2>1, <2>3, <2>4, ReadsKept
    <2>6. MarksWhatItDelivered'
        BY <1>8, <2>1, <2>4, MarksKept
    <2>7. QED
        BY <1>2, <1>8, <2>1, <2>3, <2>5, <2>6
<1>15. ASSUME NEW j \in Jobs, MarkLost(t, j) PROVE QueueInv'
    BY <1>9, <1>15 DEF MarkLost
<1>16. CASE EndBatch(t)
    <2>1. RowsSound'
        BY <1>3, <1>16 DEF EndBatch
    <2>2. FlagSound'
        <3>1. \A u \in Ticks : ~InBatch(u)'
            BY <1>1, <1>16, AfterBatchStep
            DEF EndBatch, TypeOK, InBatch, OneBatchAtATime
        <3>2. QED
            BY <3>1 DEF FlagCoversBatch, OneBatchAtATime
    <2>3. \A u \in Ticks : \A j \in todo'[u] : j \in todo[u] /\ seen'[u][j] = seen[u][j]
        BY <1>1, <1>16 DEF EndBatch, TypeOK
    <2>4. ReadsLeaveAnAttempt'
        BY <1>16, <2>3, ReadsKept DEF EndBatch
    <2>5. \A u \in Ticks : pc'[u] = "markSent" => pc[u] = "markSent"
        BY <1>1, <1>16, AfterBatchStep DEF EndBatch, TypeOK
    <2>6. MarksWhatItDelivered'
        BY <1>16, <2>5, MarksKept DEF EndBatch
    <2>7. QED
        BY <1>2, <2>1, <2>2, <2>4, <2>6
<1>17. CASE RecoverFind(t)
    <2> DEFINE stuck == {j \in Jobs : status[j] = "processing" /\ lockStale[j]}
    <2>1. RowsSound'
        BY <1>3, <1>17 DEF RecoverFind, Stuck
    <2>2. FlagSound'
        BY <1>1, <1>4, <1>17 DEF RecoverFind, Stuck, TypeOK, InBatch
    <2>3. ReadsLeaveAnAttempt'
        <3> SUFFICES ASSUME NEW u \in Ticks, NEW j \in todo'[u]
                     PROVE  status'[j] # "absent" /\ seen'[u][j] < Budget(j)'
            BY DEF ReadsLeaveAnAttempt
        <3>1. status' = status /\ maxAttempts' = maxAttempts
            BY <1>17 DEF RecoverFind, Stuck
        <3>2. CASE u = t
            <4>1. j \in stuck
                BY <1>1, <1>17, <3>2 DEF RecoverFind, Stuck, TypeOK
            <4>2. seen'[u][j] = attempts[j]
                BY <1>1, <1>17, <3>2, <4>1 DEF RecoverFind, Stuck, TypeOK, Read
            <4>3. attempts[j] < Budget(j)
                BY <1>1, <4>1 DEF AttemptsWithinBudget
            <4>4. QED
                BY <3>1, <4>1, <4>2, <4>3 DEF Budget
        <3>3. CASE u # t
            BY <1>1, <1>17, <3>1, <3>3
            DEF RecoverFind, Stuck, TypeOK, QueueInv, ReadsLeaveAnAttempt, Budget
        <3>4. QED
            BY <3>2, <3>3
    <2>4. \A u \in Ticks : pc'[u] = "markSent" => pc[u] = "markSent" /\ todo'[u] = todo[u]
        BY <1>1, <1>17 DEF RecoverFind, Stuck, TypeOK
    <2>5. MarksWhatItDelivered'
        BY <1>17, <2>4, MarksKept DEF RecoverFind, Stuck
    <2>6. QED
        BY <1>2, <2>1, <2>2, <2>3, <2>5
<1>18. ASSUME NEW j \in Jobs, RecoverUpdate(t, j) PROVE QueueInv'
    <2>1. RowsSound' /\ \A k \in Jobs : status[k] # "absent" => status'[k] # "absent"
        BY <1>18, ChargeKept DEF RecoverUpdate
    <2>2. UNCHANGED <<maxAttempts, priority>>
        BY <1>18 DEF RecoverUpdate, ChargeAttempt, Exhausted
    <2>3. \A u \in Ticks : todo'[u] \subseteq todo[u]
        BY <1>1, <1>18 DEF RecoverUpdate, TypeOK
    <2>4. ReadsLeaveAnAttempt'
        BY <1>18, <2>1, <2>2, <2>3, ReadsKept DEF RecoverUpdate
    <2>5. \A u \in Ticks : pc'[u] = "markSent" => pc[u] = "markSent" /\ todo'[u] = todo[u]
        BY <1>1, <1>18 DEF RecoverUpdate, TypeOK
    <2>6. MarksWhatItDelivered'
        BY <1>18, <2>2, <2>5, MarksKept DEF RecoverUpdate
    <2>7. FlagSound'
        BY <1>4, <1>18 DEF RecoverUpdate, InBatch
    <2>8. QED
        BY <1>2, <2>1, <2>4, <2>6, <2>7
<1>19. CASE RecoverDone(t) \/ RecoverFails(t)
    <2>1. RecoverEnds(t) /\ pc[t] \in {"recover", "recovering"}
        BY <1>19 DEF RecoverDone, RecoverFails
    <2>2. RowsSound'
        BY <1>3, <2>1 DEF RecoverEnds
    <2>3. FlagSound'
        BY <1>1, <1>4, <2>1, AfterBatchStep DEF RecoverEnds, TypeOK, InBatch
    <2>4. \A u \in Ticks : \A j \in todo'[u] : j \in todo[u] /\ seen'[u][j] = seen[u][j]
        BY <1>1, <2>1 DEF RecoverEnds, TypeOK
    <2>5. ReadsLeaveAnAttempt'
        BY <2>1, <2>4, ReadsKept DEF RecoverEnds
    <2>6. \A u \in Ticks : pc'[u] = "markSent" => pc[u] = "markSent" /\ todo'[u] = todo[u]
        BY <1>1, <2>1, AfterBatchStep DEF RecoverEnds, TypeOK
    <2>7. MarksWhatItDelivered'
        BY <2>1, <2>6, MarksKept DEF RecoverEnds
    <2>8. QED
        BY <1>2, <2>2, <2>3, <2>5, <2>7
<1>20. CASE Cleanup(t)
    <2>1. \A j \in Jobs : status'[j] = status[j] \/ (status[j] \in {"sent", "failed"} /\ status'[j] = "pruned")
        BY <1>20 DEF Cleanup
    <2>2. RowsSound'
        BY <1>1, <1>20, <2>1
        DEF Cleanup, UnusedRowsAreBlank, AttemptsWithinBudget, FailedOnlyWhenExhausted,
            SentWasDelivered, Budget
    <2>3. FlagSound'
        BY <1>1, <1>4, <1>20 DEF Cleanup, TypeOK, InBatch
    <2>4. ReadsLeaveAnAttempt'
        BY <1>20, <2>1, ReadsKept DEF Cleanup
    <2>5. \A u \in Ticks : pc'[u] = "markSent" => pc[u] = "markSent"
        BY <1>1, <1>20 DEF Cleanup, TypeOK
    <2>6. MarksWhatItDelivered'
        BY <1>20, <2>5, MarksKept DEF Cleanup
    <2>7. QED
        BY <1>2, <2>2, <2>3, <2>4, <2>6
<1>21. QED
    BY <1>5, <1>6, <1>7, <1>10, <1>11, <1>12, <1>13, <1>14, <1>15, <1>16, <1>17,
       <1>18, <1>19, <1>20 DEF Tick

\* Every step of the queue keeps the invariant.
LEMMA QueueInvStep == QueueInv /\ [Next]_vars => QueueInv'
<1> SUFFICES ASSUME QueueInv, [Next]_vars PROVE QueueInv'
    OBVIOUS
<1> USE DEF rows, process, ticks
<1>1. TypeOK /\ TypeOK'
    BY TypeStep DEF QueueInv
<1>2. CASE UNCHANGED vars
    BY <1>2 DEF vars, QueueInv, TypeOK, FlagCoversBatch, OneBatchAtATime, InBatch,
        UnusedRowsAreBlank, ReadsLeaveAnAttempt, AttemptsWithinBudget, Budget,
        FailedOnlyWhenExhausted, MarksWhatItDelivered, IsNext, Before, SentWasDelivered
<1>3. ASSUME UNCHANGED <<pc, todo, seen, delivered, isProcessing>>,
             \A k \in Jobs : status[k] # "absent" =>
                /\ status'[k] = status[k] /\ attempts'[k] = attempts[k]
                /\ maxAttempts'[k] = maxAttempts[k] /\ priority'[k] = priority[k],
             UnusedRowsAreBlank', AttemptsWithinBudget', FailedOnlyWhenExhausted', SentWasDelivered'
      PROVE  QueueInv'
    <2>1. FlagCoversBatch' /\ OneBatchAtATime'
        BY <1>3 DEF QueueInv, FlagCoversBatch, OneBatchAtATime, InBatch
    <2>2. ReadsLeaveAnAttempt'
        BY <1>3, ReadsKept
    <2>3. MarksWhatItDelivered'
        BY <1>3, MarksKept
    <2>4. QED
        BY <1>1, <1>3, <2>1, <2>2, <2>3 DEF QueueInv
<1>4. ASSUME NEW j \in Jobs, NEW urgent \in {0, 1}, NEW limit \in RetryLimits,
             Enqueue(j, urgent, limit)
      PROVE  QueueInv'
    <2>1. limit \in Nat /\ attempts[j] = 0 /\ maxAttempts'[j] = limit /\ status'[j] = "pending"
        BY <1>1, <1>4, LimitNat DEF Enqueue, TypeOK, QueueInv, UnusedRowsAreBlank
    <2>2. \A k \in Jobs \ {j} : /\ status'[k] = status[k] /\ attempts'[k] = attempts[k]
                                /\ maxAttempts'[k] = maxAttempts[k] /\ priority'[k] = priority[k]
        BY <1>1, <1>4 DEF Enqueue, TypeOK
    <2>3. UnusedRowsAreBlank' /\ FailedOnlyWhenExhausted' /\ SentWasDelivered'
        BY <1>1, <1>4, <2>1, <2>2
        DEF Enqueue, QueueInv, UnusedRowsAreBlank, FailedOnlyWhenExhausted, SentWasDelivered
    <2>4. AttemptsWithinBudget'
        BY <1>1, <1>4, <2>1, <2>2 DEF Enqueue, QueueInv, AttemptsWithinBudget, Budget
    <2>5. QED
        BY <1>3, <1>4, <2>2, <2>3, <2>4 DEF Enqueue
<1>5. ASSUME NEW j \in Jobs, NEW urgent \in {0, 1}, EnqueueUnrendered(j, urgent)
      PROVE  QueueInv'
    <2>1. \A k \in Jobs \ {j} : status'[k] = status[k] /\ priority'[k] = priority[k]
        BY <1>1, <1>5 DEF EnqueueUnrendered, TypeOK
    <2>2. status'[j] = "failed" /\ attempts[j] = 0 /\ maxAttempts[j] = 0
        BY <1>1, <1>5 DEF EnqueueUnrendered, TypeOK, QueueInv, UnusedRowsAreBlank
    <2>3. /\ UnusedRowsAreBlank' /\ AttemptsWithinBudget'
          /\ FailedOnlyWhenExhausted' /\ SentWasDelivered'
        BY <1>1, <1>5, <2>1, <2>2
        DEF EnqueueUnrendered, QueueInv, UnusedRowsAreBlank, AttemptsWithinBudget,
            FailedOnlyWhenExhausted, SentWasDelivered, Budget
    <2>4. QED
        BY <1>3, <1>5, <2>1, <2>3 DEF EnqueueUnrendered
<1>6. ASSUME NEW j \in Jobs, BackoffElapses(j) \/ LockAges(j) PROVE QueueInv'
    <2>1. UNCHANGED <<status, attempts, maxAttempts, priority, delivered>>
        BY <1>6 DEF BackoffElapses, LockAges
    <2>2. /\ UnusedRowsAreBlank' /\ AttemptsWithinBudget'
          /\ FailedOnlyWhenExhausted' /\ SentWasDelivered'
        BY <2>1 DEF QueueInv, UnusedRowsAreBlank, AttemptsWithinBudget, Budget,
                    FailedOnlyWhenExhausted, SentWasDelivered
    <2>3. QED
        BY <1>3, <1>6, <2>1, <2>2 DEF BackoffElapses, LockAges
<1>7. ASSUME NEW t \in Ticks, Restart(t) PROVE QueueInv'
    <2>1. /\ UnusedRowsAreBlank' /\ AttemptsWithinBudget'
          /\ FailedOnlyWhenExhausted' /\ SentWasDelivered'
        BY <1>7 DEF Restart, QueueInv, UnusedRowsAreBlank, AttemptsWithinBudget, Budget,
                    FailedOnlyWhenExhausted, SentWasDelivered
    <2>2. \A u \in Ticks : pc'[u] \in {"recover", "idle"} /\ todo'[u] = {}
        BY <1>7 DEF Restart
    <2>3. QED
        BY <1>1, <2>1, <2>2 DEF QueueInv, FlagCoversBatch, OneBatchAtATime, InBatch,
                               ReadsLeaveAnAttempt, MarksWhatItDelivered
<1>8. QED
    BY <1>1, <1>2, <1>4, <1>5, <1>6, <1>7, TickKeeps DEF Next

\* The inductive invariant of the queue holds in every reachable state.
THEOREM QueueInvariant == Spec => []QueueInv
<1>1. Init => QueueInv
    BY TypeInit DEF Init, QueueInv, FlagCoversBatch, OneBatchAtATime, InBatch, UnusedRowsAreBlank,
        NoAttempts, ReadsLeaveAnAttempt, AttemptsWithinBudget, Budget,
        FailedOnlyWhenExhausted, MarksWhatItDelivered, SentWasDelivered
<1>2. QED
    BY <1>1, QueueInvStep, PTL DEF Spec

\* Whatever crashes, lost updates and overlapping ticks do, no job uses more
\* attempts than its budget, and a job still in the queue has one left.
THEOREM BudgetIsKept == Spec => []AttemptsWithinBudget
<1>1. QueueInv => AttemptsWithinBudget
    BY DEF QueueInv
<1>2. QED
    BY <1>1, QueueInvariant, PTL

\* Neither the batch nor the recovery gives a job up before its attempts
\* are used.
THEOREM NoJobIsGivenUpEarly == Spec => []FailedOnlyWhenExhausted
<1>1. QueueInv => FailedOnlyWhenExhausted
    BY DEF QueueInv
<1>2. QED
    BY <1>1, QueueInvariant, PTL

\* isProcessing excludes: at most one tick is between its findMany and its
\* finally block, however many ticks overlap.
THEOREM BatchesExcludeEachOther == Spec => []OneBatchAtATime
<1>1. QueueInv => OneBatchAtATime
    BY DEF QueueInv
<1>2. QED
    BY <1>1, QueueInvariant, PTL

\* A row marked sent is one the relay accepted a message for.
THEOREM SentIsTrue == Spec => []SentWasDelivered
<1>1. QueueInv => SentWasDelivered
    BY DEF QueueInv
<1>2. QED
    BY <1>1, QueueInvariant, PTL

-----------------------------------------------------------------------------
(* EmailQueue implements Mailbox, for any set of jobs and of overlapping   *)
(* ticks, any batch size, retry limits, periods, failures and crashes.  As *)
(* long as a row is not contested, what a tick has read of it stays true,  *)
(* so the row and the relay agree on how often a mail was handed over.     *)

HistoryStep == [Next /\ Record]_<<vars, contested>>

\* The limit of a row is a number and its budget is positive.
LEMMA BudgetNat ==
    ASSUME TypeOK, NEW j \in Jobs
    PROVE  /\ maxAttempts[j] \in Nat /\ Budget(j) \in Nat /\ Budget(j) > 0
           /\ attempts[j] \in Nat /\ delivered[j] \in Nat
<1>1. maxAttempts[j] \in RetryLimits \cup {0}
  BY DEF TypeOK
<1>2. delivered[j] \in 0 .. DeliveryCap /\ DeliveryCap \in Nat
  BY SizesAssumption DEF TypeOK
<1> QED
  BY <1>1, <1>2, LimitNat DEF TypeOK, Budget

\* A row that was contested remains so.
LEMMA ContestedStep ==
    ASSUME contested \subseteq Jobs, HistoryStep
    PROVE  contested' \subseteq Jobs /\ contested \subseteq contested'
BY DEF HistoryStep, Record

-----------------------------------------------------------------------------
(* The rows and the relay.                                                 *)

\* Steps that do not touch the rows or the relay.
LEMMA RelaySame ==
    ASSUME RelayInv, contested \subseteq contested',
           UNCHANGED <<status, attempts, maxAttempts, delivered>>
    PROVE  RelayInv'
BY DEF RelayInv, Bound, Budget

\* A step that writes one row.
LEMMA RelayOne ==
    ASSUME RelayInv, contested \subseteq contested', NEW j \in Jobs,
           \A k \in Jobs \ {j} : /\ status'[k] = status[k] /\ attempts'[k] = attempts[k]
                                 /\ maxAttempts'[k] = maxAttempts[k]
                                 /\ delivered'[k] = delivered[k],
           j \notin contested' => delivered'[j] <= Bound(j)'
    PROVE  RelayInv'
<1> SUFFICES ASSUME NEW k \in Jobs \ contested' PROVE delivered'[k] <= Bound(k)'
  BY DEF RelayInv
<1>1. CASE k = j
  BY <1>1
<1>2. CASE k # j
  <2>1. Bound(k)' = Bound(k)
    BY <1>2 DEF Bound, Budget
  <2> QED
    BY <1>2, <2>1 DEF RelayInv
<1> QED
  BY <1>1, <1>2

\* An uncontested row in the hands of a tick is being processed, as it was read.
LEMMA AtRow ==
    ASSUME TypeOK, HandsInv, NEW t \in Ticks, NEW j \in todo[t] \ contested, At(t, j)
    PROVE  /\ j \in Jobs /\ status[j] = "processing" /\ seen[t][j] = attempts[j]
           /\ pc[t] = "send" => delivered[j] <= attempts[j]
BY DEF TypeOK, HandsInv, Fresh

\* Charging a try to an uncontested row in hand.
LEMMA ChargeFresh ==
    ASSUME QueueInv, RelayInv, HandsInv, NEW t \in Ticks, NEW j \in todo[t] \ contested,
           At(t, j), ChargeAttempt(j, seen[t][j] + 1), UNCHANGED delivered
    PROVE  /\ attempts'[j] = attempts[j] + 1
           /\ status'[j] = IF attempts[j] + 1 >= maxAttempts[j] THEN "failed" ELSE "pending"
           /\ maxAttempts' = maxAttempts
           /\ delivered'[j] <= Bound(j)'
<1>1. TypeOK /\ AttemptsWithinBudget
  BY DEF QueueInv
<1>2. j \in Jobs /\ status[j] = "processing" /\ seen[t][j] = attempts[j]
  BY <1>1, AtRow
<1>3. /\ attempts'[j] = attempts[j] + 1
      /\ status'[j] = IF attempts[j] + 1 >= maxAttempts[j] THEN "failed" ELSE "pending"
      /\ maxAttempts' = maxAttempts
  BY <1>1, <1>2 DEF ChargeAttempt, Exhausted, TypeOK
<1>4. /\ maxAttempts[j] \in Nat /\ Budget(j) \in Nat /\ attempts[j] \in Nat
      /\ delivered[j] \in Nat /\ delivered[j] <= attempts[j] + 1 /\ attempts[j] < Budget(j)
  BY <1>1, <1>2, BudgetNat DEF RelayInv, Bound, AttemptsWithinBudget
<1>5. Budget(j)' = Budget(j)
  BY <1>3 DEF Budget
<1>6. delivered'[j] <= Bound(j)'
  BY <1>3, <1>4, <1>5 DEF Bound
<1> QED
  BY <1>3, <1>6

\* A charge writes one row.
LEMMA ChargeOne ==
    ASSUME TypeOK, NEW j \in Jobs, NEW n \in Nat, ChargeAttempt(j, n)
    PROVE  /\ maxAttempts' = maxAttempts /\ priority' = priority
           /\ \A k \in Jobs \ {j} : status'[k] = status[k] /\ attempts'[k] = attempts[k]
BY DEF ChargeAttempt, TypeOK

-----------------------------------------------------------------------------
(* What a tick has read.                                                   *)

\* A step of one tick changes nothing that another one has read of an uncontested
\* row: it writes its own rows, or rows that are settled.
LEMMA OthersKept ==
    ASSUME TypeOK, HandsInv, contested \subseteq contested', NEW t \in Ticks, NEW u \in Ticks \ {t},
           pc'[u] = pc[u], todo'[u] = todo[u], seen'[u] = seen[u], priority' = priority,
           \A k \in Jobs \ todo[t] :
               status[k] \in {"pending", "processing"} =>
                   /\ status'[k] = status[k] /\ attempts'[k] = attempts[k]
                   /\ delivered'[k] = delivered[k]
    PROVE  \A j \in todo'[u] \ contested' : Fresh(u, j)'
<1> SUFFICES ASSUME NEW j \in todo[u] \ contested' PROVE Fresh(u, j)'
  OBVIOUS
<1>1. Fresh(u, j) /\ j \notin todo[t] /\ j \in Jobs
  BY DEF HandsInv, TypeOK
<1>2. status[j] \in {"pending", "processing"}
  BY <1>1 DEF Fresh
<1>3. status'[j] = status[j] /\ attempts'[j] = attempts[j] /\ delivered'[j] = delivered[j]
  BY <1>1, <1>2
<1>4. At(u, j)' = At(u, j)
  BY DEF At, IsNext, Before
<1> QED
  BY <1>1, <1>3, <1>4 DEF Fresh

\* What one tick does to its rows is all there is to look at.
LEMMA HandsStep ==
    ASSUME TypeOK, HandsInv, contested \subseteq contested', NEW t \in Ticks,
           \A u \in Ticks \ {t} : pc'[u] = pc[u] /\ todo'[u] = todo[u] /\ seen'[u] = seen[u],
           priority' = priority,
           \A k \in Jobs \ todo[t] :
               status[k] \in {"pending", "processing"} =>
                   /\ status'[k] = status[k] /\ attempts'[k] = attempts[k]
                   /\ delivered'[k] = delivered[k],
           pc'[t] \in Calm => todo'[t] = {},
           \A j \in todo'[t] \ contested' :
               Fresh(t, j)' /\ \A u \in Ticks \ {t} : j \notin todo[u]
    PROVE  HandsInv'
<1> SUFFICES ASSUME NEW u \in Ticks
             PROVE  /\ pc'[u] \in Calm => todo'[u] = {}
                    /\ \A j \in todo'[u] \ contested' :
                         Fresh(u, j)' /\ \A w \in Ticks \ {u} : j \notin todo'[w]
  BY DEF HandsInv
<1>1. CASE u = t
  BY <1>1
<1>2. CASE u # t
  <2>1. pc'[u] = pc[u] /\ todo'[u] = todo[u] /\ (pc[u] \in Calm => todo[u] = {})
    BY <1>2 DEF HandsInv
  <2>2. \A j \in todo'[u] \ contested' : Fresh(u, j)'
    BY <1>2, OthersKept
  <2>3. ASSUME NEW j \in todo'[u] \ contested', NEW w \in Ticks \ {u} PROVE j \notin todo'[w]
    <3>1. CASE w = t
      BY <1>2, <2>1, <3>1
    <3>2. CASE w # t
      BY <1>2, <2>1, <3>2 DEF HandsInv
    <3> QED
      BY <3>1, <3>2
  <2> QED
    BY <2>1, <2>2, <2>3
<1> QED
  BY <1>1, <1>2

\* A tick that has read nothing, or drops what it has read.
LEMMA HandsEmpty ==
    ASSUME TypeOK, HandsInv, contested \subseteq contested', NEW t \in Ticks,
           \A u \in Ticks \ {t} : pc'[u] = pc[u] /\ todo'[u] = todo[u] /\ seen'[u] = seen[u],
           priority' = priority,
           \A k \in Jobs :
               status[k] \in {"pending", "processing"} =>
                   /\ status'[k] = status[k] /\ attempts'[k] = attempts[k]
                   /\ delivered'[k] = delivered[k],
           todo'[t] = {}
    PROVE  HandsInv'
BY HandsStep

\* A tick goes on to the next row: the rest of its rows stay as read.
LEMMA NextKept ==
    ASSUME TypeOK, HandsInv, contested \subseteq contested', NEW t \in Ticks, NEW j \in Jobs,
           pc[t] \in {"lock"} \cup Handling, IsNext(t, j),
           pc' = [pc EXCEPT ![t] = "lock"], todo' = [todo EXCEPT ![t] = @ \ {j}],
           seen' = seen, priority' = priority, delivered' = delivered,
           \A k \in Jobs \ {j} : status'[k] = status[k] /\ attempts'[k] = attempts[k]
    PROVE  HandsInv'
<1>1. pc'[t] = "lock" /\ todo'[t] = todo[t] \ {j} /\ j \in todo[t]
  BY DEF TypeOK, IsNext
<1>2. \A u \in Ticks \ {t} : pc'[u] = pc[u] /\ todo'[u] = todo[u] /\ seen'[u] = seen[u]
  BY DEF TypeOK
<1>3. ASSUME NEW k \in todo'[t] \ contested'
      PROVE  Fresh(t, k)' /\ \A u \in Ticks \ {t} : k \notin todo[u]
  <2>1. k \in todo[t] \ contested /\ k # j /\ k \in Jobs
    BY <1>1 DEF TypeOK
  <2>2. ~IsNext(t, k) /\ ~At(t, k)
    BY <2>1, OneNext DEF At, Handling
  <2>3. Fresh(t, k) /\ \A u \in Ticks \ {t} : k \notin todo[u]
    BY <2>1 DEF HandsInv
  <2>4. ~At(t, k)'
    BY <1>1 DEF At, Handling
  <2> QED
    BY <1>1, <2>1, <2>2, <2>3, <2>4 DEF Fresh
<1> QED
  BY <1>1, <1>2, <1>3, HandsStep DEF Calm

\* One lemma for the steps of a tick ...
LEMMA TickHands ==
    ASSUME HistoryInv, TypeOK', HistoryStep, NEW t \in Ticks, Tick(t), Record
    PROVE  RelayInv' /\ HandsInv'
<1> USE DEF rows, process, ticks
<1>1. /\ TypeOK /\ QueueInv /\ RelayInv /\ HandsInv /\ contested \subseteq contested'
      /\ \A u \in Ticks \ {t}, j \in Jobs : InBatch(t) => ~InBatch(u)
  BY ContestedStep DEF HistoryInv, QueueInv, OneBatchAtATime
<1>2. pc \in [Ticks -> Steps] /\ todo \in [Ticks -> SUBSET Jobs]
      /\ seen \in [Ticks -> [Jobs -> Nat]] /\ status \in [Jobs -> {"absent", "pending",
           "processing", "sent", "failed", "pruned"}] /\ delivered \in [Jobs -> 0 .. DeliveryCap]
  BY <1>1 DEF TypeOK
<1>3. CASE StartTick(t) \/ FetchFails(t) \/ EndBatch(t)
  <2>1. /\ todo'[t] = {}
        /\ \A u \in Ticks \ {t} : pc'[u] = pc[u] /\ todo'[u] = todo[u] /\ seen'[u] = seen[u]
        /\ UNCHANGED <<status, attempts, maxAttempts, priority, delivered>>
    BY <1>1, <1>2, <1>3 DEF StartTick, FetchFails, EndBatch, HandsInv, Calm
  <2> QED
    BY <1>1, <2>1, RelaySame, HandsEmpty
<1>4. CASE Fetch(t)
  <2>1. PICK B \in SUBSET DueJobs : /\ todo' = [todo EXCEPT ![t] = B]
                                   /\ seen' = [seen EXCEPT ![t] = Read(B)]
    BY <1>4 DEF Fetch
  <2>2. /\ todo'[t] = B /\ seen'[t] = Read(B) /\ pc'[t] = "lock" /\ pc[t] = "fetch"
        /\ \A u \in Ticks \ {t} : pc'[u] = pc[u] /\ todo'[u] = todo[u] /\ seen'[u] = seen[u]
        /\ UNCHANGED <<status, attempts, maxAttempts, priority, delivered>>
    BY <1>2, <1>4, <2>1 DEF Fetch
  <2>3. ASSUME NEW j \in B \ contested', NEW u \in Ticks \ {t} PROVE j \notin todo[u]
    <3>1. ASSUME j \in todo[u] PROVE FALSE
      <4>1. Fresh(u, j) /\ status[j] = "pending" /\ (pc[u] \in Calm => todo[u] = {})
        BY <1>1, <3>1 DEF HandsInv, DueJobs
      <4>2. ~At(u, j)
        BY <4>1 DEF Fresh
      <4>3. ~InBatch(u)
        BY <1>1, <2>2, <2>3 DEF InBatch, DueJobs
      <4> QED
        BY <1>2, <3>1, <4>1, <4>2, <4>3 DEF At, InBatch, Calm, Steps
    <3> QED
      BY <3>1
  <2>4. ASSUME NEW j \in B PROVE Fresh(t, j)'
    BY <2>2, <2>4 DEF Fresh, DueJobs, Read, At, Handling
  <2>5. HandsInv'
    BY <1>1, <2>2, <2>3, <2>4, HandsStep DEF Calm
  <2> QED
    BY <1>1, <2>2, <2>5, RelaySame
<1>5. ASSUME NEW j \in Jobs, Lock(t, j) PROVE RelayInv' /\ HandsInv'
  <2>1. /\ j \in todo[t] /\ pc[t] = "lock" /\ pc'[t] = "send" /\ IsNext(t, j)
        /\ UNCHANGED <<todo, seen, attempts, maxAttempts, priority, delivered>>
        /\ status[j] = "pending" /\ status'[j] = "processing"
        /\ \A k \in Jobs \ {j} : status'[k] = status[k]
        /\ \A u \in Ticks \ {t} : pc'[u] = pc[u]
    BY <1>2, <1>5 DEF Lock, IsNext
  <2>2. j \notin contested' => /\ attempts[j] \in Nat /\ delivered[j] \in Nat
                               /\ delivered[j] <= attempts[j]
    BY <1>1, <2>1, BudgetNat DEF RelayInv, Bound
  <2>3. j \notin contested' => delivered'[j] <= Bound(j)'
    BY <2>1, <2>2 DEF Bound
  <2>4. RelayInv'
    BY <1>1, <2>1, <2>3, RelayOne
  <2>5. ASSUME NEW k \in todo[t], k # j PROVE ~At(t, k)'
    <3>1. k \in Jobs /\ ~IsNext(t, k)
      BY <1>1, <1>2, <2>1, <2>5, OneNext
    <3>2. IsNext(t, k)' = IsNext(t, k)
      BY <2>1 DEF IsNext, Before
    <3> QED
      BY <2>1, <3>1, <3>2 DEF At
  <2>6. ASSUME NEW k \in todo[t] \ contested'
        PROVE  /\ seen[t][k] = attempts[k] /\ status[k] = "pending"
               /\ \A u \in Ticks \ {t} : k \notin todo[u]
    BY <1>1, <2>1 DEF HandsInv, Fresh, At, Handling
  <2>7. At(t, j)'
    BY <2>1 DEF At, Handling, IsNext, Before
  <2>8. ASSUME NEW k \in todo'[t] \ contested'
        PROVE  Fresh(t, k)' /\ \A u \in Ticks \ {t} : k \notin todo[u]
    <3>1. k \in todo[t] \ contested' /\ k \in Jobs /\ seen'[t][k] = attempts'[k]
      BY <1>2, <2>1, <2>6
    <3>2. CASE k = j
      BY <2>1, <2>2, <2>6, <2>7, <3>1, <3>2 DEF Fresh
    <3>3. CASE k # j
      BY <2>1, <2>5, <2>6, <3>1, <3>3 DEF Fresh
    <3> QED
      BY <3>2, <3>3
  <2>9. HandsInv'
    BY <1>1, <2>1, <2>8, HandsStep DEF Calm
  <2> QED
    BY <2>4, <2>9
<1>6. ASSUME NEW j \in Jobs, SkipLock(t, j) \/ MarkLost(t, j) PROVE RelayInv' /\ HandsInv'
  <2>1. /\ pc[t] \in {"lock"} \cup Handling /\ IsNext(t, j) /\ pc' = [pc EXCEPT ![t] = "lock"]
        /\ todo' = [todo EXCEPT ![t] = @ \ {j}] /\ seen' = seen
        /\ UNCHANGED <<status, attempts, maxAttempts, priority, delivered>>
    BY <1>2, <1>6 DEF SkipLock, MarkLost, NextJob, Handling
  <2>2. HandsInv'
    BY <1>1, <2>1, NextKept
  <2> QED
    BY <1>1, <2>1, <2>2, RelaySame
<1>7. ASSUME NEW j \in Jobs, NEW accepted \in BOOLEAN, NEW resolved \in BOOLEAN,
             Send(t, j, accepted, resolved)
      PROVE  RelayInv' /\ HandsInv'
  <2>1. /\ pc[t] = "send" /\ pc'[t] \in {"markSent", "markFailed"} /\ IsNext(t, j)
        /\ j \in todo[t] /\ At(t, j)
        /\ UNCHANGED <<todo, seen, status, attempts, maxAttempts, priority>>
        /\ \A u \in Ticks \ {t} : pc'[u] = pc[u]
    BY <1>2, <1>7 DEF Send, IsNext, At, Handling
  <2>2. j \notin contested' =>
            /\ status[j] = "processing" /\ delivered[j] <= attempts[j]
            /\ attempts[j] \in Nat /\ delivered[j] \in Nat
    BY <1>1, <2>1, AtRow, BudgetNat
  <2>3. /\ delivered'[j] \in {delivered[j], delivered[j] + 1}
        /\ \A k \in Jobs \ {j} : delivered'[k] = delivered[k]
    BY <1>2, <1>7 DEF Send
  <2>4. j \notin contested' => delivered'[j] <= Bound(j)'
    BY <2>1, <2>2, <2>3 DEF Bound
  <2>5. RelayInv'
    BY <1>1, <2>1, <2>3, <2>4, RelayOne
  <2>6. ASSUME NEW k \in todo'[t] \ contested'
        PROVE  Fresh(t, k)' /\ \A u \in Ticks \ {t} : k \notin todo[u]
    <3>1. At(t, k)' = At(t, k)
      BY <2>1 DEF At, Handling, IsNext, Before
    <3>2. Fresh(t, k) /\ \A u \in Ticks \ {t} : k \notin todo[u]
      BY <1>1, <2>1 DEF HandsInv
    <3> QED
      BY <2>1, <3>1, <3>2 DEF Fresh
  <2>7. HandsInv'
    BY <1>1, <2>1, <2>3, <2>6, HandsStep DEF Calm
  <2> QED
    BY <2>5, <2>7
<1>8. ASSUME NEW j \in Jobs, MarkSent(t, j) PROVE RelayInv' /\ HandsInv'
  <2>1. /\ pc[t] = "markSent" /\ IsNext(t, j) /\ pc' = [pc EXCEPT ![t] = "lock"]
        /\ todo' = [todo EXCEPT ![t] = @ \ {j}] /\ seen' = seen
        /\ UNCHANGED <<attempts, maxAttempts, priority, delivered>>
        /\ status'[j] = "sent" /\ \A k \in Jobs \ {j} : status'[k] = status[k]
    BY <1>2, <1>8 DEF MarkSent, NextJob
  <2>2. HandsInv'
    BY <1>1, <2>1, NextKept DEF Handling
  <2>3. j \in todo[t] /\ At(t, j)
    BY <2>1 DEF IsNext, At, Handling
  <2>4. j \notin contested' =>
            /\ attempts[j] < Budget(j) /\ delivered[j] <= attempts[j] + 1
            /\ attempts[j] \in Nat /\ Budget(j) \in Nat /\ delivered[j] \in Nat
    BY <1>1, <2>3, AtRow, BudgetNat DEF QueueInv, AttemptsWithinBudget, RelayInv, Bound
  <2>5. j \notin contested' => delivered'[j] <= Bound(j)'
    BY <2>1, <2>4 DEF Bound, Budget
  <2> QED
    BY <1>1, <2>1, <2>2, <2>5, RelayOne
<1>9. ASSUME NEW j \in Jobs, MarkFailed(t, j) PROVE RelayInv' /\ HandsInv'
  <2>1. /\ pc[t] = "markFailed" /\ IsNext(t, j) /\ pc' = [pc EXCEPT ![t] = "lock"]
        /\ todo' = [todo EXCEPT ![t] = @ \ {j}] /\ seen' = seen /\ delivered' = delivered
        /\ ChargeAttempt(j, seen[t][j] + 1) /\ seen[t][j] + 1 \in Nat
    BY <1>2, <1>9 DEF MarkFailed, NextJob
  <2>2. j \in todo[t] /\ At(t, j)
    BY <2>1 DEF IsNext, At, Handling
  <2>3. /\ maxAttempts' = maxAttempts /\ priority' = priority
        /\ \A k \in Jobs \ {j} : status'[k] = status[k] /\ attempts'[k] = attempts[k]
    BY <1>1, <2>1, ChargeOne
  <2>4. HandsInv'
    BY <1>1, <2>1, <2>3, NextKept DEF Handling
  <2>5. j \notin contested' => delivered'[j] <= Bound(j)'
    BY <1>1, <2>1, <2>2, ChargeFresh
  <2> QED
    BY <1>1, <2>1, <2>3, <2>4, <2>5, RelayOne
<1>10. ASSUME NEW j \in Jobs, RecoverUpdate(t, j) PROVE RelayInv' /\ HandsInv'
  <2>1. /\ pc[t] = "recovering" /\ pc' = pc /\ j \in todo[t] /\ At(t, j)
        /\ todo'[t] = todo[t] \ {j} /\ seen' = seen /\ delivered' = delivered
        /\ \A u \in Ticks \ {t} : todo'[u] = todo[u]
        /\ ChargeAttempt(j, seen[t][j] + 1) /\ seen[t][j] + 1 \in Nat
    BY <1>2, <1>10 DEF RecoverUpdate, At
  <2>2. /\ maxAttempts' = maxAttempts /\ priority' = priority
        /\ \A k \in Jobs \ {j} : status'[k] = status[k] /\ attempts'[k] = attempts[k]
    BY <1>1, <2>1, ChargeOne
  <2>3. ASSUME NEW k \in todo'[t] \ contested'
        PROVE  Fresh(t, k)' /\ \A u \in Ticks \ {t} : k \notin todo[u]
    <3>1. /\ k \in todo[t] \ contested /\ k # j /\ k \in Jobs
          /\ Fresh(t, k) /\ \A u \in Ticks \ {t} : k \notin todo[u]
      BY <1>1, <1>2, <2>1 DEF HandsInv
    <3>2. At(t, k) /\ At(t, k)'
      BY <2>1 DEF At
    <3> QED
      BY <2>1, <2>2, <3>1, <3>2 DEF Fresh
  <2>4. HandsInv'
    BY <1>1, <2>1, <2>2, <2>3, HandsStep DEF Calm
  <2>5. j \notin contested' => delivered'[j] <= Bound(j)'
    BY <1>1, <2>1, ChargeFresh
  <2> QED
    BY <1>1, <2>1, <2>2, <2>4, <2>5, RelayOne
<1>11. CASE RecoverFind(t)
  <2>1. /\ todo'[t] = Stuck /\ seen'[t] = Read(Stuck) /\ pc'[t] = "recovering"
        /\ \A u \in Ticks \ {t} : pc'[u] = pc[u] /\ todo'[u] = todo[u] /\ seen'[u] = seen[u]
        /\ UNCHANGED <<status, attempts, maxAttempts, priority, delivered>>
    BY <1>2, <1>11 DEF RecoverFind
  <2>2. ASSUME NEW j \in Stuck PROVE Fresh(t, j)'
    BY <2>1, <2>2 DEF Fresh, Stuck, Read, At
  <2>3. ASSUME NEW j \in Stuck \ contested', NEW u \in Ticks \ {t} PROVE j \notin todo[u]
    BY <1>11, <2>3 DEF Record, Contests, Stuck
  <2>4. HandsInv'
    BY <1>1, <2>1, <2>2, <2>3, HandsStep DEF Calm
  <2> QED
    BY <1>1, <2>1, <2>4, RelaySame
<1>12. CASE RecoverDone(t) \/ RecoverFails(t)
  <2>1. /\ todo'[t] = {} /\ UNCHANGED <<status, attempts, maxAttempts, priority, delivered>>
        /\ \A u \in Ticks \ {t} : pc'[u] = pc[u] /\ todo'[u] = todo[u] /\ seen'[u] = seen[u]
    BY <1>2, <1>12 DEF RecoverDone, RecoverFails, RecoverEnds
  <2> QED
    BY <1>1, <2>1, RelaySame, HandsEmpty
<1>13. CASE Cleanup(t)
  <2>1. PICK old \in SUBSET {j \in Jobs : status[j] \in {"sent", "failed"}} :
            status' = [j \in Jobs |-> IF j \in old THEN "pruned" ELSE status[j]]
    BY <1>13 DEF Cleanup
  <2>2. /\ UNCHANGED <<attempts, maxAttempts, priority, delivered>> /\ todo'[t] = {}
        /\ \A u \in Ticks \ {t} : pc'[u] = pc[u] /\ todo'[u] = todo[u] /\ seen'[u] = seen[u]
    BY <1>1, <1>2, <1>13 DEF Cleanup, HandsInv, Calm
  <2>3. ASSUME NEW j \in Jobs PROVE Bound(j)' = Bound(j)
    BY <2>1, <2>2 DEF Bound, Budget
  <2>4. RelayInv'
    BY <1>1, <2>2, <2>3 DEF RelayInv
  <2>5. \A k \in Jobs : status[k] \in {"pending", "processing"} => status'[k] = status[k]
    BY <2>1
  <2> QED
    BY <1>1, <2>2, <2>4, <2>5, HandsEmpty
<1> QED
  BY <1>3, <1>4, <1>5, <1>6, <1>7, <1>8, <1>9, <1>10, <1>11, <1>12, <1>13 DEF Tick

\* Steps that leave the ticks and the rows in their hands alone.
LEMMA HandsSame ==
    ASSUME HandsInv, contested \subseteq contested', UNCHANGED ticks,
           \A t \in Ticks : \A k \in todo[t] :
               /\ status'[k] = status[k] /\ attempts'[k] = attempts[k]
               /\ delivered'[k] = delivered[k] /\ priority'[k] = priority[k]
    PROVE  HandsInv'
<1>1. pc' = pc /\ todo' = todo /\ seen' = seen
  BY DEF ticks
<1>2. ASSUME NEW t \in Ticks, NEW j \in todo[t] \ contested' PROVE Fresh(t, j)'
  <2>1. Fresh(t, j)
    BY DEF HandsInv
  <2>2. At(t, j)' = At(t, j)
    BY <1>1 DEF At, IsNext, Before
  <2> QED
    BY <1>1, <2>1, <2>2 DEF Fresh
<1> QED
  BY <1>1, <1>2 DEF HandsInv

\* ... and one for the creation of a row: no tick has read it.
LEMMA CreateHands ==
    ASSUME HistoryInv, contested \subseteq contested', NEW j \in Jobs, status[j] = "absent",
           \A k \in Jobs \ {j} : /\ status'[k] = status[k] /\ priority'[k] = priority[k]
                                 /\ maxAttempts'[k] = maxAttempts[k],
           UNCHANGED <<attempts, delivered, ticks>>, TypeOK'
    PROVE  RelayInv' /\ HandsInv'
<1>1. TypeOK /\ RelayInv /\ HandsInv /\ ReadsLeaveAnAttempt /\ UnusedRowsAreBlank
  BY DEF HistoryInv, QueueInv
<1>2. \A t \in Ticks : \A k \in todo[t] : k \in Jobs \ {j}
  BY <1>1 DEF TypeOK, ReadsLeaveAnAttempt
<1>3. HandsInv'
  BY <1>1, <1>2, HandsSame
<1>4. ASSUME j \notin contested' PROVE delivered'[j] <= Bound(j)'
  <2>1. delivered[j] <= 0 /\ attempts'[j] = 0
    BY <1>1, <1>4 DEF RelayInv, Bound, UnusedRowsAreBlank
  <2>2. delivered'[j] = delivered[j] /\ delivered[j] \in Nat
    BY <1>1, BudgetNat
  <2>3. (Budget(j))' \in Nat
    <3>1. maxAttempts'[j] \in Nat
      BY LimitNat DEF TypeOK
    <3> QED
      BY <3>1 DEF Budget
  <2> QED
    BY <2>1, <2>2, <2>3 DEF Bound
<1>5. RelayInv'
  BY <1>1, <1>4, RelayOne
<1> QED
  BY <1>3, <1>5

\* Every step keeps the history's invariant.
LEMMA HistoryInvStep == HistoryInv /\ HistoryStep => HistoryInv'
<1> SUFFICES ASSUME HistoryInv, HistoryStep PROVE HistoryInv'
  OBVIOUS
<1> USE DEF rows, process, ticks
<1>1. QueueInv /\ TypeOK /\ RelayInv /\ HandsInv
  BY DEF HistoryInv, QueueInv
<1>2. QueueInv' /\ TypeOK'
  <2>1. [Next]_vars
    BY DEF HistoryStep
  <2> QED
    BY <1>1, <2>1, QueueInvStep DEF QueueInv
<1>3. contested' \subseteq Jobs /\ contested \subseteq contested'
  BY ContestedStep DEF HistoryInv
<1> SUFFICES RelayInv' /\ HandsInv'
  BY <1>2, <1>3 DEF HistoryInv
<1>4. ASSUME UNCHANGED <<status, attempts, maxAttempts, priority, delivered, pc, todo, seen>>
      PROVE  RelayInv' /\ HandsInv'
  BY <1>1, <1>3, <1>4, RelaySame, HandsSame
<1>5. CASE UNCHANGED <<vars, contested>>
  BY <1>4, <1>5 DEF vars
<1>6. ASSUME NEW j \in Jobs, NEW urgent \in {0, 1}, NEW n \in RetryLimits, Enqueue(j, urgent, n)
      PROVE  RelayInv' /\ HandsInv'
  <2>1. \A k \in Jobs \ {j} : /\ status'[k] = status[k] /\ priority'[k] = priority[k]
                              /\ maxAttempts'[k] = maxAttempts[k]
    BY <1>1, <1>6 DEF Enqueue, TypeOK
  <2> QED
    BY <1>2, <1>3, <1>6, <2>1, CreateHands DEF Enqueue
<1>7. ASSUME NEW j \in Jobs, NEW urgent \in {0, 1}, EnqueueUnrendered(j, urgent)
      PROVE  RelayInv' /\ HandsInv'
  <2>1. \A k \in Jobs \ {j} : /\ status'[k] = status[k] /\ priority'[k] = priority[k]
                              /\ maxAttempts'[k] = maxAttempts[k]
    BY <1>1, <1>7 DEF EnqueueUnrendered, TypeOK
  <2> QED
    BY <1>2, <1>3, <1>7, <2>1, CreateHands DEF EnqueueUnrendered
<1>8. ASSUME NEW j \in Jobs, BackoffElapses(j) \/ LockAges(j) PROVE RelayInv' /\ HandsInv'
  BY <1>4, <1>8 DEF BackoffElapses, LockAges
<1>9. ASSUME NEW t \in Ticks, Restart(t) PROVE RelayInv' /\ HandsInv'
  <2>1. /\ \A u \in Ticks : todo'[u] = {}
        /\ UNCHANGED <<status, attempts, maxAttempts, delivered>>
    BY <1>9 DEF Restart
  <2>2. HandsInv'
    BY <2>1 DEF HandsInv
  <2> QED
    BY <1>1, <1>3, <2>1, <2>2, RelaySame
<1>10. ASSUME NEW t \in Ticks, Tick(t), Record PROVE RelayInv' /\ HandsInv'
  BY <1>2, <1>10, TickHands
<1> QED
  BY <1>5, <1>6, <1>7, <1>8, <1>9, <1>10 DEF HistoryStep, Next

\* It holds at the start.
LEMMA HistoryInvInit == Init /\ HistoryInit => HistoryInv
<1> SUFFICES ASSUME Init, HistoryInit PROVE HistoryInv
  OBVIOUS
<1>1. QueueInv
  BY TypeInit DEF Init, QueueInv, FlagCoversBatch, OneBatchAtATime, InBatch, UnusedRowsAreBlank,
     NoAttempts, ReadsLeaveAnAttempt, AttemptsWithinBudget, Budget, FailedOnlyWhenExhausted,
     MarksWhatItDelivered, SentWasDelivered
<1>2. RelayInv /\ HandsInv
  BY DEF Init, RelayInv, HandsInv, Bound, NoAttempts
<1> QED
  BY <1>1, <1>2 DEF HistoryInv, HistoryInit

-----------------------------------------------------------------------------
(* The refinement: every step is a step of the mailbox.                    *)

\* Steps that change nothing a caller can see.
LEMMA MailSame ==
    ASSUME contested \subseteq contested',
           \A k \in Jobs : MailState(k)' = MailState(k),
           UNCHANGED <<attempts, maxAttempts, delivered>>
    PROVE  Mail!Next
BY DEF Mail!Next, MailOf, Budget

\* Steps that write one row: what they do to it is what matters.
LEMMA MailOne ==
    ASSUME contested \subseteq contested', NEW j \in Jobs,
           \A k \in Jobs \ {j} : /\ status'[k] = status[k] /\ attempts'[k] = attempts[k]
                                 /\ maxAttempts'[k] = maxAttempts[k]
                                 /\ delivered'[k] = delivered[k],
           j \notin contested' => Mail!Step(j)
    PROVE  Mail!Next
<1> SUFFICES ASSUME NEW k \in Jobs \ contested'
             PROVE  Mail!Step(k) \/ MailOf(k)' = MailOf(k)
  BY DEF Mail!Next
<1>1. CASE k = j
  BY <1>1
<1>2. CASE k # j
  BY <1>2 DEF MailOf, MailState, Budget
<1> QED
  BY <1>1, <1>2

\* A charged try.
LEMMA MailCharge ==
    ASSUME QueueInv, RelayInv, HandsInv, NEW t \in Ticks, NEW j \in todo[t] \ contested,
           At(t, j), ChargeAttempt(j, seen[t][j] + 1), UNCHANGED delivered
    PROVE  Mail!Charge(j)
<1>1. TypeOK
  BY DEF QueueInv
<1>2. j \in Jobs /\ status[j] = "processing"
  BY <1>1, AtRow
<1>3. /\ attempts'[j] = attempts[j] + 1 /\ maxAttempts' = maxAttempts
      /\ status'[j] = IF attempts[j] + 1 >= maxAttempts[j] THEN "failed" ELSE "pending"
  BY ChargeFresh
<1>4. maxAttempts[j] \in Nat /\ attempts[j] \in Nat
  BY <1>1, <1>2, BudgetNat
<1>5. attempts[j] + 1 >= maxAttempts[j] <=> attempts[j] + 1 >= Budget(j)
  BY <1>4 DEF Budget
<1> DEFINE out == IF attempts[j] + 1 >= Budget(j) THEN "failed" ELSE "queued"
<1>6. MailState(j)' = out /\ Budget(j)' = Budget(j)
  <2>1. MailState(j)' = out
    BY <1>3, <1>5 DEF MailState
  <2>2. Budget(j)' = Budget(j)
    BY <1>3 DEF Budget
  <2> QED
    BY <2>1, <2>2
<1> HIDE DEF out
<1>7. MailOf(j)' = [state |-> out, limit |-> Budget(j), tries |-> attempts[j] + 1,
                    taken |-> delivered[j]]
  BY <1>3, <1>6 DEF MailOf
<1> QED
  BY <1>2, <1>7 DEF Mail!Charge, MailOf, MailState, out

\* The initial states of the queue are those of the mailbox.
LEMMA MailInit == Init /\ HistoryInit => Mail!Init
BY DEF Init, HistoryInit, Mail!Init, MailOf, MailState, Budget, NoAttempts

\* A step of one tick.
LEMMA MailTick ==
    ASSUME HistoryInv, HistoryStep, NEW t \in Ticks, Tick(t)
    PROVE  Mail!Next
<1> USE DEF rows, process, ticks
<1>1. /\ QueueInv /\ RelayInv /\ HandsInv /\ TypeOK
      /\ contested \subseteq contested'
  BY ContestedStep DEF HistoryInv, QueueInv
<1>2. /\ pc \in [Ticks -> Steps] /\ todo \in [Ticks -> SUBSET Jobs]
      /\ seen \in [Ticks -> [Jobs -> Nat]] /\ delivered \in [Jobs -> 0 .. DeliveryCap]
      /\ status \in [Jobs -> {"absent", "pending", "processing", "sent", "failed", "pruned"}]
  BY <1>1 DEF TypeOK
<1>3. ASSUME UNCHANGED <<status, attempts, maxAttempts, delivered>> PROVE Mail!Next
  BY <1>1, <1>3, MailSame DEF MailState
<1>4. CASE StartTick(t) \/ Fetch(t) \/ FetchFails(t) \/ EndBatch(t) \/ RecoverFind(t)
  BY <1>3, <1>4 DEF StartTick, Fetch, FetchFails, EndBatch, RecoverFind
<1>5. CASE RecoverDone(t) \/ RecoverFails(t)
  BY <1>3, <1>5 DEF RecoverDone, RecoverFails, RecoverEnds
<1>6. ASSUME NEW j \in Jobs, SkipLock(t, j) \/ MarkLost(t, j) PROVE Mail!Next
  BY <1>3, <1>6 DEF SkipLock, MarkLost, NextJob
<1>7. ASSUME NEW j \in Jobs, Lock(t, j) PROVE Mail!Next
  <2>1. \A k \in Jobs : MailState(k)' = MailState(k)
    BY <1>2, <1>7 DEF Lock, MailState
  <2> QED
    BY <1>1, <1>7, <2>1, MailSame DEF Lock
<1>8. ASSUME NEW j \in Jobs, NEW accepted \in BOOLEAN, NEW resolved \in BOOLEAN,
             Send(t, j, accepted, resolved)
      PROVE  Mail!Next
  <2>1. /\ j \in todo[t] /\ At(t, j) /\ pc[t] = "send"
        /\ UNCHANGED <<status, attempts, maxAttempts>>
    BY <1>8 DEF Send, IsNext, At, Handling
  <2>2. CASE delivered' = delivered
    BY <1>3, <2>1, <2>2
  <2>3. CASE delivered' = [delivered EXCEPT ![j] = @ + 1]
    <3>1. ASSUME j \notin contested' PROVE Mail!Deliver(j)
      <4>1. status[j] = "processing" /\ delivered[j] <= attempts[j]
        BY <1>1, <2>1, <3>1, AtRow
      <4>2. MailOf(j)' = [MailOf(j) EXCEPT !.taken = delivered[j] + 1]
        BY <1>2, <2>1, <2>3 DEF MailOf, MailState, Budget
      <4> QED
        BY <4>1, <4>2 DEF Mail!Deliver, MailOf, MailState
    <3>2. /\ delivered'[j] = delivered[j] + 1
          /\ \A k \in Jobs \ {j} : delivered'[k] = delivered[k]
      BY <1>2, <2>3
    <3> QED
      BY <1>1, <2>1, <3>1, <3>2, MailOne DEF Mail!Step
  <2> QED
    BY <1>8, <2>2, <2>3 DEF Send
<1>9. ASSUME NEW j \in Jobs, MarkSent(t, j) PROVE Mail!Next
  <2>1. /\ pc[t] = "markSent" /\ IsNext(t, j) /\ j \in todo[t] /\ At(t, j)
        /\ UNCHANGED <<attempts, maxAttempts, delivered>>
        /\ status'[j] = "sent" /\ \A k \in Jobs \ {j} : status'[k] = status[k]
    BY <1>2, <1>9 DEF MarkSent, NextJob, IsNext, At, Handling
  <2>2. ASSUME j \notin contested' PROVE Mail!Succeed(j)
    <3>1. status[j] = "processing" /\ delivered[j] > 0
      BY <1>1, <2>1, <2>2, AtRow DEF QueueInv, MarksWhatItDelivered
    <3>2. MailOf(j)' = [MailOf(j) EXCEPT !.state = "sent"]
      BY <2>1 DEF MailOf, MailState, Budget
    <3> QED
      BY <3>1, <3>2 DEF Mail!Succeed, MailOf, MailState
  <2> QED
    BY <1>1, <2>1, <2>2, MailOne DEF Mail!Step
<1>10. ASSUME NEW j \in Jobs, MarkFailed(t, j) \/ RecoverUpdate(t, j) PROVE Mail!Next
  <2>1. /\ j \in todo[t] /\ At(t, j) /\ delivered' = delivered
        /\ ChargeAttempt(j, seen[t][j] + 1) /\ seen[t][j] + 1 \in Nat
    BY <1>2, <1>10 DEF MarkFailed, RecoverUpdate, NextJob, IsNext, At, Handling
  <2>2. j \notin contested' => Mail!Charge(j)
    BY <1>1, <2>1, MailCharge
  <2> QED
    BY <1>1, <2>1, <2>2, ChargeOne, MailOne DEF Mail!Step
<1>11. CASE Cleanup(t)
  <2>1. PICK old \in SUBSET {j \in Jobs : status[j] \in {"sent", "failed"}} :
            status' = [j \in Jobs |-> IF j \in old THEN "pruned" ELSE status[j]]
    BY <1>11 DEF Cleanup
  <2>2. UNCHANGED <<attempts, maxAttempts, delivered>>
    BY <1>11 DEF Cleanup
  <2>3. ASSUME NEW j \in Jobs PROVE Mail!Prune(j) \/ MailOf(j)' = MailOf(j)
    <3>1. CASE j \in old
      <4>1. status[j] \in {"sent", "failed"} /\ status'[j] = "pruned"
        BY <2>1, <3>1
      <4>2. MailOf(j)' = [MailOf(j) EXCEPT !.state = "pruned"]
        BY <2>2, <4>1 DEF MailOf, MailState, Budget
      <4> QED
        BY <4>1, <4>2 DEF Mail!Prune, MailOf, MailState
    <3>2. CASE j \notin old
      BY <2>1, <2>2, <3>2 DEF MailOf, MailState, Budget
    <3> QED
      BY <3>1, <3>2
  <2> QED
    BY <1>1, <2>3 DEF Mail!Next, Mail!Step
<1> QED
  BY <1>4, <1>5, <1>6, <1>7, <1>8, <1>9, <1>10, <1>11 DEF Tick

\* Every step of the queue is one of the mailbox.
LEMMA MailStep == HistoryInv /\ HistoryStep => Mail!Next
<1> SUFFICES ASSUME HistoryInv, HistoryStep PROVE Mail!Next
  OBVIOUS
<1> USE DEF rows, process, ticks
<1>1. TypeOK /\ UnusedRowsAreBlank /\ contested \subseteq contested'
  BY ContestedStep DEF HistoryInv, QueueInv
<1>2. ASSUME UNCHANGED <<status, attempts, maxAttempts, delivered>> PROVE Mail!Next
  BY <1>1, <1>2, MailSame DEF MailState
<1>3. CASE UNCHANGED <<vars, contested>>
  BY <1>2, <1>3 DEF vars
<1>4. ASSUME NEW j \in Jobs, NEW urgent \in {0, 1}, NEW n \in RetryLimits, Enqueue(j, urgent, n)
      PROVE  Mail!Next
  <2> DEFINE b == IF n = 0 THEN 1 ELSE n
  <2>1. /\ status[j] = "absent" /\ status'[j] = "pending" /\ maxAttempts'[j] = n
        /\ UNCHANGED <<attempts, delivered>>
        /\ \A k \in Jobs \ {j} : status'[k] = status[k] /\ maxAttempts'[k] = maxAttempts[k]
    BY <1>1, <1>4 DEF Enqueue, TypeOK
  <2>2. b \in RetryLimits \cup {1}
    OBVIOUS
  <2>3. MailOf(j)' = [state |-> "queued", limit |-> b, tries |-> attempts[j],
                      taken |-> delivered[j]]
    BY <2>1 DEF MailOf, MailState, Budget
  <2>4. Mail!Accept(j, b)
    BY <2>1, <2>3 DEF Mail!Accept, MailOf, MailState
  <2>5. Mail!Step(j)
    BY <2>2, <2>4 DEF Mail!Step
  <2> QED
    BY <1>1, <2>1, <2>5, MailOne
<1>5. ASSUME NEW j \in Jobs, NEW urgent \in {0, 1}, EnqueueUnrendered(j, urgent) PROVE Mail!Next
  <2>1. /\ status[j] = "absent" /\ status'[j] = "failed"
        /\ UNCHANGED <<attempts, maxAttempts, delivered>>
        /\ \A k \in Jobs \ {j} : status'[k] = status[k]
    BY <1>1, <1>5 DEF EnqueueUnrendered, TypeOK
  <2>2. MailOf(j)' = [MailOf(j) EXCEPT !.state = "failed"]
    BY <2>1 DEF MailOf, MailState, Budget
  <2>3. Mail!Refuse(j)
    BY <2>1, <2>2 DEF Mail!Refuse, MailOf, MailState
  <2> QED
    BY <1>1, <2>1, <2>3, MailOne DEF Mail!Step
<1>6. ASSUME NEW j \in Jobs, BackoffElapses(j) \/ LockAges(j) PROVE Mail!Next
  BY <1>2, <1>6 DEF BackoffElapses, LockAges
<1>7. ASSUME NEW t \in Ticks, Restart(t) PROVE Mail!Next
  BY <1>2, <1>7 DEF Restart
<1> QED
  BY <1>3, <1>4, <1>5, <1>6, <1>7, MailTick DEF HistoryStep, Next

-----------------------------------------------------------------------------
(* The theorems.                                                           *)

\* The inductive invariant of a queue whose ticks overlap: what a tick has read of
\* an uncontested row stays true while it works on it (processBatch and
\* recoverStuckJobs), and the relay has taken its mail once more than it was
\* charged at most.
THEOREM OverlapInvariant == HistorySpec => []HistoryInv
<1>1. HistoryInv /\ [Next /\ Record]_<<vars, contested>> => HistoryInv'
  BY HistoryInvStep DEF HistoryStep
<1> QED
  BY <1>1, HistoryInvInit, PTL DEF HistorySpec

\* Whatever is lost, recovered, overlaps or crashes, processBatch gives a mail to the
\* relay at most as often as its limit says, unless its row was contested.
THEOREM DeliveriesAreBounded == HistorySpec => []DeliveriesWithinBudget
<1>1. HistoryInv => DeliveriesWithinBudget
  <2> SUFFICES ASSUME HistoryInv, NEW j \in Jobs \ contested PROVE delivered[j] <= Budget(j)
    BY DEF DeliveriesWithinBudget
  <2>1. TypeOK /\ delivered[j] <= Bound(j)
    BY DEF HistoryInv, QueueInv, RelayInv
  <2>2. status[j] \in {"pending", "processing"} => attempts[j] < Budget(j)
    BY DEF HistoryInv, QueueInv, AttemptsWithinBudget
  <2>3. status[j] = "absent" => attempts[j] = 0
    BY DEF HistoryInv, QueueInv, UnusedRowsAreBlank
  <2>4. attempts[j] \in Nat /\ Budget(j) \in Nat /\ delivered[j] \in Nat /\ Bound(j) \in Nat
    BY <2>1, BudgetNat DEF Bound
  <2> QED
    BY <2>1, <2>2, <2>3, <2>4 DEF Bound
<1> QED
  BY <1>1, OverlapInvariant, PTL

\* The queue implements the mailbox however its ticks overlap: every execution of its
\* ticks, failures and crashes is, for each mail whose row was not contested, one of
\* accepting, delivering, charging, settling and pruning it.
THEOREM QueueImplementsMailbox == HistorySpec => QueueIsAMailbox
<1>1. HistoryInv /\ [Next /\ Record]_<<vars, contested>> => [Mail!Next]_(Mail!vars)
  BY MailStep DEF HistoryStep
<1> QED
  BY <1>1, MailInit, OverlapInvariant, PTL DEF HistorySpec, QueueIsAMailbox, Mail!Spec

=============================================================================
