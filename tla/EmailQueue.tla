----------------------------- MODULE EmailQueue -----------------------------
(***************************************************************************)
(* The outgoing mail queue of apps/server/src/modules/email/queue.ts: the  *)
(* EmailJob table, the tick that claims and sends a batch of jobs, the     *)
(* recovery of jobs stuck in "processing", the pruning of finished jobs,   *)
(* and the restart of the process.  A tick is an asynchronous function: it *)
(* is cut at every await, and ticks overlap when a wake timer fires while  *)
(* an earlier tick is past its batch (EmailScheduler shows how).           *)
(*                                                                         *)
(* Time is abstracted to the two facts the code asks about it: whether the *)
(* nextAttemptAt of a job has passed (due) and whether its lockedAt is     *)
(* more than STUCK_JOB_TIMEOUT_MS old (lockStale).                         *)
(***************************************************************************)
EXTENDS Naturals, FiniteSets

CONSTANTS
    Jobs,          \* rows of EmailJob, numbered in createdAt order
    Ticks,         \* tick activations that may be in flight at once
    BatchSize,     \* BATCH_SIZE
    RetryLimits,   \* values emailQueueMaxRetries may have at enqueue time
    RecoverEvery,  \* RECOVER_STUCK_EVERY_N_TICKS
    CleanupEvery,  \* CLEANUP_EVERY_N_TICKS
    MaxRestarts,   \* bound: crashes of the process
    DeliveryCap    \* bound: the delivery counter saturates here

ASSUME JobsAssumption == Jobs \subseteq Nat /\ IsFiniteSet(Jobs)
ASSUME LimitsAssumption == RetryLimits \subseteq Nat
ASSUME SizesAssumption ==
    /\ BatchSize \in Nat \ {0}
    /\ RecoverEvery \in Nat \ {0}
    /\ CleanupEvery \in Nat \ {0}
    /\ MaxRestarts \in Nat
    /\ DeliveryCap \in Nat \ {0}

VARIABLES
    status,        \* EmailJob.status; "absent" before create, "pruned" after delete
    attempts,      \* EmailJob.attempts
    maxAttempts,   \* EmailJob.maxAttempts
    priority,      \* EmailJob.priority
    due,           \* EmailJob.nextAttemptAt <= now
    lockStale,     \* EmailJob.lockedAt <= now - STUCK_JOB_TIMEOUT_MS
    delivered,     \* messages the SMTP relay accepted for the job
    isProcessing,  \* the module flag of the same name
    recoverPhase,  \* tickCount % RECOVER_STUCK_EVERY_N_TICKS
    cleanupPhase,  \* tickCount % CLEANUP_EVERY_N_TICKS
    booting,       \* initEmailQueueOnBoot has not started the scheduler yet
    restarts,
    pc,            \* where each tick is suspended
    todo,          \* rows of the tick's last findMany still to handle
    seen           \* attempts of those rows as that findMany read them

rows == <<status, attempts, maxAttempts, priority, due, lockStale>>
process == <<isProcessing, recoverPhase, cleanupPhase, booting, restarts>>
ticks == <<pc, todo, seen>>
vars == <<rows, delivered, process, ticks>>

-----------------------------------------------------------------------------

Steps == {"idle", "fetch", "lock", "send", "markSent", "markFailed",
          "recover", "recovering", "cleanup"}

InBatch(t) == pc[t] \in {"fetch", "lock", "send", "markSent", "markFailed"}

Exists(j) == status[j] \notin {"absent", "pruned"}

\* Attempts a job may use: a limit of 0 still allows the first one.
Budget(j) == IF maxAttempts[j] = 0 THEN 1 ELSE maxAttempts[j]

\* orderBy: [{ priority: "desc" }, { createdAt: "asc" }]
Before(j, k) == \/ priority[j] > priority[k]
                \/ priority[j] = priority[k] /\ j < k

NoAttempts == [j \in Jobs |-> 0]

Read(S) == [j \in Jobs |-> IF j \in S THEN attempts[j] ELSE 0]

Wrap(n, N) == IF n + 1 = N THEN 0 ELSE n + 1

\* Where a tick continues after its recovery check, and after its batch.
AfterRecover(c) == IF c = 0 THEN "cleanup" ELSE "idle"

\* Mutant: stuck jobs are looked for at boot only.
AfterBatchNoRecovery(r, c) == AfterRecover(c)

AfterBatch(r, c) == IF r = 0 THEN "recover" ELSE AfterRecover(c)

Init ==
    /\ status = [j \in Jobs |-> "absent"]
    /\ attempts = NoAttempts
    /\ maxAttempts = NoAttempts
    /\ priority = NoAttempts
    /\ due = [j \in Jobs |-> TRUE]
    /\ lockStale = [j \in Jobs |-> FALSE]
    /\ delivered = NoAttempts
    /\ isProcessing = FALSE
    /\ recoverPhase = 0
    /\ cleanupPhase = 0
    /\ booting = FALSE
    /\ restarts = 0
    /\ pc = [t \in Ticks |-> "idle"]
    /\ todo = [t \in Ticks |-> {}]
    /\ seen = [t \in Ticks |-> NoAttempts]

-----------------------------------------------------------------------------
(* Producers.                                                              *)

\* EmailService.send: a rendered mail becomes a pending row, due at once,
\* with the retry limit of that moment.
Enqueue(j, urgent, limit) ==
    /\ status[j] = "absent"
    /\ \A k \in Jobs : k < j => status[k] # "absent"
    /\ status' = [status EXCEPT ![j] = "pending"]
    /\ priority' = [priority EXCEPT ![j] = urgent]
    /\ maxAttempts' = [maxAttempts EXCEPT ![j] = limit]
    /\ UNCHANGED <<attempts, due, lockStale, delivered, process, ticks>>

\* EmailService.send: a template that does not render is filed as failed.
EnqueueUnrendered(j, urgent) ==
    /\ status[j] = "absent"
    /\ \A k \in Jobs : k < j => status[k] # "absent"
    /\ status' = [status EXCEPT ![j] = "failed"]
    /\ priority' = [priority EXCEPT ![j] = urgent]
    /\ UNCHANGED <<attempts, maxAttempts, due, lockStale, delivered, process, ticks>>

-----------------------------------------------------------------------------
(* One tick: processTick and the processBatch it calls.                    *)

\* Mutant: the tick does not look at isProcessing.
StartTickUnguarded(t) ==
    /\ pc[t] = "idle"
    /\ ~booting
    /\ recoverPhase' = Wrap(recoverPhase, RecoverEvery)
    /\ cleanupPhase' = Wrap(cleanupPhase, CleanupEvery)
    /\ isProcessing' = TRUE
    /\ pc' = [pc EXCEPT ![t] = "fetch"]
    /\ UNCHANGED <<rows, delivered, booting, restarts, todo, seen>>

\* A tick that finds a batch in progress goes on to its periodic duties.
StartTick(t) ==
    /\ pc[t] = "idle"
    /\ ~booting
    /\ recoverPhase' = Wrap(recoverPhase, RecoverEvery)
    /\ cleanupPhase' = Wrap(cleanupPhase, CleanupEvery)
    /\ isProcessing' = TRUE
    /\ pc' = [pc EXCEPT ![t] = IF isProcessing
                               THEN AfterBatch(recoverPhase', cleanupPhase')
                               ELSE "fetch"]
    /\ UNCHANGED <<rows, delivered, booting, restarts, todo, seen>>

DueJobs == {j \in Jobs : status[j] = "pending" /\ due[j]}

\* The first BatchSize due jobs in queue order.
IsBatch(B) ==
    /\ \A j \in B, k \in DueJobs \ B : Before(j, k)
    /\ \/ Cardinality(B) = BatchSize
       \/ B = DueJobs /\ Cardinality(B) < BatchSize

Fetch(t) ==
    /\ pc[t] = "fetch"
    /\ \E B \in SUBSET DueJobs :
        /\ IsBatch(B)
        /\ todo' = [todo EXCEPT ![t] = B]
        /\ seen' = [seen EXCEPT ![t] = Read(B)]
    /\ pc' = [pc EXCEPT ![t] = "lock"]
    /\ UNCHANGED <<rows, delivered, process>>

FetchFails(t) ==
    /\ pc[t] = "fetch"
    /\ pc' = [pc EXCEPT ![t] = "lock"]
    /\ UNCHANGED <<rows, delivered, process, todo, seen>>

\* The job the for-loop is at; it stays in todo until the loop leaves it.
IsNext(t, j) == j \in todo[t] /\ \A k \in todo[t] \ {j} : Before(j, k)

\* The loop goes on to the next job of the batch.
NextJob(t, j) ==
    /\ pc' = [pc EXCEPT ![t] = "lock"]
    /\ todo' = [todo EXCEPT ![t] = @ \ {j}]
    /\ UNCHANGED <<delivered, process, seen>>

\* updateMany where status = "pending": the claim.
Lock(t, j) ==
    /\ pc[t] = "lock"
    /\ IsNext(t, j)
    /\ status[j] = "pending"
    /\ status' = [status EXCEPT ![j] = "processing"]
    /\ lockStale' = [lockStale EXCEPT ![j] = FALSE]
    /\ pc' = [pc EXCEPT ![t] = "send"]
    /\ UNCHANGED <<attempts, maxAttempts, priority, due, delivered, process,
                   todo, seen>>

\* The claim matched no row, or threw: the job is skipped.
SkipLock(t, j) ==
    /\ pc[t] = "lock"
    /\ IsNext(t, j)
    /\ UNCHANGED rows
    /\ NextJob(t, j)

\* Mutant: the error of sendMail is swallowed.
SendSwallowed(t, j, accepted, resolved) ==
    /\ pc[t] = "send"
    /\ IsNext(t, j)
    /\ resolved => accepted
    /\ delivered' = IF accepted /\ delivered[j] < DeliveryCap
                    THEN [delivered EXCEPT ![j] = @ + 1]
                    ELSE delivered
    /\ pc' = [pc EXCEPT ![t] = "markSent"]
    /\ UNCHANGED <<rows, process, todo, seen>>

\* sendMail resolves, rejects, or rejects after the relay took the message.
Send(t, j, accepted, resolved) ==
    /\ pc[t] = "send"
    /\ IsNext(t, j)
    /\ resolved => accepted
    /\ delivered' = IF accepted /\ delivered[j] < DeliveryCap
                    THEN [delivered EXCEPT ![j] = @ + 1]
                    ELSE delivered
    /\ pc' = [pc EXCEPT ![t] = IF resolved THEN "markSent" ELSE "markFailed"]
    /\ UNCHANGED <<rows, process, todo, seen>>

\* Mutant: the last attempt is one too many.
ExhaustedLate(j, n) == n > maxAttempts[j]

\* newAttempts >= job.maxAttempts
Exhausted(j, n) == n >= maxAttempts[j]

\* The row after one more used attempt, the n-th by the caller's count.
ChargeAttempt(j, n) ==
    /\ attempts' = [attempts EXCEPT ![j] = n]
    /\ status' = [status EXCEPT ![j] = IF Exhausted(j, n) THEN "failed" ELSE "pending"]
    /\ due' = [due EXCEPT ![j] = Exhausted(j, n)]
    /\ lockStale' = [lockStale EXCEPT ![j] = FALSE]
    /\ UNCHANGED <<maxAttempts, priority>>

MarkSent(t, j) ==
    /\ pc[t] = "markSent"
    /\ IsNext(t, j)
    /\ Exists(j)
    /\ status' = [status EXCEPT ![j] = "sent"]
    /\ lockStale' = [lockStale EXCEPT ![j] = FALSE]
    /\ UNCHANGED <<attempts, maxAttempts, priority, due>>
    /\ NextJob(t, j)

MarkFailed(t, j) ==
    /\ pc[t] = "markFailed"
    /\ IsNext(t, j)
    /\ Exists(j)
    /\ ChargeAttempt(j, seen[t][j] + 1)
    /\ NextJob(t, j)

\* updateJobStatusWithRetry gives up after its second try and logs.
MarkLost(t, j) ==
    /\ pc[t] \in {"markSent", "markFailed"}
    /\ IsNext(t, j)
    /\ UNCHANGED rows
    /\ NextJob(t, j)

EndBatch(t) ==
    /\ pc[t] = "lock"
    /\ todo[t] = {}
    /\ isProcessing' = FALSE
    /\ pc' = [pc EXCEPT ![t] = AfterBatch(recoverPhase, cleanupPhase)]
    /\ seen' = [seen EXCEPT ![t] = NoAttempts]
    /\ UNCHANGED <<rows, delivered, recoverPhase, cleanupPhase, booting, restarts,
                   todo>>

-----------------------------------------------------------------------------
(* recoverStuckJobs: one findMany, then one update by id for each row.     *)

\* Mutant: the query takes every row that is not pending.
StuckOrFinished == {j \in Jobs : Exists(j) /\ status[j] # "pending"}

Stuck == {j \in Jobs : status[j] = "processing" /\ lockStale[j]}

RecoverFind(t) ==
    /\ pc[t] = "recover"
    /\ todo' = [todo EXCEPT ![t] = Stuck]
    /\ seen' = [seen EXCEPT ![t] = Read(Stuck)]
    /\ pc' = [pc EXCEPT ![t] = "recovering"]
    /\ UNCHANGED <<rows, delivered, process>>

\* The update names the id only: it does not look at the status again.
RecoverUpdate(t, j) ==
    /\ pc[t] = "recovering"
    /\ j \in todo[t]
    /\ Exists(j)
    /\ ChargeAttempt(j, seen[t][j] + 1)
    /\ todo' = [todo EXCEPT ![t] = @ \ {j}]
    /\ UNCHANGED <<delivered, process, pc, seen>>

\* The end of the recovery.  An error of the query or of an update drops
\* the rest of it; at boot the scheduler starts either way.
RecoverEnds(t) ==
    /\ pc' = [pc EXCEPT ![t] = IF booting THEN "idle" ELSE AfterRecover(cleanupPhase)]
    /\ booting' = FALSE
    /\ todo' = [todo EXCEPT ![t] = {}]
    /\ seen' = [seen EXCEPT ![t] = NoAttempts]
    /\ UNCHANGED <<rows, delivered, isProcessing, recoverPhase, cleanupPhase,
                   restarts>>

RecoverDone(t) == pc[t] = "recovering" /\ todo[t] = {} /\ RecoverEnds(t)

RecoverFails(t) ==
    /\ \/ pc[t] = "recover"
       \/ pc[t] = "recovering" /\ todo[t] # {}
    /\ RecoverEnds(t)

\* cleanupTerminalJobs: deletes the finished rows past their retention; any
\* of them may be that old.
Cleanup(t) ==
    /\ pc[t] = "cleanup"
    /\ \E old \in SUBSET {j \in Jobs : status[j] \in {"sent", "failed"}} :
        status' = [j \in Jobs |-> IF j \in old THEN "pruned" ELSE status[j]]
    /\ pc' = [pc EXCEPT ![t] = "idle"]
    /\ UNCHANGED <<attempts, maxAttempts, priority, due, lockStale, delivered,
                   process, todo, seen>>

-----------------------------------------------------------------------------
(* The clock and the process.                                              *)

BackoffElapses(j) ==
    /\ status[j] = "pending"
    /\ ~due[j]
    /\ due' = [due EXCEPT ![j] = TRUE]
    /\ UNCHANGED <<status, attempts, maxAttempts, priority, lockStale,
                   delivered, process, ticks>>

LockAges(j) ==
    /\ status[j] = "processing"
    /\ ~lockStale[j]
    /\ lockStale' = [lockStale EXCEPT ![j] = TRUE]
    /\ UNCHANGED <<status, attempts, maxAttempts, priority, due,
                   delivered, process, ticks>>

\* The process dies and initEmailQueueOnBoot runs: memory is lost, the table
\* stays, and recoverStuckJobs runs before the scheduler starts.
Restart(t) ==
    /\ restarts < MaxRestarts
    /\ restarts' = restarts + 1
    /\ isProcessing' = FALSE
    /\ recoverPhase' = 0
    /\ cleanupPhase' = 0
    /\ booting' = TRUE
    /\ pc' = [u \in Ticks |-> IF u = t THEN "recover" ELSE "idle"]
    /\ todo' = [u \in Ticks |-> {}]
    /\ seen' = [u \in Ticks |-> NoAttempts]
    /\ UNCHANGED <<rows, delivered>>

-----------------------------------------------------------------------------

Tick(t) ==
    \/ StartTick(t)
    \/ Fetch(t) \/ FetchFails(t)
    \/ \E j \in Jobs : \/ Lock(t, j) \/ SkipLock(t, j)
                       \/ \E accepted, resolved \in BOOLEAN : Send(t, j, accepted, resolved)
                       \/ MarkSent(t, j) \/ MarkFailed(t, j) \/ MarkLost(t, j)
                       \/ RecoverUpdate(t, j)
    \/ EndBatch(t)
    \/ RecoverFind(t) \/ RecoverDone(t) \/ RecoverFails(t)
    \/ Cleanup(t)

Next ==
    \/ \E j \in Jobs : \/ \E urgent \in {0, 1}, limit \in RetryLimits :
                            Enqueue(j, urgent, limit)
                       \/ \E urgent \in {0, 1} : EnqueueUnrendered(j, urgent)
                       \/ BackoffElapses(j) \/ LockAges(j)
    \/ \E t \in Ticks : Tick(t) \/ Restart(t)

Spec == Init /\ [][Next]_vars

\* The timer chain keeps ticking and time passes (weak fairness); sendMail
\* settles; a database operation tried again and again does not fail each
\* time (strong fairness of its successful outcome).
Fairness ==
    /\ \A j \in Jobs : WF_vars(BackoffElapses(j)) /\ WF_vars(LockAges(j))
    /\ \A t \in Ticks :
        /\ WF_vars(\/ StartTick(t) \/ EndBatch(t) \/ RecoverDone(t) \/ Cleanup(t)
                   \/ \E j \in Jobs, accepted, resolved \in BOOLEAN :
                        Send(t, j, accepted, resolved))
        /\ SF_vars(Fetch(t))
        /\ SF_vars(RecoverFind(t))
        /\ SF_vars(\E j \in Jobs : Lock(t, j))
        /\ SF_vars(\E j \in Jobs : MarkSent(t, j) \/ MarkFailed(t, j))
        /\ SF_vars(\E j \in Jobs : RecoverUpdate(t, j))

FairSpec == Spec /\ Fairness

-----------------------------------------------------------------------------
(* Properties.                                                             *)

TypeOK ==
    /\ status \in [Jobs -> {"absent", "pending", "processing", "sent", "failed", "pruned"}]
    /\ attempts \in [Jobs -> Nat]
    /\ maxAttempts \in [Jobs -> RetryLimits \cup {0}]
    /\ priority \in [Jobs -> {0, 1}]
    /\ due \in [Jobs -> BOOLEAN]
    /\ lockStale \in [Jobs -> BOOLEAN]
    /\ delivered \in [Jobs -> 0 .. DeliveryCap]
    /\ isProcessing \in BOOLEAN
    /\ recoverPhase \in Nat
    /\ cleanupPhase \in Nat
    /\ booting \in BOOLEAN
    /\ restarts \in 0 .. MaxRestarts
    /\ pc \in [Ticks -> Steps]
    /\ todo \in [Ticks -> SUBSET Jobs]
    /\ seen \in [Ticks -> [Jobs -> Nat]]

\* processBatch and recoverStuckJobs count attempts from values they read
\* earlier, through crashes, lost updates and overlapping ticks: a job never
\* uses more than its budget, and one that may still be sent has some left.
AttemptsWithinBudget ==
    \A j \in Jobs : /\ attempts[j] <= Budget(j)
                    /\ status[j] \in {"pending", "processing"} => attempts[j] < Budget(j)

\* No job is given up early: a failed row has used all its attempts.
FailedOnlyWhenExhausted ==
    \A j \in Jobs : status[j] = "failed" => attempts[j] >= maxAttempts[j]

\* The isProcessing flag keeps two ticks from working a batch at once, also
\* after a restart and when a tick ends while another one starts.
OneBatchAtATime ==
    \A t, u \in Ticks : InBatch(t) /\ InBatch(u) => t = u

\* A row marked sent stands for a message the relay accepted, whichever tick
\* or recovery wrote to it in between.
SentWasDelivered ==
    \A j \in Jobs : status[j] = "sent" => delivered[j] > 0

\* A tick past its read works with a snapshot: the rows it still has to
\* handle exist, and the attempts it read of them leave one to use.
ReadsLeaveAnAttempt ==
    \A t \in Ticks : \A j \in todo[t] :
        status[j] # "absent" /\ seen[t][j] < Budget(j)

\* A tick about to record a success records it on the row it sent.
MarksWhatItDelivered ==
    \A t \in Ticks, j \in Jobs :
        pc[t] = "markSent" /\ IsNext(t, j) => delivered[j] > 0

\* The flag is up as long as some tick is in its batch.
FlagCoversBatch == \A t \in Ticks : InBatch(t) => isProcessing

\* A row nobody has created has no attempts and no limit.
UnusedRowsAreBlank ==
    \A j \in Jobs : status[j] = "absent" => attempts[j] = 0 /\ maxAttempts[j] = 0

\* What makes the safety properties inductive: the flag covers the batch,
\* snapshots are still affordable, successes are marked on what was sent.
QueueInv ==
    /\ TypeOK
    /\ FlagCoversBatch
    /\ OneBatchAtATime
    /\ UnusedRowsAreBlank
    /\ ReadsLeaveAnAttempt
    /\ AttemptsWithinBudget
    /\ FailedOnlyWhenExhausted
    /\ MarksWhatItDelivered
    /\ SentWasDelivered

\* Every accepted mail is eventually sent or given up: none is left in the
\* queue or in "processing", whatever failed on the way.
EveryJobSettles ==
    \A j \in Jobs : status[j] = "pending" ~> status[j] \in {"sent", "failed", "pruned"}

=============================================================================
