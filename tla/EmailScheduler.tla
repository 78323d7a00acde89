--------------------------- MODULE EmailScheduler ---------------------------
(***************************************************************************)
(* The timers that drive the mail queue: scheduleNext, onWake, the timer   *)
(* callbacks, the finally block of processBatch, and start and stop, of    *)
(* apps/server/src/modules/email/queue.ts.  Every timer callback first     *)
(* compares its own handle with the module variable currentTimeout.  What  *)
(* a tick does to the job table is in EmailQueue; here a tick is its batch *)
(* followed by its periodic duties.                                        *)
(*                                                                         *)
(* scheduleNext awaits the poll interval from the configuration table      *)
(* before it arms its timer, so wakes, ticks and stops run in between.     *)
(***************************************************************************)
EXTENDS Naturals, FiniteSets

CONSTANTS
    Handles,      \* timer handles that may exist at once
    NoTimer,      \* currentTimeout is null
    MaxStarts,    \* bound: calls of startEmailQueueScheduler
    MaxWakes      \* bound: "wake" events

ASSUME HandlesAssumption == IsFiniteSet(Handles) /\ NoTimer \notin Handles
ASSUME BoundsAssumption == MaxStarts \in Nat /\ MaxWakes \in Nat

VARIABLES
    timer,           \* each handle: "free", "armed", or where its tick is
    kind,            \* "interval" (scheduleNext) or "wake" (delay 0)
    currentTimeout,
    awaiting,        \* scheduleNext calls waiting for the configuration
    isProcessing,
    wakePending,
    listening,       \* the wake listener is registered: started, not stopped
    starts,          \* calls of start so far
    wakes,           \* wake events so far
    wakeOwed         \* history: a wake came and no batch has started since

vars == <<timer, kind, currentTimeout, awaiting, isProcessing, wakePending,
          listening, starts, wakes, wakeOwed>>

-----------------------------------------------------------------------------

Running == {"batch", "duties"}

Init ==
    /\ timer = [h \in Handles |-> "free"]
    /\ kind = [h \in Handles |-> "interval"]
    /\ currentTimeout = NoTimer
    /\ awaiting = 0
    /\ isProcessing = FALSE
    /\ wakePending = FALSE
    /\ listening = FALSE
    /\ starts = 0
    /\ wakes = 0
    /\ wakeOwed = FALSE

\* setTimeout returns a handle nobody holds any more.
Unused(h) == timer[h] = "free" /\ currentTimeout # h

\* The timers after clearTimeout(currentTimeout).
Cleared ==
    IF currentTimeout # NoTimer /\ timer[currentTimeout] = "armed"
    THEN [timer EXCEPT ![currentTimeout] = "free"]
    ELSE timer

-----------------------------------------------------------------------------

\* startEmailQueueScheduler: stop, listen, and call scheduleNext.
Start ==
    /\ starts < MaxStarts
    /\ starts' = starts + 1
    /\ timer' = Cleared
    /\ currentTimeout' = NoTimer
    /\ wakePending' = FALSE
    /\ listening' = TRUE
    /\ awaiting' = awaiting + 1
    /\ UNCHANGED <<kind, isProcessing, wakes, wakeOwed>>

\* stopEmailQueueScheduler.
Stop ==
    /\ timer' = Cleared
    /\ currentTimeout' = NoTimer
    /\ wakePending' = FALSE
    /\ listening' = FALSE
    /\ UNCHANGED <<kind, awaiting, isProcessing, starts, wakes, wakeOwed>>

\* scheduleNext resumes: it arms a timer and makes it the current one,
\* whatever happened while it was waiting.
ScheduleNext(h) ==
    /\ awaiting > 0
    /\ Unused(h)
    /\ awaiting' = awaiting - 1
    /\ timer' = [timer EXCEPT ![h] = "armed"]
    /\ kind' = [kind EXCEPT ![h] = "interval"]
    /\ currentTimeout' = h
    /\ UNCHANGED <<isProcessing, wakePending, listening, starts, wakes, wakeOwed>>

\* The "wake" event reaches the listener.
WakeEvent ==
    /\ listening
    /\ wakes < MaxWakes
    /\ wakes' = wakes + 1
    /\ wakeOwed' = TRUE

\* onWake during a batch: left to the finally block of processBatch.
DeferWake ==
    /\ WakeEvent
    /\ isProcessing
    /\ wakePending' = TRUE
    /\ UNCHANGED <<timer, kind, currentTimeout, awaiting, isProcessing, listening, starts>>

\* Mutant: the immediate timer is not stored as the current one.
WakeForgotten(h) ==
    /\ WakeEvent
    /\ ~isProcessing
    /\ Unused(h)
    /\ timer' = [Cleared EXCEPT ![h] = "armed"]
    /\ kind' = [kind EXCEPT ![h] = "wake"]
    /\ currentTimeout' = NoTimer
    /\ UNCHANGED <<awaiting, isProcessing, wakePending, listening, starts>>

\* onWake otherwise: the current timer gives way to an immediate one.
Wake(h) ==
    /\ WakeEvent
    /\ ~isProcessing
    /\ Unused(h)
    /\ timer' = [Cleared EXCEPT ![h] = "armed"]
    /\ kind' = [kind EXCEPT ![h] = "wake"]
    /\ currentTimeout' = h
    /\ UNCHANGED <<awaiting, isProcessing, wakePending, listening, starts>>

\* A timer callback that finds itself superseded.
FireStale(h) ==
    /\ timer[h] = "armed"
    /\ currentTimeout # h
    /\ timer' = [timer EXCEPT ![h] = "free"]
    /\ UNCHANGED <<kind, currentTimeout, awaiting, isProcessing, wakePending,
                   listening, starts, wakes, wakeOwed>>

\* The current timer's callback starts a tick; processBatch returns at once
\* when another tick is in its batch.
Fire(h) ==
    /\ timer[h] = "armed"
    /\ currentTimeout = h
    /\ timer' = [timer EXCEPT ![h] = IF isProcessing THEN "duties" ELSE "batch"]
    /\ isProcessing' = TRUE
    /\ wakeOwed' = (wakeOwed /\ isProcessing)
    /\ UNCHANGED <<kind, currentTimeout, awaiting, wakePending, listening, starts, wakes>>

\* Mutant: the finally block does not look at wakePending.
EndBatchDeaf(h) ==
    /\ timer[h] = "batch"
    /\ timer' = [timer EXCEPT ![h] = "duties"]
    /\ isProcessing' = FALSE
    /\ UNCHANGED <<kind, currentTimeout, awaiting, wakePending, listening,
                   starts, wakes, wakeOwed>>

\* The finally block of processBatch, without and with a deferred wake.
EndBatch(h) ==
    /\ timer[h] = "batch"
    /\ ~wakePending
    /\ timer' = [timer EXCEPT ![h] = "duties"]
    /\ isProcessing' = FALSE
    /\ UNCHANGED <<kind, currentTimeout, awaiting, wakePending, listening,
                   starts, wakes, wakeOwed>>

EndBatchAndWake(h, w) ==
    /\ timer[h] = "batch"
    /\ wakePending
    /\ Unused(w)
    /\ timer' = [Cleared EXCEPT ![h] = "duties", ![w] = "armed"]
    /\ kind' = [kind EXCEPT ![w] = "wake"]
    /\ currentTimeout' = w
    /\ isProcessing' = FALSE
    /\ wakePending' = FALSE
    /\ UNCHANGED <<awaiting, listening, starts, wakes, wakeOwed>>

\* Mutant: an immediate tick does not chain the next one.
EndTickIntervalOnly(h) ==
    /\ timer[h] = "duties"
    /\ timer' = [timer EXCEPT ![h] = "free"]
    /\ awaiting' = IF currentTimeout = h /\ kind[h] = "interval" THEN awaiting + 1 ELSE awaiting
    /\ UNCHANGED <<kind, currentTimeout, isProcessing, wakePending, listening,
                   starts, wakes, wakeOwed>>

\* The end of the callback: only the current timer chains the next one.
EndTick(h) ==
    /\ timer[h] = "duties"
    /\ timer' = [timer EXCEPT ![h] = "free"]
    /\ awaiting' = IF currentTimeout = h THEN awaiting + 1 ELSE awaiting
    /\ UNCHANGED <<kind, currentTimeout, isProcessing, wakePending, listening,
                   starts, wakes, wakeOwed>>

Next ==
    \/ Start \/ Stop \/ DeferWake
    \/ \E h \in Handles : \/ ScheduleNext(h) \/ Wake(h) \/ FireStale(h) \/ Fire(h)
                          \/ EndBatch(h) \/ EndTick(h)
                          \/ \E w \in Handles : EndBatchAndWake(h, w)

Spec == Init /\ [][Next]_vars

\* Node's event loop: a configuration read returns, a timer fires, a tick ends.
Fairness ==
    /\ WF_vars(\E h \in Handles : ScheduleNext(h))
    /\ \A h \in Handles :
        /\ WF_vars(Fire(h) \/ FireStale(h))
        /\ WF_vars(EndBatch(h) \/ \E w \in Handles : EndBatchAndWake(h, w))
        /\ WF_vars(EndTick(h))

FairSpec == Spec /\ Fairness

-----------------------------------------------------------------------------
(* Properties.                                                             *)

TypeOK ==
    /\ timer \in [Handles -> {"free", "armed"} \cup Running]
    /\ kind \in [Handles -> {"interval", "wake"}]
    /\ currentTimeout \in Handles \cup {NoTimer}
    /\ awaiting \in Nat
    /\ isProcessing \in BOOLEAN
    /\ wakePending \in BOOLEAN
    /\ listening \in BOOLEAN
    /\ starts \in 0 .. MaxStarts
    /\ wakes \in 0 .. MaxWakes
    /\ wakeOwed \in BOOLEAN

\* However wakes, ticks and restarts interleave with the await of
\* scheduleNext, a started scheduler always has something that leads to the
\* next tick: a pending call, or a current timer that will fire or chain.
ChainNeverBreaks ==
    listening => \/ awaiting > 0
                 \/ /\ currentTimeout # NoTimer
                    /\ timer[currentTimeout] # "free"

\* A deferred wake is only ever left to a batch that is still running: its
\* finally block cannot have gone by (the race onWake's comment rules out).
DeferredWakeHasABatch == wakePending => \E h \in Handles : timer[h] = "batch"

\* isProcessing is true exactly while one tick works its batch.
FlagMeansBatch ==
    /\ isProcessing <=> \E h \in Handles : timer[h] = "batch"
    /\ \A g, h \in Handles : timer[g] = "batch" /\ timer[h] = "batch" => g = h

\* What the timers keep in every state.  onWake relies on it: a wake that
\* arrives during a batch is served by that batch's finally block, and no
\* sequence of starts, stops and wakes leaves the scheduler without a timer.
SchedulerInv == TypeOK /\ ChainNeverBreaks /\ DeferredWakeHasABatch /\ FlagMeansBatch

\* A wake is never lost altogether: some batch starts after it, unless the
\* scheduler is stopped.
EveryWakeIsServed == wakeOwed ~> (~wakeOwed \/ ~listening)

\* A running scheduler keeps ticking.
PollingNeverStops == []<>(~listening \/ \E h \in Handles : timer[h] \in Running)

=============================================================================
