------------------------ MODULE EmailSchedulerProofs ------------------------
(***************************************************************************)
(* Proofs about EmailScheduler, for any number of timers, starts and       *)
(* wakes.                                                                  *)
(***************************************************************************)
EXTENDS EmailScheduler, TLAPS

\* clearTimeout frees the current timer when it is armed and no other.
LEMMA ClearedTimers ==
    ASSUME TypeOK
    PROVE  /\ Cleared \in [Handles -> {"free", "armed"} \cup Running]
           /\ \A h \in Handles : Cleared[h] = timer[h] \/ (timer[h] = "armed" /\ Cleared[h] = "free")
BY DEF TypeOK, Cleared

\* A handle that may be armed is one.
LEMMA NoTimerIsNoHandle == NoTimer \notin Handles
BY HandlesAssumption

\* Every step keeps the types.
LEMMA TypeStep == TypeOK /\ [Next]_vars => TypeOK'
<1> SUFFICES ASSUME TypeOK, [Next]_vars PROVE TypeOK'
    OBVIOUS
<1> USE DEF Running, WakeEvent, Unused
<1>1. CASE UNCHANGED vars
    BY <1>1 DEF TypeOK, vars
<1>2. CASE Start
    <2>1. starts' \in 0 .. MaxStarts
        BY <1>2, BoundsAssumption DEF TypeOK, Start
    <2>2. awaiting' \in Nat
        BY <1>2 DEF TypeOK, Start
    <2>3. timer' \in [Handles -> {"free", "armed"} \cup Running]
        BY <1>2, ClearedTimers DEF Start
    <2>4. QED
        BY <1>2, <2>1, <2>2, <2>3 DEF TypeOK, Start
<1>3. CASE Stop
    BY <1>3, ClearedTimers DEF TypeOK, Stop
<1>4. ASSUME WakeEvent PROVE wakes' \in 0 .. MaxWakes
    BY <1>4, BoundsAssumption DEF TypeOK
<1>5. CASE DeferWake
    BY <1>4, <1>5 DEF TypeOK, DeferWake
<1>6. ASSUME NEW h \in Handles, ScheduleNext(h) PROVE TypeOK'
    BY <1>6 DEF TypeOK, ScheduleNext
<1>7. ASSUME NEW h \in Handles, Wake(h) PROVE TypeOK'
    <2>1. timer' \in [Handles -> {"free", "armed"} \cup Running]
        BY <1>7, ClearedTimers DEF Wake
    <2>2. QED
        BY <1>4, <1>7, <2>1 DEF TypeOK, Wake
<1>8. ASSUME NEW h \in Handles, FireStale(h) \/ Fire(h) PROVE TypeOK'
    BY <1>8 DEF TypeOK, FireStale, Fire
<1>9. ASSUME NEW h \in Handles, EndBatch(h) \/ EndTick(h) PROVE TypeOK'
    <2>1. awaiting' \in Nat
        BY <1>9 DEF TypeOK, EndBatch, EndTick
    <2>2. QED
        BY <1>9, <2>1 DEF TypeOK, EndBatch, EndTick
<1>10. ASSUME NEW h \in Handles, NEW w \in Handles, EndBatchAndWake(h, w) PROVE TypeOK'
    <2>1. timer' \in [Handles -> {"free", "armed"} \cup Running]
        BY <1>10, ClearedTimers DEF EndBatchAndWake
    <2>2. QED
        BY <1>10, <2>1 DEF TypeOK, EndBatchAndWake
<1>11. QED
    BY <1>1, <1>2, <1>3, <1>5, <1>6, <1>7, <1>8, <1>9, <1>10 DEF Next

\* Every step keeps the invariant.
LEMMA SchedulerStep == SchedulerInv /\ [Next]_vars => SchedulerInv'
<1> SUFFICES ASSUME SchedulerInv, [Next]_vars PROVE SchedulerInv'
    OBVIOUS
<1> USE DEF Running, WakeEvent, Unused
<1>1. /\ TypeOK /\ TypeOK'
      /\ ChainNeverBreaks /\ DeferredWakeHasABatch /\ FlagMeansBatch
    BY TypeStep DEF SchedulerInv
<1>2. ASSUME \A h \in Handles : timer'[h] = "batch" <=> timer[h] = "batch",
             UNCHANGED isProcessing,
             wakePending' => wakePending \/ isProcessing
      PROVE  DeferredWakeHasABatch' /\ FlagMeansBatch'
    BY <1>1, <1>2 DEF DeferredWakeHasABatch, FlagMeansBatch
<1>3. CASE UNCHANGED vars
    BY <1>1, <1>2, <1>3 DEF vars, ChainNeverBreaks, SchedulerInv
<1>4. CASE Start
    BY <1>1, <1>2, <1>4, ClearedTimers DEF Start, ChainNeverBreaks, TypeOK, SchedulerInv
<1>5. CASE Stop
    BY <1>1, <1>2, <1>5, ClearedTimers DEF Stop, ChainNeverBreaks, SchedulerInv
<1>6. CASE DeferWake
    BY <1>1, <1>2, <1>6 DEF DeferWake, ChainNeverBreaks, SchedulerInv
<1>7. ASSUME NEW h \in Handles, ScheduleNext(h) PROVE SchedulerInv'
    <2>1. ChainNeverBreaks'
        BY <1>1, <1>7, NoTimerIsNoHandle DEF ScheduleNext, ChainNeverBreaks, TypeOK
    <2>2. QED
        BY <1>1, <1>2, <1>7, <2>1 DEF ScheduleNext, TypeOK, SchedulerInv
<1>8. ASSUME NEW h \in Handles, Wake(h) PROVE SchedulerInv'
    <2>1. timer'[h] = "armed" /\ \A g \in Handles \ {h} : timer'[g] = Cleared[g]
        BY <1>1, <1>8, ClearedTimers DEF Wake
    <2>2. ChainNeverBreaks'
        BY <1>8, <2>1, NoTimerIsNoHandle DEF Wake, ChainNeverBreaks
    <2>3. \A g \in Handles : timer'[g] = "batch" <=> timer[g] = "batch"
        BY <1>1, <1>8, <2>1, ClearedTimers DEF Wake
    <2>4. QED
        BY <1>1, <1>2, <1>8, <2>2, <2>3 DEF Wake, SchedulerInv
<1>9. ASSUME NEW h \in Handles, FireStale(h) PROVE SchedulerInv'
    <2>1. ChainNeverBreaks'
        BY <1>1, <1>9 DEF FireStale, ChainNeverBreaks, TypeOK
    <2>2. QED
        BY <1>1, <1>2, <1>9, <2>1 DEF FireStale, TypeOK, SchedulerInv
<1>10. ASSUME NEW h \in Handles, Fire(h) PROVE SchedulerInv'
    <2>1. ChainNeverBreaks'
        BY <1>1, <1>10 DEF Fire, ChainNeverBreaks, TypeOK
    <2>2. DeferredWakeHasABatch' /\ FlagMeansBatch'
        BY <1>1, <1>10 DEF Fire, DeferredWakeHasABatch, FlagMeansBatch, TypeOK
    <2>3. QED
        BY <1>1, <2>1, <2>2 DEF SchedulerInv
<1>11. ASSUME NEW h \in Handles, EndBatch(h) PROVE SchedulerInv'
    <2>1. ChainNeverBreaks'
        BY <1>1, <1>11 DEF EndBatch, ChainNeverBreaks, TypeOK
    <2>2. DeferredWakeHasABatch' /\ FlagMeansBatch'
        BY <1>1, <1>11 DEF EndBatch, DeferredWakeHasABatch, FlagMeansBatch, TypeOK
    <2>3. QED
        BY <1>1, <2>1, <2>2 DEF SchedulerInv
<1>12. ASSUME NEW h \in Handles, NEW w \in Handles, EndBatchAndWake(h, w) PROVE SchedulerInv'
    <2>1. /\ h # w /\ timer'[w] = "armed" /\ timer'[h] = "duties"
          /\ \A g \in Handles \ {h, w} : timer'[g] = Cleared[g]
        BY <1>1, <1>12, ClearedTimers DEF EndBatchAndWake
    <2>2. ChainNeverBreaks'
        BY <1>12, <2>1, NoTimerIsNoHandle DEF EndBatchAndWake, ChainNeverBreaks
    <2>3. \A g \in Handles : timer'[g] # "batch"
        BY <1>1, <1>12, <2>1, ClearedTimers DEF EndBatchAndWake, FlagMeansBatch
    <2>4. DeferredWakeHasABatch' /\ FlagMeansBatch'
        BY <1>12, <2>3 DEF EndBatchAndWake, DeferredWakeHasABatch, FlagMeansBatch
    <2>5. QED
        BY <1>1, <2>2, <2>4 DEF SchedulerInv
<1>13. ASSUME NEW h \in Handles, EndTick(h) PROVE SchedulerInv'
    <2>1. ChainNeverBreaks'
        BY <1>1, <1>13 DEF EndTick, ChainNeverBreaks, TypeOK
    <2>2. QED
        BY <1>1, <1>2, <1>13, <2>1 DEF EndTick, TypeOK, SchedulerInv
<1>14. QED
    BY <1>3, <1>4, <1>5, <1>6, <1>7, <1>8, <1>9, <1>10, <1>11, <1>12, <1>13 DEF Next

\* The invariant holds in every reachable state.
THEOREM SchedulerInvariant == Spec => []SchedulerInv
<1>1. Init => SchedulerInv
    <2> SUFFICES ASSUME Init PROVE SchedulerInv
        OBVIOUS
    <2>1. starts \in 0 .. MaxStarts /\ wakes \in 0 .. MaxWakes
        BY BoundsAssumption DEF Init
    <2>2. TypeOK
        BY <2>1 DEF Init, TypeOK
    <2>3. ChainNeverBreaks /\ DeferredWakeHasABatch /\ FlagMeansBatch
        BY DEF Init, ChainNeverBreaks, DeferredWakeHasABatch, FlagMeansBatch
    <2>4. QED
        BY <2>2, <2>3 DEF SchedulerInv
<1>2. QED
    BY <1>1, SchedulerStep, PTL DEF Spec

\* However wakes, starts, stops and overlapping ticks fall around the await
\* of scheduleNext, a started scheduler keeps a way to its next tick.
THEOREM PollingChain == Spec => []ChainNeverBreaks
<1>1. SchedulerInv => ChainNeverBreaks
    BY DEF SchedulerInv
<1>2. QED
    BY <1>1, SchedulerInvariant, PTL

\* A wake deferred by onWake is always picked up by the finally block of a
\* batch that is still running.
THEOREM DeferredWakeIsKept == Spec => []DeferredWakeHasABatch
<1>1. SchedulerInv => DeferredWakeHasABatch
    BY DEF SchedulerInv
<1>2. QED
    BY <1>1, SchedulerInvariant, PTL
=============================================================================
