---------------------------- MODULE MCEmailQueue ----------------------------
(* Small instances of EmailHistory for TLC.                                *)
EXTENDS EmailHistory, TLC

CONSTANTS t1, t2

OneTick == {t1}
TwoTicks == {t1, t2}
TickSymmetry == Permutations(TwoTicks)
TwoJobs == 1 .. 2

MCInit == Init /\ HistoryInit

MCNext == Next /\ Record

FairMCSpec == MCInit /\ [][MCNext]_<<vars, contested>> /\ Fairness

\* HistorySpec for mails of one priority.
PlainNext == MCNext /\ \A j \in Jobs : priority'[j] = 0

PlainSpec == MCInit /\ [][PlainNext]_<<vars, contested>>
=============================================================================
