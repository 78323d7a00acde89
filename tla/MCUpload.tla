------------------------------ MODULE MCUpload ------------------------------
(* Small instances of UploadHistory for TLC.                               *)
EXTENDS UploadHistory, TLC

MCInit == Init /\ HistoryInit

MCSpec == MCInit /\ [][Next /\ Record]_<<vars, overtaken>>

\* Keys, and registrations of one kind, are interchangeable.
Symmetry == Permutations(Uploads) \cup Permutations(Direct) \cup Permutations(Multi)
=============================================================================
