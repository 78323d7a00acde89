------------------------------ MODULE MCFiles ------------------------------
(* The instance of FileHistory that TLC checks.                            *)
EXTENDS FileHistory, TLC

\* Nothing tells one folder, file, move or request from another.
Symmetry == Permutations(Folders) \cup Permutations(Files)
            \cup Permutations(Moves) \cup Permutations(Reqs)

\* HistorySpec, with both initial predicates in one.
MCInit == Init /\ HistoryInit

MCSpec == MCInit /\ [][HistoryNext]_allVars
=============================================================================
