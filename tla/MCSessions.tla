----------------------------- MODULE MCSessions -----------------------------
(* The instance of SessionHistory that TLC checks.                         *)
EXTENDS SessionHistory, TLC

\* Nothing tells one token, request or tab from another.
Symmetry == Permutations(Tokens) \cup Permutations(Reqs) \cup Permutations(Tabs)

\* HistorySpec, with both initial predicates in one.
MCInit == Init /\ HistoryInit

MCSpec == MCInit /\ [][Next /\ Record]_<<vars, history>>
=============================================================================
