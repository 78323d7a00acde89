----------------------------- MODULE MCAccounts -----------------------------
(***************************************************************************)
(* AccountHistory and TwoFactorHistory for TLC.  The table of accounts and *)
(* the second factor of one account have no state in common, so an         *)
(* instance runs one of them and lets the other rest.                      *)
(***************************************************************************)
EXTENDS AccountHistory, TwoFactorHistory, TLC

VARIABLE part

\* Requests, and accounts, are interchangeable.
Symmetry == Permutations(Calls) \cup Permutations(Users)

MCInit ==
    /\ Init /\ HistoryInit
    /\ FactorInit /\ FactorHistoryInit
    /\ \/ part = "accounts"
       \/ part = "factor" /\ Admins = Users

MCNext ==
    \/ /\ part = "accounts"
       /\ Next /\ Record
       /\ UNCHANGED <<factorVars, factorHistory, part>>
    \/ /\ part = "factor"
       /\ FactorNext /\ FactorRecord
       /\ UNCHANGED <<vars, history, part>>

MCSpec == MCInit /\ [][MCNext]_<<vars, history, factorVars, factorHistory, part>>
=============================================================================
