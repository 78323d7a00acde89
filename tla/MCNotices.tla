------------------------------ MODULE MCNotices ------------------------------
(***************************************************************************)
(* NoticeHistory for TLC.  The uploads of a reverse share and the end of a *)
(* share have only the queue in common, so an instance takes one of the    *)
(* two parts: uploads while the share rests, or the share without uploads. *)
(***************************************************************************)
EXTENDS NoticeHistory

VARIABLE part

MCInit ==
    /\ Init /\ HistoryInit
    /\ \/ part = "uploads" /\ share.date = "none"
       \/ part = "end"

MCNext ==
    /\ HistoryNext
    /\ IF part = "uploads" THEN UNCHANGED <<share, owner>> ELSE arrived' = {}
    /\ UNCHANGED part

MCSpec == MCInit /\ [][MCNext]_<<vars, history, part>> /\ Fairness
==============================================================================
