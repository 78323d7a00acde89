------------------------------ MODULE MCShare ------------------------------
(***************************************************************************)
(* The instances of ShareHistory that TLC checks in one run:               *)
(*   "limits"  visitors race for the views while the owner changes the     *)
(*             limit, on one day;                                          *)
(*   "visits"  visitors with one limit, on a day and the day after, so     *)
(*             that the share expires under them;                          *)
(*   "dates"   dates, extensions, pauses and cleanup runs over several     *)
(*             days, without visitors and limits.                          *)
(***************************************************************************)
EXTENDS ShareHistory, TLC

FirstDate == 0
FirstLimit == 1

VARIABLE part

Within ==
    CASE part = "limits" -> now = 0 /\ share.expiration \in {None, FirstDate}
      [] part = "visits" -> /\ now <= 1 /\ share.expiration \in {None, FirstDate}
                            /\ share.maxViews \in {None, FirstLimit}
      [] part = "dates"  -> share.expiration # FirstDate /\ share.maxViews = None

MCInit == Init /\ HistoryInit /\ part \in {"limits", "visits", "dates"} /\ Within

MCNext ==
    /\ Next /\ Record
    /\ UNCHANGED part
    /\ Within'
    /\ part = "dates" => UNCHANGED requests

MCSpec == MCInit /\ [][MCNext]_<<vars, history, part>>

\* Nothing tells one visitor from another.
VisitorSymmetry == Permutations(Visitors)
=============================================================================
