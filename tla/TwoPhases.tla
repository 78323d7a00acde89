----------------------------- MODULE TwoPhases -----------------------------
(***************************************************************************)
(* The two-phase lifecycle of a share (automatic-cleanup.mdx), as visitors *)
(* and owners see it and as if every operation were one step: without the  *)
(* reads that precede writes, queries and phases of a run, failures or     *)
(* crashes.  Where the program departs from it a step is waived;           *)
(* ShareHistory says when.                                                 *)
(***************************************************************************)
EXTENDS Integers

CONSTANTS
    Visitors,
    Dates,
    Limits,
    Grace       \* days

None == -1

VARIABLES
    today,
    phase,      \* "open", "paused" by the owner, "ended" automatically; or, for
                \* good, "discarded" by the owner or "removed" automatically
    date,       \* of its expiration, if any
    limit,      \* of its views, if any
    views,
    guests,     \* visitors that were let in and are not counted yet
    since,      \* since when visitors are refused
    waived      \* nothing was promised of the step that led here

terms == <<date, limit>>
vars == <<today, phase, terms, views, guests, since>>

Exists == phase \in {"open", "paused", "ended"}

Over == (date # None /\ today > date) \/ (limit # None /\ views >= limit)

Served == phase = "open" /\ ~Over

Refused == since' = IF Served' THEN None ELSE IF since = None THEN today ELSE since

Init ==
    /\ today = 0
    /\ phase = "open"
    /\ date \in Dates \cup {None} /\ limit \in Limits \cup {None}
    /\ views = 0
    /\ guests = {}
    /\ since = IF Served THEN None ELSE today
    /\ waived = FALSE

-----------------------------------------------------------------------------
(* Visitors.                                                               *)

Enter(v) ==
    /\ Served
    /\ guests' = guests \cup {v}
    /\ UNCHANGED <<today, phase, terms, views>>

\* Who was let in is counted within the limit, even if the share closes meanwhile.
Count(v) ==
    /\ v \in guests
    /\ Exists
    /\ limit # None => views < limit
    /\ views' = views + 1
    /\ guests' = guests \ {v}
    /\ UNCHANGED <<today, phase, terms>>

Leave(others) ==
    /\ guests' = guests \ others
    /\ UNCHANGED <<today, phase, terms, views>>

-----------------------------------------------------------------------------
(* The phases.                                                             *)

Goes(from, to) ==
    /\ phase \in from
    /\ phase' = to
    /\ UNCHANGED <<today, terms, views, guests>>

\* Only a share that is over is deactivated automatically.
End == Over /\ Goes({"open", "paused"}, "ended")

\* A later day, a higher limit, or none any more.
Longer(old, new) == old # None /\ (new = None \/ new > old)

\* A share that is over cannot simply be resumed: it must be renewed, by a later
\* date or a higher limit.  No other change of its terms, or of what is not modelled
\* here, opens a share: "a share you pause by hand stays deactivated indefinitely
\* until you resume it", or extend it ("resumed, renewed, or extended").
Revise(d, n) ==
    /\ Exists
    /\ d # date => d = None \/ today <= d
    /\ date' = d /\ limit' = n
    /\ phase' = IF (Longer(date, d) \/ Longer(limit, n)) /\ ~Over' THEN "open" ELSE phase
    /\ UNCHANGED <<today, views, guests>>

Resume == ~Over /\ Goes({"paused"}, "open")

Pause == Goes({"open", "paused", "ended"}, "paused")

Discard == Goes({"open", "paused", "ended"}, "discarded")

\* Nothing jumps from live to gone, and what is paused by hand stays.
Remove ==
    /\ since # None /\ today - since > Grace
    /\ Goes({"ended"}, "removed")

DayPasses ==
    /\ today' = today + 1
    /\ UNCHANGED <<phase, terms, views, guests>>

Step ==
    \/ \E v \in Visitors : Enter(v) \/ Count(v)
    \/ \E others \in SUBSET Visitors : Leave(others)
    \/ \E d \in Dates \cup {None}, n \in Limits \cup {None} : Revise(d, n)
    \/ End \/ Pause \/ Resume \/ Discard \/ Remove \/ DayPasses

Next == waived' \/ (Step /\ Refused)

Spec == Init /\ [][Next]_vars

=============================================================================
