---------------------------- MODULE FileHistory ----------------------------
(***************************************************************************)
(* Quota with history variables: what the properties remember of moves     *)
(* that met, usage that grew behind a measurement, and of the clock.  They *)
(* follow the steps of Quota and never restrict them.                      *)
(***************************************************************************)
EXTENDS Quota

VARIABLES
    climbed,    \* the folders a move has read on its way up
    overtaken,  \* moves of which another one has moved a folder they had read
    entangled,  \* an overtaken move has written
    grown,      \* requests behind whose measurement the usage has grown
    over,       \* the day since which the limit has been reached, or None
    lapsed,     \* the usage was below the limit at some time since the clock was set
    dipped,     \* the run's listing saw a lapsed clock, or the usage was below since
    blurred,    \* why the clock does not run though the limit is reached
    late        \* picked files that a recent share listed after they were picked

history == <<climbed, overtaken, entangled, grown, over, lapsed, dipped, blurred, late>>
allVars == <<parent, place, share, move, started, received, since, day, req, history>>

-----------------------------------------------------------------------------

HistoryInit ==
    /\ climbed = [m \in Moves |-> {}]
    /\ overtaken = {}
    /\ entangled = FALSE
    /\ grown = {}
    /\ over = since
    /\ lapsed = FALSE
    /\ dipped = FALSE
    /\ blurred = FALSE
    /\ late = {}

\* A move has put a folder that m has read into another folder.
Crossed(m) == \E d \in climbed[m] : parent'[d] # parent[d] /\ parent'[d] \in Folders

\* Between its measurement and the end of its evaluation.
Measured(r) == req[r].pc \in {"create", "read", "write"}

\* The evaluation of r will set the clock.
WillSet(r) == /\ req[r].pc \in {"read", "write"} /\ req[r].used >= Limit
              /\ req[r].pc = "write" => req[r].saw = None

\* The clock may miss the limit for three reasons: a measurement that is too
\* old, a copy, which nobody evaluates, and an evaluation that breaks off.
Blurs(r, broken) == /\ req'[r] # req[r]
                    /\ \/ r \in grown
                       \/ req[r].op = "copy" /\ place' # place
                       \/ broken /\ WillSet(r)

\* A recent share lists the file, or its own folder.
Exposed(f) == \E s \in Listing(f) : share[s].recent

Picked == UNION {req[r].picked : r \in Reqs}

RecordMoves ==
    /\ climbed' = [m \in Moves |->
                     IF move'[m].pc = "idle" THEN {}
                     ELSE IF move[m].pc = "climb" /\ move'[m] # move[m]
                       THEN climbed[m] \cup {move[m].cur} ELSE climbed[m]]
    /\ overtaken' = {m \in Moves : move'[m].pc # "idle" /\ (m \in overtaken \/ Crossed(m))}
    /\ entangled' = (entangled \/ \E m \in overtaken : MoveWrite(m))

RecordUsage(broken) ==
    /\ grown' = {r \in Reqs : /\ Measured(r) /\ req'[r].pc # "idle"
                              /\ r \in grown \/ (Used' > Used /\ req'[r] = req[r])}
    /\ over' = IF Used' < Limit THEN None ELSE IF over = None THEN day ELSE over
    /\ lapsed' = (since' # None /\ (Used' < Limit \/ (since # None /\ lapsed)))
    /\ dipped' = (Used' < Limit \/ IF \E r \in Reqs : StartSweep(r) THEN lapsed' ELSE dipped)
    /\ blurred' = (Used' >= Limit /\ since' = None /\ (blurred \/ \E r \in Reqs : Blurs(r, broken)))
    /\ late' = {f \in Files : f \in Picked /\ f \in Picked' /\ Exposed(f)'
                              /\ (f \in late \/ ~Exposed(f))}

HistoryNext == \/ Works /\ RecordMoves /\ RecordUsage(FALSE)
               \/ Breaks /\ RecordMoves /\ RecordUsage(TRUE)

HistorySpec == Init /\ HistoryInit /\ [][HistoryNext]_allVars

-----------------------------------------------------------------------------
(* What holds of the rows.                                                 *)

ShareRecord == [kept : BOOLEAN, files : SUBSET Files, folders : SUBSET Folders, recent : BOOLEAN]

MoveRecord == [pc : {"idle", "climb", "write"}, dir : Places, to : Places, cur : Places]

RequestRecord ==
    [op : {"none", "upload", "copy", "receive", "sweep"},
     pc : {"idle", "create", "read", "write", "measure", "orphans", "inactive", "delete"},
     used : Nat, saw : Nat \cup {None}, picked : SUBSET Files]

TypeOK ==
    /\ parent \in [Folders -> Places \cup {Unborn, Gone}]
    /\ place \in [Files -> Places \cup {Unborn, Gone}]
    /\ share \in [Shares -> ShareRecord]
    /\ move \in [Moves -> MoveRecord]
    /\ received \in Nat /\ since \in Nat \cup {None} /\ day \in Nat
    /\ req \in [Reqs -> RequestRecord]
    /\ climbed \in [Moves -> SUBSET Folders] /\ overtaken \subseteq Moves /\ grown \subseteq Reqs
    /\ entangled \in BOOLEAN /\ lapsed \in BOOLEAN /\ dipped \in BOOLEAN /\ blurred \in BOOLEAN
    /\ over \in Nat \cup {None} /\ late \subseteq Files

\* Nothing refers to a row that is missing.
RowsAgree ==
    /\ \A d \in Dirs : parent[d] \in Dirs \cup {Root}
    /\ \A f \in Stored : place[f] \in Dirs \cup {Root}
    /\ \A s \in Shares : share[s].files \subseteq Stored /\ share[s].folders \subseteq Dirs

\* The folders that a move has read and the one it reads next hold the target,
\* not the folder that moves, and the parent of each one that it has read.
WalkInv(m) ==
    IF move[m].pc = "idle" THEN move[m] = Still /\ climbed[m] = {}
    ELSE LET path == climbed[m] \cup {move[m].cur} IN
         /\ move[m].dir \in Folders \ path
         /\ move[m].to \in Folders \cap path
         /\ (move[m].cur = Root) = (move[m].pc = "write")
         /\ \A d \in Folders \cap (path \cup {move[m].dir}) : parent[d] # Unborn
         /\ m \in overtaken \/ \A d \in climbed[m] : parent[d] \in Folders => parent[d] \in path

\* What a request has measured covers the usage until it grows behind it.
RequestInv(r) ==
    /\ (req[r].op = "none") = (req[r].pc = "idle")
    /\ req[r].pc = "idle" => req[r] = Idle
    /\ req[r].pc = "create" =>
         /\ req[r].op \in {"upload", "copy", "receive"}
         /\ req[r].used + 1 <= (IF req[r].op = "receive" THEN Limit * Factor ELSE Limit)
    /\ req[r].pc \in {"measure", "orphans", "inactive", "delete"} => req[r].op = "sweep"
    /\ Measured(r) /\ r \notin grown => Used <= req[r].used
    /\ req[r].pc = "measure" /\ ~dipped => over # None /\ over + GraceDays < day
    /\ \A f \in req[r].picked : Exposed(f) => f \in late

\* The clock of the properties: since when the limit has been reached.
ClockInv ==
    /\ (over # None) = (Used >= Limit)
    /\ over # None => over <= day
    /\ since # None /\ ~lapsed => over # None /\ over <= since

\* Files, folders, shares, walks and measurements agree.  The code relies on
\* the walk of isDescendantOf covering every folder above the target.
FilesInv ==
    /\ TypeOK /\ RowsAgree /\ ClockInv
    /\ \A m \in Moves : WalkInv(m)
    /\ \A r \in Reqs : RequestInv(r)

-----------------------------------------------------------------------------
(* Properties.                                                             *)

\* The folders form a tree, on which every walk and every query for
\* descendants ends, unless a move has been written after another move had put
\* a folder it had read into another folder: isDescendantOf and the update are
\* not one transaction.
Forest == entangled \/ Acyclic(parent)

\* While the limit is reached, the grace clock runs or an evaluation will start
\* it, unless a copy, an outdated measurement or a lost evaluation reached it.
ClockRuns == Used >= Limit /\ since = None => blurred \/ \E r \in Reqs : WillSet(r)

\* A request takes the usage over its limit (the owner's own the hard one, a
\* reverse share the soft one) only if the usage grew after it was measured.
LimitsHold ==
    [][\A r \in Reqs : req[r].pc = "create" /\ Used' > Used /\ req'[r] # req[r] /\ r \notin grown
         => Used' <= (IF req[r].op = "receive" THEN Limit * Factor ELSE Limit)]_allVars

\* The quota run deletes no file that a recently used share lists, itself or
\* by its folder, unless it came to be so after the run had picked it.  (A share
\* of a folder further up, which serves the file as well, does not protect it.)
SafeDeletion ==
    [][\A r \in Reqs, f \in Files :
         req[r].pc = "delete" /\ req'[r] # req[r] /\ f \in Stored /\ place'[f] = Gone
         => ~Exposed(f) \/ f \in late]_allVars

\* The quota run selects files only of an owner who has reached the limit for
\* longer than the grace period, unless the usage was below it in between: the
\* owner's own deletions do not stop the clock.
GraceHonoured ==
    [][\A r \in Reqs : req[r].pc = "measure" /\ req'[r].pc = "orphans" /\ ~dipped
         => over # None /\ day - over > GraceDays]_allVars

=============================================================================
